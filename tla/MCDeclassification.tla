-------------------------- MODULE MCDeclassification --------------------------
(***************************************************************************)
(* The rules of policies/default.json (read, append, restart), one rule    *)
(* with no constraints at all, and a target the policy does not know; any  *)
(* arguments with clean evidence, any evidence with good arguments; and a  *)
(* record of a research server in two versions, with the notes.            *)
(***************************************************************************)
EXTENDS Declassification, TLC

CONSTANTS read, append, restart, raw, unknown, text, service, alice

NoValues == [key \in {} |-> {}]

Constraints(allowed, required, long, values) ==
    [allowed_keys |-> allowed, required_keys |-> required,
     max_lengths |-> long, allowed_values |-> values]

MCRule ==
    (read :> [risk |-> "low", requires_approval |-> FALSE,
              constraints |-> Constraints({}, {}, {}, NoValues)])
    @@ (append :> [risk |-> "medium", requires_approval |-> FALSE,
              constraints |-> Constraints({text}, {text}, {text}, NoValues)])
    @@ (restart :> [risk |-> "high", requires_approval |-> TRUE,
              constraints |-> Constraints({service}, {service}, {},
                                          service :> {"demo"})])
    @@ (raw :> [risk |-> "high", requires_approval |-> FALSE,
              constraints |-> Constraints(Absent, {}, {}, NoValues)])

MCTargets == {read, append, restart, raw, unknown}
MCKeys == {text, service}
MCValues == {"demo", "other", "long"}
MCTooLong == {"long"}
MCTaints == {"external_tool_output", "prompt_injection_suspected",
             "stored_user_content", "unverified_tool_output"}
MCDomains == {"local", "research"}

Proposal(target, arguments, taints, evidence, domain) ==
    [target |-> target, arguments |-> arguments, evidence_taints |-> taints,
     evidence |-> evidence, target_trust_domain |-> domain]

(* Any arguments with clean evidence; any evidence with good arguments. *)
GoodArguments(target) == CASE target = append -> text :> "other"
                           [] target = restart -> service :> "demo"
                           [] OTHER -> [key \in {} |-> "other"]

SmallClaims == [trust_domain : {"local", "research", Nameless},
                taints : {{}, {"external_tool_output"}, {"stored_user_content"}}]

MCInputs ==
    {Proposal(target, a, {}, {}, "local") : target \in MCTargets, a \in Partial(Values)}
    \cup UNION {{Proposal(target, GoodArguments(target), taints, evidence, domain) :
            taints \in SUBSET MCTaints, domain \in {"local", "research"},
            evidence \in {{}} \cup {{claim} : claim \in SmallClaims}}
        : target \in MCTargets}

Item(source, domain, payload, taints) ==
    [source |-> source, domain |-> domain, payload |-> payload, taints |-> taints,
     grants |-> {}]

MCFetched ==
    {Item("mcp://research", "research", "v1", {"external_tool_output", "unverified_tool_output"}),
     Item("mcp://research", "research", "v2", {"external_tool_output", "unverified_tool_output",
                                               "prompt_injection_suspected"})}
    \cup {Item("notes", "local", "confirmed", NoteTaints(TRUE)),
          Item("notes", "local", "unconfirmed", NoteTaints(FALSE))}

MCRemovables == {{"external_tool_output"}, {"unverified_tool_output"},
                 {"external_tool_output", "unverified_tool_output"}}
MCReviewers == {alice, Blank}
MCDrafts == {Proposal(target, GoodArguments(target), {}, {}, domain) :
                target \in {read, append, restart, raw}, domain \in {"local"}}

=============================================================================
