------------------------------- MODULE Policy -------------------------------
(***************************************************************************)
(* How TrustGateway.evaluate (src/trust_gateway/gateway.py 44-69) decides  *)
(* on a proposal: PolicyEngine.evaluate with its information-flow policy   *)
(* first, then, unless that denied, the InformationFlowGuard.  The two     *)
(* keep separate lists of taints and look in separate places for them.     *)
(* The argument envelope of a capability (capabilities.py 179-192) stands  *)
(* here too, next to the policy's.                                         *)
(*                                                                         *)
(* The policy file is a partial table from <<agent, tool, action>> to      *)
(* rules.  An argument's value matters as being listed or not and as a     *)
(* string too long or not.  Lists whose order no decision depends on are   *)
(* sets.                                                                   *)
(***************************************************************************)
EXTENDS Naturals

CONSTANTS
    Targets,           \* <<agent, tool, action>> as a proposal may name them
    Rule,              \* the policy: a function on some of the targets
    Keys, Values,      \* argument names and values
    TooLong,           \* the values that exceed a max_length
    Taints, Domains,   \* labels, and trust domains that have a name
    Nameless,          \* the empty trust domain
    Absent,            \* a constraint that the rule or token does not have
    Inputs             \* the proposals put to the gateway

Risks == {"low", "medium", "high"}
Decisions == {"deny", "require_approval", "allow"}

Claims == [trust_domain : Domains \cup {Nameless}, taints : SUBSET Taints]

Partial(V) == UNION {[S -> V] : S \in SUBSET Keys}

Proposals ==
    [target : Targets, arguments : Partial(Values), evidence_taints : SUBSET Taints,
     evidence : SUBSET Claims, target_trust_domain : Domains \cup {Nameless}]

Rules ==
    [risk : Risks, requires_approval : BOOLEAN,
     constraints : [allowed_keys : SUBSET Keys \cup {Absent}, required_keys : SUBSET Keys,
                    max_lengths : SUBSET Keys, allowed_values : Partial(SUBSET Values)]]

ASSUME PolicyAssumption == /\ \A target \in DOMAIN Rule : Rule[target] \in Rules
                           /\ Inputs \subseteq Proposals

VARIABLES stage, proposal, verdict

vars == <<stage, proposal, verdict>>

Decided(decision, risk) == [decision |-> decision, risk |-> risk]

----------------------------------------------------------------------------
(* Arguments *)

(* constraints.get("allowed_keys", []): no list is as good as an empty one. *)
Allowlist(c) == IF c.allowed_keys = Absent THEN {} ELSE c.allowed_keys

(* _validate_constraints finds no error. *)
Valid(arguments, c) ==
    /\ Allowlist(c) # {} => DOMAIN arguments \subseteq Allowlist(c)
    /\ c.required_keys \subseteq DOMAIN arguments
    /\ \A key \in DOMAIN arguments :
          /\ key \in c.max_lengths => arguments[key] \notin TooLong
          /\ key \in DOMAIN c.allowed_values =>
                arguments[key] \in c.allowed_values[key]

(* CapabilityIssuer.authorize accepts the arguments under the constraints  *)
(* of a token: a listed key must be there, an empty list allows no key.    *)
MutCapabilityAccepts(arguments, c) ==
    /\ \A key \in DOMAIN c.allowed_values :
          key \in DOMAIN arguments /\ arguments[key] \in c.allowed_values[key]
    /\ c.allowed_keys # Absent => c.allowed_keys \subseteq DOMAIN arguments
CapabilityAccepts(arguments, c) ==
    /\ \A key \in DOMAIN c.allowed_values :
          key \in DOMAIN arguments /\ arguments[key] \in c.allowed_values[key]
    /\ c.allowed_keys # Absent => DOMAIN arguments \subseteq c.allowed_keys

----------------------------------------------------------------------------
(* Information flow *)

(* ActionProposal.all_evidence_taints and source_domains. *)
AllTaints(p) == p.evidence_taints \cup UNION {claim.taints : claim \in p.evidence}
SourceDomains(p) == {claim.trust_domain : claim \in p.evidence}

blocked_for_effects ==
    {"unverified_tool_output", "untrusted_mcp_content",
     "prompt_injection_suspected", "suspicious_tool_metadata",
     "external_tool_output"}

Foreign(p) == SourceDomains(p) \ {Nameless, p.target_trust_domain}

(* InformationFlowPolicy.evaluate, as PolicyEngine.evaluate calls it. *)
MutFlowAllows(p, risk) ==
    \/ risk = "low"
    \/ AllTaints(p) \cap blocked_for_effects = {}
MutLowFlow(p, risk) ==
    /\ AllTaints(p) \cap blocked_for_effects = {}
    /\ Foreign(p) = {} \/ AllTaints(p) = {}
FlowAllows(p, risk) ==
    \/ risk = "low"
    \/ /\ AllTaints(p) \cap blocked_for_effects = {}
       /\ Foreign(p) = {} \/ AllTaints(p) = {}

high_impact_blocked_taints ==
    {"external_tool_output", "unverified_tool_output",
     "prompt_injection_suspected", "suspicious_tool_metadata",
     "stored_user_content"}

medium_impact_blocked_taints ==
    {"prompt_injection_suspected", "suspicious_tool_metadata"}

(* InformationFlowGuard.evaluate: the proposal's own taints, not the ones  *)
(* its claims carry.                                                       *)
MutGuardAllows(p, risk) ==
    LET blocked == IF risk = "high" THEN high_impact_blocked_taints
                   ELSE medium_impact_blocked_taints
    IN p.evidence_taints = {} \/ ~(p.evidence_taints \subseteq blocked)
MutGuardMedium(p, risk) ==
    p.evidence_taints \cap medium_impact_blocked_taints = {}
GuardAllows(p, risk) ==
    LET blocked == IF risk = "high" THEN high_impact_blocked_taints
                   ELSE medium_impact_blocked_taints
    IN p.evidence_taints \cap blocked = {}

----------------------------------------------------------------------------
(* The decision *)

PolicyDecision(p) ==
    IF p.target \notin DOMAIN Rule THEN Decided("deny", "high")
    ELSE LET rule == Rule[p.target] IN
         IF ~Valid(p.arguments, rule.constraints) \/ ~FlowAllows(p, rule.risk)
         THEN Decided("deny", rule.risk)
         ELSE IF rule.requires_approval
         THEN Decided("require_approval", rule.risk)
         ELSE Decided("allow", rule.risk)

GuardDecision(p, d) ==
    IF d.decision # "deny" /\ ~GuardAllows(p, d.risk)
    THEN Decided("deny", d.risk) ELSE d

Decide(p) == GuardDecision(p, PolicyDecision(p))

Init == /\ stage = "received"
        /\ proposal \in Inputs
        /\ verdict = Decided("deny", "high")

EvaluatePolicy == /\ stage = "received"
                  /\ verdict' = PolicyDecision(proposal)
                  /\ stage' = "policy"
                  /\ UNCHANGED proposal

EvaluateGuard == /\ stage = "policy"
                 /\ verdict' = GuardDecision(proposal, verdict)
                 /\ stage' = "decided"
                 /\ UNCHANGED proposal

Next == EvaluatePolicy \/ EvaluateGuard

Spec == Init /\ [][Next]_vars

----------------------------------------------------------------------------
(* Properties *)

Rank(d) == CASE d.decision = "deny" -> 0
             [] d.decision = "require_approval" -> 1
             [] d.decision = "allow" -> 2

Tainted(p, taint) == [p EXCEPT !.evidence_taints = @ \cup {taint}]
Claiming(p, claim) == [p EXCEPT !.evidence = @ \cup {claim}]

(* Worse evidence never gains authority: one more taint or one more claim  *)
(* leaves the decision as it is or lowers it, over both checks together.   *)
WorseEvidenceNeverHelps ==
    stage = "decided" =>
        /\ \A taint \in Taints : Rank(Decide(Tainted(proposal, taint))) <= Rank(verdict)
        /\ \A claim \in Claims : Rank(Decide(Claiming(proposal, claim))) <= Rank(verdict)

(* Cross-domain tainted evidence and untrusted evidence cannot drive a     *)
(* medium or high-risk effect, wherever in the proposal the taint is       *)
(* (README.md, security invariant 12).                                     *)
CrossDomainNeverDrives ==
    stage = "decided" /\ verdict.decision # "deny" /\ verdict.risk # "low" =>
        /\ AllTaints(proposal) \cap blocked_for_effects = {}
        /\ \A claim \in proposal.evidence :
              claim.trust_domain \in {Nameless, proposal.target_trust_domain}
              \/ AllTaints(proposal) = {}

(* A token that carries a rule's own constraints is no wider than the rule *)
(* in keys and values: a capability only ever narrows.                     *)
CapabilityOnlyNarrows ==
    stage = "decided" /\ proposal.target \in DOMAIN Rule =>
        LET c == Rule[proposal.target].constraints
            unmeasured == [c EXCEPT !.max_lengths = {}, !.required_keys = {}]
        IN CapabilityAccepts(proposal.arguments, c) => Valid(proposal.arguments, unmeasured)

=============================================================================
