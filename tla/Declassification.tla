-------------------------- MODULE Declassification --------------------------
(***************************************************************************)
(* From evidence to a decision: what MCP servers and the notes tool return *)
(* (with the taints MCPClient and src/trust_gateway/tools.py 27-33 give    *)
(* it), the grants of DeclassificationAuthority (declassification.py) that *)
(* remove some of its taints, and the proposals that cite it, which Policy *)
(* decides.  The gateway itself sees neither grants nor the authority: the *)
(* agent's runtime applies a grant when it likes and cites the result in   *)
(* the claims of a proposal, with the ids of the grants, which nothing     *)
(* reads (models.py 25-32).                                                *)
(*                                                                         *)
(* A digest is what it is made of, a signature the fields it covers.       *)
(* Proposals are decided one after the other; a decision reads none of     *)
(* what the other steps change, so these are taken between decisions, and  *)
(* the clock may also pass while a proposal waits.                         *)
(***************************************************************************)
EXTENDS Policy, FiniteSets

CONSTANTS Fetched,       \* evidence as tools and servers return it
          Reviewers, Blank,       \* Blank: a reviewer of white space only
          Removables,    \* sets of taints a reviewer may select
          Ttl, MaxTime, MaxGrants,
          Drafts         \* proposals but for their evidence

(* Evidence as fetched has no grants, and its source and payload say which *)
(* it is.                                                                  *)
ASSUME FlowAssumption ==
    /\ Drafts \subseteq Proposals
    /\ \A e \in Fetched :
          /\ e = [source |-> e.source, domain |-> e.domain, payload |-> e.payload,
                  taints |-> e.taints, grants |-> {}]
          /\ e.domain \in Domains \cup {Nameless} /\ e.taints \subseteq Taints
          /\ \A f \in Fetched : f.source = e.source /\ f.payload = e.payload => f = e

VARIABLES now,
          grants,        \* grants issued
          declassified,  \* evidence with taints removed
          cited          \* what the proposal rests on

flow == <<now, grants, declassified, cited>>

FlowInit == /\ now = 0 /\ grants = {} /\ declassified = {} /\ cited = {}
            /\ \/ Init
               \/ /\ stage = "composing" /\ proposal \in Drafts
                  /\ verdict = Decided("deny", "high")

Tick == /\ stage \in {"composing", "received"}
        /\ now < MaxTime /\ now' = now + 1
        /\ UNCHANGED <<vars, grants, declassified, cited>>

----------------------------------------------------------------------------
(* Evidence and grants *)

(* ToolRegistry.taints, less the label the gateway lifts on verification. *)
NoteTaints(verified) ==
    {"stored_user_content"} \cup IF verified THEN {} ELSE {"unverified_tool_output"}

Digest(e) == [source |-> e.source, payload |-> e.payload, taints |-> e.taints]

Evidence == Fetched \cup declassified

Sealed(fields) == [fields |-> fields, signature |-> fields]

Issue(e, removable, domain, reviewer) ==
    /\ stage = "composing" /\ Cardinality(grants) < MaxGrants
    /\ reviewer # Blank /\ removable # {}
    /\ grants' = grants \cup
          {Sealed([evidence_digest |-> Digest(e), removable_taints |-> removable,
                   target_domain |-> domain, reviewer |-> reviewer,
                   expires_at |-> now + Ttl])}
    /\ UNCHANGED <<vars, now, declassified, cited>>

(* A grant as issued, or edited on its way: another domain, a later end,   *)
(* another digest.                                                         *)
Presented ==
    grants \cup {[g EXCEPT !.fields.target_domain = d] : g \in grants, d \in Domains}
           \cup {[g EXCEPT !.fields.expires_at = MaxTime + 1] : g \in grants}
           \cup {[g EXCEPT !.fields.evidence_digest = Digest(e)] : g \in grants, e \in Evidence}

(* DeclassificationAuthority.verify, in its order. *)
MutVerifies(g, e, domain) ==
    /\ g.signature = g.fields
    /\ g.fields.expires_at > now
    /\ g.fields.target_domain = domain
    /\ g.fields.removable_taints \subseteq e.taints
Verifies(g, e, domain) ==
    /\ g.signature = g.fields
    /\ g.fields.expires_at > now
    /\ g.fields.evidence_digest = Digest(e)
    /\ g.fields.target_domain = domain
    /\ g.fields.removable_taints \subseteq e.taints

Use(g, domain) == [grant |-> g, at |-> now, domain |-> domain]

Declassify(e, g, domain) ==
    /\ stage = "composing" /\ Verifies(g, e, domain)
    /\ declassified' = declassified \cup
          {[e EXCEPT !.taints = @ \ g.fields.removable_taints,
                     !.grants = @ \cup {Use(g, domain)}]}
    /\ UNCHANGED <<vars, now, grants, cited>>

----------------------------------------------------------------------------
(* Proposals *)

Claim(e) == [trust_domain |-> e.domain, taints |-> e.taints]

(* A proposal that cites evidence, as claims or by its taints alone.       *)
Compose(draft, e, asClaim) ==
    /\ stage = "composing"
    /\ proposal' = IF asClaim THEN [draft EXCEPT !.evidence = {Claim(e)}]
                   ELSE [draft EXCEPT !.evidence_taints = e.taints]
    /\ stage' = "received" /\ cited' = {e}
    /\ UNCHANGED <<verdict, now, grants, declassified>>

(* The caller has its answer; the next proposal is composed. *)
Settle == /\ stage = "decided"
          /\ stage' = "composing" /\ cited' = {}
          /\ proposal' \in Drafts /\ verdict' = Decided("deny", "high")
          /\ UNCHANGED <<now, grants, declassified>>

FlowNext ==
    \/ Tick \/ Settle
    \/ Next /\ UNCHANGED flow
    \/ \E e \in Evidence :
          \/ \E removable \in Removables, domain \in Domains, reviewer \in Reviewers :
                Issue(e, removable, domain, reviewer)
          \/ \E g \in Presented, domain \in Domains : Declassify(e, g, domain)
          \/ \E draft \in Drafts, asClaim \in BOOLEAN : Compose(draft, e, asClaim)

FlowSpec == FlowInit /\ [][FlowNext]_<<vars, flow>>

----------------------------------------------------------------------------
(* Properties *)

Granted(p) == stage = "decided" /\ verdict.decision # "deny" /\ verdict.risk # "low"

(* Declassification is explicit, reviewer-bound, domain-bound,             *)
(* digest-bound, and expiring (README.md, security invariant 13): every    *)
(* taint that evidence under a medium or high-risk decision has lost was   *)
(* removed under a grant that a named reviewer issued for that source and  *)
(* payload and that was in force, for the domain named, when it was used.  *)
RemovedByReview ==
    Granted(proposal) =>
        \A e \in cited : \A raw \in Fetched :
            raw.source = e.source /\ raw.payload = e.payload =>
                \A taint \in raw.taints \ e.taints :
                    \E u \in e.grants :
                        LET grant == u.grant.fields IN
                        /\ u.grant \in grants /\ grant.reviewer # Blank
                        /\ taint \in grant.removable_taints
                        /\ grant.evidence_digest.source = e.source
                        /\ grant.evidence_digest.payload = e.payload
                        /\ u.at < grant.expires_at /\ u.domain = grant.target_domain

(* Neither list of the two checks covers all that a claim carries: the     *)
(* guard looks at the proposal's own taints only, the policy's list lacks  *)
(* stored_user_content.  What slips through both to authorize a high-risk  *)
(* action is exactly that taint, and only in a claim (infoflow.py 14-33,   *)
(* information_flow.py 27-35).                                             *)
OnlyStoredClaimsSlip ==
    stage = "decided" /\ verdict = Decided("allow", "high") =>
        /\ AllTaints(proposal) \cap high_impact_blocked_taints \subseteq {"stored_user_content"}
        /\ "stored_user_content" \notin proposal.evidence_taints

(* Low-risk observation remains available (README.md, "Cross-domain        *)
(* information-flow control") but for one case: the guard applies its      *)
(* medium-impact list to low-risk proposals too.                           *)
LowRiskStaysAvailable ==
    stage = "decided" /\ verdict = Decided("deny", "low") =>
        \/ ~Valid(proposal.arguments, Rule[proposal.target].constraints)
        \/ proposal.evidence_taints \cap medium_impact_blocked_taints # {}

=============================================================================
