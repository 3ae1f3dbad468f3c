------------------------ MODULE DeclassificationProofs ------------------------
(***************************************************************************)
(* Proofs about Policy and Declassification for every policy, every set of *)
(* taints, domains, keys and values, every evidence and any number of      *)
(* grants: what a taint does to a decision, and how it can be removed.     *)
(***************************************************************************)
EXTENDS Declassification, TLAPS

(* What took the taints from a piece of evidence that it no longer has.    *)
Reviewed(e) ==
    \A raw \in Fetched : raw.source = e.source /\ raw.payload = e.payload =>
        \A taint \in raw.taints \ e.taints :
            \E u \in e.grants :
                /\ u.grant \in grants /\ u.grant.fields.reviewer # Blank
                /\ taint \in u.grant.fields.removable_taints
                /\ u.grant.fields.evidence_digest.source = e.source
                /\ u.grant.fields.evidence_digest.payload = e.payload
                /\ u.at < u.grant.fields.expires_at
                /\ u.domain = u.grant.fields.target_domain

Shaped(e) ==
    e \in [source : {e.source}, domain : Domains \cup {Nameless}, payload : {e.payload},
           taints : SUBSET Taints, grants : {e.grants}]

TypeInv ==
    /\ proposal \in Proposals
    /\ verdict \in [decision : Decisions, risk : Risks]
    /\ \A e \in Evidence : Shaped(e)

(* Grants are as they were sealed, by reviewers with a name. *)
GrantsOK ==
    \A g \in grants :
        /\ g = Sealed(g.fields) /\ g.fields.reviewer # Blank

(* The verdict is the one of the checks made so far. *)
VerdictOK ==
    /\ stage = "policy" => verdict = PolicyDecision(proposal)
    /\ stage = "decided" => verdict = Decide(proposal)

Inv == /\ TypeInv /\ GrantsOK /\ VerdictOK
       /\ \A e \in Evidence : Reviewed(e)
       /\ cited \subseteq Evidence

----------------------------------------------------------------------------
(* Operators of the decision *)

LEMMA DecisionTypes ==
    ASSUME NEW p \in Proposals
    PROVE  /\ PolicyDecision(p) \in [decision : Decisions, risk : Risks]
           /\ Decide(p) \in [decision : Decisions, risk : Risks]
<1>1. PolicyDecision(p) \in [decision : Decisions, risk : Risks]
  BY PolicyAssumption DEF PolicyDecision, Decided, Decisions, Rules, Risks
<1>2. Decide(p) \in [decision : Decisions, risk : Risks]
  BY <1>1 DEF Decide, GuardDecision, Decided, Decisions, Risks
<1> QED BY <1>1, <1>2

(* Worse evidence: the same proposal with more taints or more claims.      *)
Worse(q, p) ==
    /\ q.target = p.target /\ q.arguments = p.arguments
    /\ q.target_trust_domain = p.target_trust_domain
    /\ p.evidence_taints \subseteq q.evidence_taints
    /\ p.evidence \subseteq q.evidence

(* Neither check is passed more easily on worse evidence. *)
LEMMA ChecksAreMonotone ==
    ASSUME NEW p, NEW q, NEW risk, Worse(q, p)
    PROVE  /\ FlowAllows(q, risk) => FlowAllows(p, risk)
           /\ GuardAllows(q, risk) => GuardAllows(p, risk)
<1>1. AllTaints(p) \subseteq AllTaints(q)
  BY DEF AllTaints, Worse
<1>2. Foreign(p) \subseteq Foreign(q)
  BY DEF Foreign, SourceDomains, Worse
<1>3. FlowAllows(q, risk) => FlowAllows(p, risk)
  BY <1>1, <1>2 DEF FlowAllows
<1>4. p.evidence_taints \subseteq q.evidence_taints
  BY DEF Worse
<1>5. GuardAllows(q, risk) => GuardAllows(p, risk)
  BY <1>4 DEF GuardAllows
<1> QED BY <1>3, <1>5

(* The decision is the same or lower on worse evidence. *)
LEMMA DecisionIsMonotone ==
    ASSUME NEW p \in Proposals, NEW q \in Proposals, Worse(q, p)
    PROVE  Rank(Decide(q)) <= Rank(Decide(p))
<1>1. q.target = p.target /\ q.arguments = p.arguments
  BY DEF Worse
<1>2. \/ PolicyDecision(q) = PolicyDecision(p)
      \/ PolicyDecision(q).decision = "deny"
  BY <1>1, ChecksAreMonotone DEF PolicyDecision, Decided
<1>3. CASE PolicyDecision(q) = PolicyDecision(p)
  <2>1. \/ Decide(q) = Decide(p)
        \/ Decide(q).decision = "deny"
    BY <1>3, ChecksAreMonotone DEF Decide, GuardDecision, Decided
  <2> QED BY <2>1, DecisionTypes DEF Rank, Decisions
<1>4. CASE PolicyDecision(q).decision = "deny"
  <2>1. Decide(q).decision = "deny"
    BY <1>4 DEF Decide, GuardDecision, Decided
  <2> QED BY <2>1, DecisionTypes DEF Rank, Decisions
<1> QED BY <1>2, <1>3, <1>4
----------------------------------------------------------------------------
(* Grants *)

(* A grant whose signature is of its fields is one that was issued: an     *)
(* edit of a field leaves the signature of the field as it was.            *)
LEMMA SealedIsIssued ==
    ASSUME GrantsOK, NEW g \in Presented, g.signature = g.fields
    PROVE  g \in grants
<1>1. ASSUME NEW h \in grants, NEW d, g = [h EXCEPT !.fields.target_domain = d]
      PROVE  g \in grants
  <2>1. h = [fields |-> h.fields, signature |-> h.fields]
    BY <1>1 DEF GrantsOK, Sealed
  <2>2. g = [fields |-> [h.fields EXCEPT !.target_domain = d], signature |-> h.fields]
    BY <1>1, <2>1
  <2> QED BY <2>1, <2>2
<1>2. ASSUME NEW h \in grants, NEW d, g = [h EXCEPT !.fields.expires_at = d]
      PROVE  g \in grants
  <2>1. h = [fields |-> h.fields, signature |-> h.fields]
    BY <1>2 DEF GrantsOK, Sealed
  <2>2. g = [fields |-> [h.fields EXCEPT !.expires_at = d], signature |-> h.fields]
    BY <1>2, <2>1
  <2> QED BY <2>1, <2>2
<1>3. ASSUME NEW h \in grants, NEW d, g = [h EXCEPT !.fields.evidence_digest = d]
      PROVE  g \in grants
  <2>1. h = [fields |-> h.fields, signature |-> h.fields]
    BY <1>3 DEF GrantsOK, Sealed
  <2>2. g = [fields |-> [h.fields EXCEPT !.evidence_digest = d], signature |-> h.fields]
    BY <1>3, <2>1
  <2> QED BY <2>1, <2>2
<1> QED BY <1>1, <1>2, <1>3 DEF Presented

(* What was reviewed stays so while grants are only added. *)
LEMMA ReviewedStays ==
    ASSUME NEW e, Reviewed(e), grants \subseteq grants'
    PROVE  Reviewed(e)'
BY DEF Reviewed

----------------------------------------------------------------------------
(* Preservation *)

LEMMA InitInv == FlowInit => Inv
<1> SUFFICES ASSUME FlowInit PROVE Inv
  OBVIOUS
<1>1. proposal \in Proposals /\ verdict = Decided("deny", "high") /\ grants = {}
      /\ cited = {} /\ declassified = {} /\ stage \in {"received", "composing"}
  BY PolicyAssumption, FlowAssumption DEF FlowInit, Init
<1>2. \A e \in Fetched : Shaped(e) /\ Reviewed(e)
  <2> TAKE e \in Fetched
  <2>1. /\ e = [source |-> e.source, domain |-> e.domain, payload |-> e.payload,
                taints |-> e.taints, grants |-> {}]
        /\ e.domain \in Domains \cup {Nameless} /\ e.taints \subseteq Taints
    BY FlowAssumption
  <2>2. e.grants = {}
    BY <2>1
  <2>3. Shaped(e)
    BY <2>1, <2>2 DEF Shaped
  <2>4. \A raw \in Fetched : raw.source = e.source /\ raw.payload = e.payload => raw = e
    BY FlowAssumption
  <2>5. Reviewed(e)
    BY <2>4 DEF Reviewed
  <2> QED BY <2>3, <2>5
<1>3. TypeInv
  BY <1>1, <1>2 DEF TypeInv, Evidence, Decided, Decisions, Risks
<1> QED BY <1>1, <1>2, <1>3 DEF Inv, GrantsOK, VerdictOK, Evidence

(* The two checks, one after the other. *)
LEMMA DecidingOK == Inv /\ Next /\ UNCHANGED flow => Inv'
<1> SUFFICES ASSUME Inv, Next, UNCHANGED flow PROVE Inv'
  OBVIOUS
<1>1. /\ proposal' = proposal /\ Evidence' = Evidence /\ grants' = grants /\ cited' = cited
      /\ \A e \in Evidence : Reviewed(e)' /\ Shaped(e)'
  BY DEF Next, EvaluatePolicy, EvaluateGuard, flow, Evidence, Inv, TypeInv, Reviewed, Shaped
<1>2. verdict' \in [decision : Decisions, risk : Risks] /\ VerdictOK'
  <2>1. CASE EvaluatePolicy
    BY <2>1, DecisionTypes DEF EvaluatePolicy, Inv, TypeInv, VerdictOK
  <2>2. CASE EvaluateGuard
    <3>1. verdict' = Decide(proposal)
      BY <2>2 DEF EvaluateGuard, Inv, VerdictOK, Decide
    <3> QED BY <2>2, <3>1, DecisionTypes DEF EvaluateGuard, Inv, TypeInv, VerdictOK
  <2> QED BY <2>1, <2>2 DEF Next
<1> QED BY <1>1, <1>2 DEF Inv, TypeInv, GrantsOK

(* A grant is issued. *)
LEMMA IssueOK ==
    ASSUME Inv, NEW e, NEW removable, NEW domain, NEW reviewer,
           Issue(e, removable, domain, reviewer)
    PROVE  Inv'
<1> DEFINE fields == [evidence_digest |-> Digest(e), removable_taints |-> removable,
                      target_domain |-> domain, reviewer |-> reviewer,
                      expires_at |-> now + Ttl]
<1>1. /\ grants' = grants \cup {Sealed(fields)} /\ reviewer # Blank
      /\ UNCHANGED <<stage, proposal, verdict, declassified, cited>>
  BY DEF Issue, vars
<1>2. Sealed(fields).fields = fields /\ fields.reviewer # Blank
  BY <1>1 DEF Sealed
<1>3. GrantsOK'
  BY <1>1, <1>2 DEF Inv, GrantsOK
<1>4. Evidence' = Evidence /\ \A f \in Evidence : Reviewed(f)'
  BY <1>1, ReviewedStays DEF Inv, Evidence
<1> QED BY <1>1, <1>3, <1>4 DEF Inv, TypeInv, VerdictOK
(* A grant is applied: what it removes, its reviewer removed; what was     *)
(* removed before, the earlier grants did.                                 *)
LEMMA DeclassifyOK ==
    ASSUME Inv, NEW e \in Evidence, NEW g \in Presented, NEW domain,
           Declassify(e, g, domain)
    PROVE  Inv'
<1> DEFINE new == [e EXCEPT !.taints = @ \ g.fields.removable_taints,
                            !.grants = @ \cup {Use(g, domain)}]
<1>1. /\ declassified' = declassified \cup {new}
      /\ UNCHANGED <<stage, proposal, verdict, grants, cited>>
      /\ g \in grants /\ g.fields.expires_at > now
      /\ g.fields.evidence_digest = Digest(e) /\ g.fields.target_domain = domain
  BY SealedIsIssued DEF Declassify, Verifies, vars, Inv
<1>2. Shaped(e) /\ Reviewed(e)
  BY DEF Inv, TypeInv
<1>3. /\ new.source = e.source /\ new.payload = e.payload /\ new.domain = e.domain
      /\ new.taints = e.taints \ g.fields.removable_taints
      /\ new.grants = e.grants \cup {Use(g, domain)}
      /\ new \in [source : {e.source}, domain : Domains \cup {Nameless}, payload : {e.payload},
                  taints : SUBSET Taints, grants : {e.grants \cup {Use(g, domain)}}]
  BY <1>2 DEF Shaped
<1> HIDE DEF new
<1>4. Shaped(new)
  BY <1>2, <1>3 DEF Shaped
<1>5. Reviewed(new)
  <2> SUFFICES ASSUME NEW raw \in Fetched, raw.source = e.source, raw.payload = e.payload,
                      NEW taint \in raw.taints \ new.taints
               PROVE  \E u \in new.grants :
                          /\ u.grant \in grants /\ u.grant.fields.reviewer # Blank
                          /\ taint \in u.grant.fields.removable_taints
                          /\ u.grant.fields.evidence_digest.source = e.source
                          /\ u.grant.fields.evidence_digest.payload = e.payload
                          /\ u.at < u.grant.fields.expires_at
                          /\ u.domain = u.grant.fields.target_domain
    BY <1>3 DEF Reviewed
  <2>1. CASE taint \notin e.taints
    BY <1>2, <1>3, <2>1 DEF Reviewed
  <2>2. CASE taint \in e.taints
    <3>1. taint \in g.fields.removable_taints
      BY <1>3, <2>2
    <3>2. Use(g, domain).grant = g /\ Use(g, domain).at = now /\ Use(g, domain).domain = domain
      BY DEF Use
    <3>3. /\ g.fields.evidence_digest.source = e.source
          /\ g.fields.evidence_digest.payload = e.payload /\ g.fields.reviewer # Blank
      BY <1>1 DEF Digest, Inv, GrantsOK
    <3>4. now < g.fields.expires_at
      BY <1>1
    <3> QED BY <1>1, <1>3, <3>1, <3>2, <3>3, <3>4
  <2> QED BY <2>1, <2>2
<1>6. Evidence' = Evidence \cup {new}
  BY <1>1 DEF Evidence
<1>7. \A f \in Evidence' : Shaped(f)' /\ Reviewed(f)'
  BY <1>1, <1>4, <1>5, <1>6 DEF Inv, TypeInv, Reviewed, Shaped
<1> QED BY <1>1, <1>6, <1>7 DEF Inv, TypeInv, GrantsOK, VerdictOK

(* A proposal is composed, or the next one is due. *)
LEMMA ComposeOK ==
    ASSUME Inv, NEW draft \in Drafts, NEW e \in Evidence, NEW asClaim \in BOOLEAN,
           Compose(draft, e, asClaim)
    PROVE  Inv'
<1>1. /\ stage' = "received" /\ cited' = {e}
      /\ UNCHANGED <<verdict, grants, declassified>>
  BY DEF Compose
<1>2. Claim(e) \in Claims /\ e.taints \subseteq Taints
  BY DEF Inv, TypeInv, Shaped, Claim, Claims
<1>3. proposal' \in Proposals
  <2>1. draft \in Proposals
    BY FlowAssumption
  <2>2. \/ proposal' = [draft EXCEPT !.evidence = {Claim(e)}]
        \/ proposal' = [draft EXCEPT !.evidence_taints = e.taints]
    BY DEF Compose
  <2> QED BY <1>2, <2>1, <2>2 DEF Proposals
<1>4. Evidence' = Evidence /\ \A f \in Evidence : Reviewed(f)'
  BY <1>1 DEF Inv, Evidence, Reviewed
<1> QED BY <1>1, <1>3, <1>4 DEF Inv, TypeInv, GrantsOK, VerdictOK

LEMMA SettleOK == ASSUME Inv, Settle PROVE Inv'
<1>1. /\ stage' = "composing" /\ cited' = {} /\ proposal' \in Proposals
      /\ verdict' = Decided("deny", "high")
      /\ UNCHANGED <<grants, declassified>>
  BY FlowAssumption DEF Settle
<1>2. Evidence' = Evidence /\ \A f \in Evidence : Reviewed(f)'
  BY <1>1 DEF Inv, Evidence, Reviewed
<1>3. verdict' \in [decision : Decisions, risk : Risks]
  BY <1>1 DEF Decided, Decisions, Risks
<1> QED BY <1>1, <1>2, <1>3 DEF Inv, TypeInv, GrantsOK, VerdictOK

LEMMA StepInv == Inv /\ [FlowNext]_<<vars, flow>> => Inv'
<1>1. ASSUME Inv, UNCHANGED <<stage, proposal, verdict, grants, declassified, cited>>
      PROVE  Inv'
  <2>1. Evidence' = Evidence /\ \A f \in Evidence : Reviewed(f)'
    BY <1>1 DEF Inv, Evidence, Reviewed
  <2> QED BY <1>1, <2>1 DEF Inv, TypeInv, GrantsOK, VerdictOK
<1>2. ASSUME Inv, FlowNext PROVE Inv'
  <2>1. CASE Tick
    BY <1>1, <1>2, <2>1 DEF Tick, vars
  <2>2. CASE Settle
    BY <1>2, <2>2, SettleOK
  <2>3. CASE Next /\ UNCHANGED flow
    BY <1>2, <2>3, DecidingOK
  <2> QED BY <1>2, <2>1, <2>2, <2>3, IssueOK, DeclassifyOK, ComposeOK DEF FlowNext
<1> QED BY <1>1, <1>2 DEF vars, flow
----------------------------------------------------------------------------
(* Theorems *)

(* The strengthened invariant holds throughout. *)
THEOREM FlowInv == FlowSpec => []Inv
BY InitInv, StepInv, PTL DEF FlowSpec

(* Every taint missing from cited evidence was removed under a grant in    *)
(* force, issued by a named reviewer for that source, payload and domain.  *)
THEOREM RemovalIsReviewed == FlowSpec => []RemovedByReview
<1>1. ASSUME Inv, NEW e \in cited PROVE Reviewed(e)
  BY <1>1 DEF Inv
<1>2. Inv => RemovedByReview
  BY <1>1 DEF Reviewed, RemovedByReview
<1> QED BY <1>2, FlowInv, PTL

(* One more taint or claim never raises a decision. *)
THEOREM EvidenceOnlyLowers == FlowSpec => []WorseEvidenceNeverHelps
<1>1. ASSUME Inv, stage = "decided", NEW taint \in Taints
      PROVE  Rank(Decide(Tainted(proposal, taint))) <= Rank(verdict)
  <2>1. proposal \in Proposals /\ verdict = Decide(proposal)
    BY <1>1 DEF Inv, TypeInv, VerdictOK
  <2>2. Tainted(proposal, taint) \in Proposals /\ Worse(Tainted(proposal, taint), proposal)
    BY <2>1 DEF Tainted, Worse, Proposals
  <2> QED BY <2>1, <2>2, DecisionIsMonotone
<1>2. ASSUME Inv, stage = "decided", NEW claim \in Claims
      PROVE  Rank(Decide(Claiming(proposal, claim))) <= Rank(verdict)
  <2>1. proposal \in Proposals /\ verdict = Decide(proposal)
    BY <1>2 DEF Inv, TypeInv, VerdictOK
  <2>2. /\ Claiming(proposal, claim) \in Proposals
        /\ Worse(Claiming(proposal, claim), proposal)
    BY <2>1 DEF Claiming, Worse, Proposals
  <2> QED BY <2>1, <2>2, DecisionIsMonotone
<1>3. Inv => WorseEvidenceNeverHelps
  BY <1>1, <1>2 DEF WorseEvidenceNeverHelps
<1> QED BY <1>3, FlowInv, PTL

(* What an undenied verdict says of the checks that were made. *)
LEMMA Undenied ==
    ASSUME NEW p \in Proposals, Decide(p).decision # "deny"
    PROVE  /\ p.target \in DOMAIN Rule /\ Decide(p).risk = Rule[p.target].risk
           /\ Valid(p.arguments, Rule[p.target].constraints)
           /\ FlowAllows(p, Decide(p).risk) /\ GuardAllows(p, Decide(p).risk)
<1>1. /\ PolicyDecision(p).decision # "deny" /\ Decide(p) = PolicyDecision(p)
      /\ GuardAllows(p, PolicyDecision(p).risk)
  BY DEF Decide, GuardDecision, Decided
<1>2. /\ p.target \in DOMAIN Rule /\ PolicyDecision(p).risk = Rule[p.target].risk
      /\ Valid(p.arguments, Rule[p.target].constraints)
      /\ FlowAllows(p, Rule[p.target].risk)
  BY <1>1 DEF PolicyDecision, Decided
<1> QED BY <1>1, <1>2

(* Tainted evidence of another domain, and untrusted evidence wherever it  *)
(* is, drives nothing of medium or high risk.                              *)
THEOREM TaintsDontDrive == FlowSpec => []CrossDomainNeverDrives
<1>1. ASSUME Inv, stage = "decided", verdict.decision # "deny", verdict.risk # "low"
      PROVE  /\ AllTaints(proposal) \cap blocked_for_effects = {}
             /\ \A claim \in proposal.evidence :
                   claim.trust_domain \in {Nameless, proposal.target_trust_domain}
                   \/ AllTaints(proposal) = {}
  <2>1. FlowAllows(proposal, verdict.risk)
    BY <1>1, Undenied DEF Inv, TypeInv, VerdictOK
  <2>2. /\ AllTaints(proposal) \cap blocked_for_effects = {}
        /\ Foreign(proposal) = {} \/ AllTaints(proposal) = {}
    BY <1>1, <2>1 DEF FlowAllows
  <2>3. \A claim \in proposal.evidence : Foreign(proposal) = {} =>
           claim.trust_domain \in {Nameless, proposal.target_trust_domain}
    BY DEF Foreign, SourceDomains
  <2> QED BY <2>2, <2>3
<1>2. Inv => CrossDomainNeverDrives
  BY <1>1 DEF CrossDomainNeverDrives
<1> QED BY <1>2, FlowInv, PTL

(* The one high-impact taint that can stand behind an allowed high-risk    *)
(* action is stored_user_content in a claim.                               *)
THEOREM OnlyStoredClaims == FlowSpec => []OnlyStoredClaimsSlip
<1>1. ASSUME Inv, stage = "decided", verdict = Decided("allow", "high")
      PROVE  /\ AllTaints(proposal) \cap high_impact_blocked_taints
                    \subseteq {"stored_user_content"}
             /\ "stored_user_content" \notin proposal.evidence_taints
  <2>1. verdict.decision # "deny" /\ verdict.risk = "high"
    BY <1>1 DEF Decided
  <2>2. FlowAllows(proposal, "high") /\ GuardAllows(proposal, "high")
    BY <1>1, <2>1, Undenied DEF Inv, TypeInv, VerdictOK
  <2> QED BY <2>2 DEF FlowAllows, GuardAllows, high_impact_blocked_taints,
                      blocked_for_effects
<1>2. Inv => OnlyStoredClaimsSlip
  BY <1>1 DEF OnlyStoredClaimsSlip
<1> QED BY <1>2, FlowInv, PTL

(* Evidence never takes a low-risk action away, but for the two taints of  *)
(* the guard's medium-impact list among the proposal's own.                *)
THEOREM LowRiskStays == FlowSpec => []LowRiskStaysAvailable
<1>1. ASSUME Inv, stage = "decided", verdict = Decided("deny", "low")
      PROVE  \/ ~Valid(proposal.arguments, Rule[proposal.target].constraints)
             \/ proposal.evidence_taints \cap medium_impact_blocked_taints # {}
  <2>1. Decide(proposal) = Decided("deny", "low")
    BY <1>1 DEF Inv, VerdictOK
  <2>2. CASE PolicyDecision(proposal).decision = "deny"
    BY <2>1, <2>2 DEF Decide, GuardDecision, PolicyDecision, Decided, FlowAllows
  <2>3. CASE PolicyDecision(proposal).decision # "deny"
    BY <2>1, <2>3 DEF Decide, GuardDecision, Decided, GuardAllows
  <2> QED BY <2>2, <2>3
<1>2. Inv => LowRiskStaysAvailable
  BY <1>1 DEF LowRiskStaysAvailable
<1> QED BY <1>2, FlowInv, PTL

(* A token with a rule's own constraints admits nothing that the rule's    *)
(* lists refuse, whatever the rules and whatever values there are.         *)
THEOREM CapabilityNarrows == FlowSpec => []CapabilityOnlyNarrows
<1>1. ASSUME NEW target \in DOMAIN Rule, NEW arguments,
             CapabilityAccepts(arguments, Rule[target].constraints)
      PROVE  Valid(arguments, [Rule[target].constraints
                                 EXCEPT !.max_lengths = {}, !.required_keys = {}])
  <2> DEFINE c == Rule[target].constraints
             u == [c EXCEPT !.max_lengths = {}, !.required_keys = {}]
  <2>1. c \in [allowed_keys : SUBSET Keys \cup {Absent}, required_keys : SUBSET Keys,
               max_lengths : SUBSET Keys, allowed_values : Partial(SUBSET Values)]
    BY PolicyAssumption DEF Rules
  <2>2. /\ u.allowed_keys = c.allowed_keys /\ u.allowed_values = c.allowed_values
        /\ u.required_keys = {} /\ u.max_lengths = {}
    BY <2>1
  <2> HIDE DEF u
  <2>3. Allowlist(u) # {} => DOMAIN arguments \subseteq Allowlist(u)
    BY <1>1, <2>2 DEF CapabilityAccepts, Allowlist
  <2>4. \A key \in DOMAIN u.allowed_values :
           key \in DOMAIN arguments /\ arguments[key] \in u.allowed_values[key]
    BY <1>1, <2>2 DEF CapabilityAccepts
  <2>5. \A key \in u.max_lengths : FALSE
    BY <2>2
  <2>6. Valid(arguments, u)
    BY <2>2, <2>3, <2>4, <2>5 DEF Valid
  <2> QED BY <2>6 DEF u
<1>2. Inv => CapabilityOnlyNarrows
  BY <1>1 DEF CapabilityOnlyNarrows
<1> QED BY <1>2, FlowInv, PTL

=============================================================================
