------------------------- MODULE ExecutionContract -------------------------
(***************************************************************************)
(* What the gateway promises about the effect of a proposal, whatever      *)
(* threads, retries and crashes there are: the words are those of          *)
(* docs/ARCHITECTURE.md, "at-most-once intent at the gateway boundary".    *)
(* A proposal stands for its digest; several proposals may carry one       *)
(* proposal_id (a retry with other content), and only one of them may ever *)
(* be reserved.                                                            *)
(***************************************************************************)
EXTENDS Naturals

CONSTANTS Proposals       \* records with a field proposal_id

VARIABLES phase,          \* what is durably known of each proposal
          effects         \* how often the tool took effect for it

cvars == <<phase, effects>>

WithEffect    == {"completed", "verification_failed"}
WithoutEffect == {"failed", "approval_rejected"}
Settled       == WithEffect \cup WithoutEffect
Phases        == {"none", "reserved"} \cup Settled

Rivals(p) == {q \in Proposals : q.proposal_id = p.proposal_id}

TypeOK == /\ phase \in [Proposals -> Phases]
          /\ effects \in [Proposals -> Nat]

Init == /\ phase = [p \in Proposals |-> "none"]
        /\ effects = [p \in Proposals |-> 0]

(* The id is taken once, by one proposal, for ever. *)
Reserve(p) ==
    /\ \A q \in Rivals(p) : phase[q] = "none"
    /\ phase' = [phase EXCEPT ![p] = "reserved"]
    /\ UNCHANGED effects

(* The tool acts only under a reservation, and once. *)
Act(p) ==
    /\ phase[p] = "reserved"
    /\ effects[p] = 0
    /\ effects' = [effects EXCEPT ![p] = 1]
    /\ UNCHANGED phase

(* The recorded outcome tells whether the tool acted, and is final. *)
Settle(p, status) ==
    /\ phase[p] = "reserved"
    /\ status \in WithEffect => effects[p] = 1
    /\ status \in WithoutEffect => effects[p] = 0
    /\ phase' = [phase EXCEPT ![p] = status]
    /\ UNCHANGED effects

Next == \E p \in Proposals :
            \/ Reserve(p)
            \/ Act(p)
            \/ \E status \in Settled : Settle(p, status)

Spec == Init /\ [][Next]_cvars

----------------------------------------------------------------------------
(* At most one effect for a proposal_id, over all proposals that carry it. *)
AtMostOneEffect ==
    \A p \in Proposals :
        /\ effects[p] <= 1
        /\ \A q \in Rivals(p) : effects[p] + effects[q] > 1 => p = q

=============================================================================
