----------------------------- MODULE MCGateway -----------------------------
(***************************************************************************)
(* Instances of Gateway for TLC.  The proposals: two of one proposal_id    *)
(* (a retry whose content changed) that need approval, a medium-risk one   *)
(* that needs none, and one the policy denies.                             *)
(***************************************************************************)
EXTENDS Gateway, TLC

CONSTANTS t1, t2, i1, i2, i3, x, y, a1, a2, a3, a4, a5, alice, bob,
          cap, narrow, ident, stranger

Prop(i, content, decision, risk) ==
    [proposal_id |-> i, content |-> content, decision |-> decision, risk |-> risk]

restart   == Prop(i1, x, "require_approval", "high")
restartY  == Prop(i1, y, "require_approval", "high")
append    == Prop(i2, x, "allow", "medium")
purge     == Prop(i2, y, "require_approval", "high")
forbidden == Prop(i3, x, "deny", "high")

Appr(i, p, who) == [approval_id |-> i, proposal_digest |-> p, approver |-> who]

Req(p, s, c, i) == [proposal |-> p, approvals |-> s, capability |-> c, identity |-> i]

MCThreads == {t1, t2}
OneThread == {t1}
MCProposalIds == {i1, i2, i3}
MCProposals == {restart, restartY, append, purge, forbidden}
RaceProposals == {restart, restartY, purge}

(* A capability for everything and one for the append alone; an identity   *)
(* of the agent that proposes and one of an agent that proposes nothing.   *)
MCTokens == {cap, narrow, ident, stranger}
MCScope == (cap :> {restart, restartY, append, purge}) @@ (narrow :> {append})
           @@ (ident :> MCProposals) @@ (stranger :> {})

(* Approvals by two people for the proposal, for its changed retry and for *)
(* a second proposal; an id may be on several, and one approver is blank.  *)
good1 == Appr(a1, restart, alice)
good2 == Appr(a2, restart, bob)
same  == Appr(a2, restart, alice)
twin  == Appr(a1, restart, bob)
other == Appr(a5, restartY, bob)
otherA == Appr(a3, restartY, alice)
blank == Appr(a3, restart, Blank)
purge1 == Appr(a2, purge, alice)
purge2 == Appr(a4, purge, bob)

MCApprovals == {good1, good2, same, twin, other, otherA, blank, purge1, purge2}

MCRequests ==
    {Req(restart, s, cap, ident) :
        s \in {<<>>, <<good1>>, <<good1, good2>>, <<good2, good1>>,
               <<good1, same>>, <<good1, twin>>, <<good1, blank>>,
               <<good1, other>>}}
    \cup {Req(restartY, <<otherA, other>>, cap, ident),
          Req(append, <<>>, cap, ident), Req(append, <<good1>>, NoToken, ident),
          Req(restart, <<good1, good2>>, cap, NoToken),
          Req(restart, <<good1, good2>>, cap, stranger),
          Req(restart, <<good1, good2>>, narrow, ident),
          Req(forbidden, <<>>, NoToken, ident)}

MCPerishable == {good1, ident}
NoCredentials == {}
MCRevocable == {cap}

(* Contention: the retry, the changed retry, and a second proposal whose   *)
(* approvals share the id a2 with the first's.                             *)
RaceRequests == {Req(restart, <<good1, good2>>, cap, ident),
                 Req(restartY, <<otherA, other>>, cap, ident),
                 Req(purge, <<purge1, purge2>>, cap, ident)}

LibraryRequests == {Req(restart, s, cap, ident) :
                        s \in {<<good1, good2>>, <<good2, good1>>,
                               <<good1, same>>, <<good1, twin>>}}
                   \cup {Req(restart, <<good2, blank>>, cap, ident),
                         Req(restartY, <<otherA, other>>, cap, ident)}

Symmetry == Permutations(Threads)

=============================================================================
