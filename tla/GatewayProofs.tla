--------------------------- MODULE GatewayProofs ---------------------------
(***************************************************************************)
(* Proofs about Gateway for every set of threads, proposals, approvals and *)
(* requests and for every quorum: type correctness, who owns a reservation,*)
(* at most one effect for a proposal_id, the refinement of                 *)
(* ExecutionContract, the refusal of dead credentials, that approvals are  *)
(* spent only behind a reservation, that outcomes are final, that the      *)
(* journal runs ahead, that replies are true, that every effect is paid    *)
(* for with a quorum of approvals, and that no check is passed by.         *)
(***************************************************************************)
EXTENDS Gateway, SequenceTheorems, FiniteSetTheorems, FunctionTheorems, TLAPS

(* What TypeOK needs to be inductive: loops start at their first item, an  *)
(* outcome that is about to be logged or recorded is a terminal one, and   *)
(* the row that _mark_terminal updates is there.                           *)
CallsOK ==
    \A t \in Threads :
        /\ pc[t] \notin {"validate", "consume"} => item[t] = 1
        /\ pc[t] \in {"log_outcome", "complete"} => outcome[t] \in Terminal
        /\ UseLedger /\ pc[t] \in HoldingSteps => ledger[id(t)] \in Rows

TypeInv == TypeOK /\ CallsOK

----------------------------------------------------------------------------
(* Type correctness *)

(* The requests of running calls name proposals and lists of approvals.    *)
LEMMA CallTypes ==
    ASSUME TypeOK, NEW t \in Threads, pc[t] # "idle"
    PROVE  /\ call[t] \in Requests
           /\ proposal(t) \in Proposals
           /\ id(t) \in ProposalIds
           /\ approvals(t) \in Seq(Approvals)
BY RequestsAssumption, ProposalsAssumption DEF TypeOK, proposal, id, approvals

(* The initial states have their types. *)
LEMMA InitTypeInv == Init => TypeInv
BY DEF Init, TypeInv, TypeOK, CallsOK, Steps, HoldingSteps

(* The steps before the reservation touch only their own thread.           *)
LEMMA ReadingTypeInv ==
    ASSUME TypeInv, NEW t \in Threads,
           \/ Identify(t) \/ Decide(t) \/ Authorize(t) \/ CheckBudget(t)
           \/ CheckQuorum(t) \/ ValidateApproval(t) \/ ReportReplay(t) \/ Verify(t)
    PROVE  TypeInv'
<1>1. CASE Identify(t)
  BY <1>1 DEF TypeInv, TypeOK, CallsOK, Identify, Reading, authority, Reply, Goto,
              Steps, HoldingSteps, Refusals, Terminal, proposal, approvals, id
<1>2. CASE Decide(t)
  BY <1>2 DEF TypeInv, TypeOK, CallsOK, Decide, Reading, authority, Reply, Goto,
              Steps, HoldingSteps, Refusals, Terminal, proposal, approvals, id
<1>3. CASE Authorize(t)
  BY <1>3 DEF TypeInv, TypeOK, CallsOK, Authorize, Reading, authority, Reply, Goto,
              Steps, HoldingSteps, Refusals, Terminal, proposal, approvals, id
<1>4. CASE CheckBudget(t)
  BY <1>4 DEF TypeInv, TypeOK, CallsOK, CheckBudget, Reading, authority, Reply, Goto,
              Steps, HoldingSteps, Refusals, Terminal, proposal, approvals, id
<1>5. CASE CheckQuorum(t)
  <2> DEFINE s == approvals(t)
  <2>1. /\ pc[t] = "quorum" /\ item[t] = 1
        /\ UNCHANGED <<call, item>> /\ s \in Seq(Approvals)
    BY <1>5, CallTypes DEF CheckQuorum, Reading, TypeInv, CallsOK
  <2>2. approvals(t)' = s
    BY <2>1 DEF approvals, proposal
  <2>3. CASE Goto(t, "validate") /\ UNCHANGED outcome /\ s # <<>>
    <3>1. 1 \in DOMAIN s
      BY <2>1, <2>3, EmptySeq, LenProperties
    <3>2. item'[t] \in DOMAIN approvals(t)'
      BY <2>1, <2>2, <3>1
    <3> QED
      BY <1>5, <2>1, <2>3, <3>2
         DEF TypeInv, TypeOK, CallsOK, CheckQuorum, Reading, authority, Goto, Steps,
             HoldingSteps, proposal, approvals, id
  <2>4. CASE ~(Goto(t, "validate") /\ UNCHANGED outcome /\ s # <<>>)
    <3>1. /\ pc' = [pc EXCEPT ![t] = "reserve"] \/ pc' = [pc EXCEPT ![t] = "reply"]
          /\ \/ UNCHANGED outcome
             \/ outcome' = [outcome EXCEPT ![t] = "approval_required"]
             \/ outcome' = [outcome EXCEPT ![t] = "approval_rejected"]
      BY <1>5, <2>4 DEF CheckQuorum, Reply, Goto
    <3>2. outcome' \in [Threads -> Terminal \cup Refusals \cup {"none"}]
      BY <3>1 DEF TypeInv, TypeOK, Refusals, Terminal
    <3>3. UNCHANGED <<void, ledger, consumed, spent, revoked, expired, journal,
                      effects, interrupted>>
      BY <1>5 DEF CheckQuorum, Reading, authority
    <3>4. TypeOK'
      BY <2>1, <3>1, <3>2, <3>3 DEF TypeInv, TypeOK, Steps, proposal, approvals
    <3>5. CallsOK'
      BY <2>1, <3>1, <3>3, <2>4
         DEF TypeInv, TypeOK, CallsOK, HoldingSteps, proposal, id
    <3> QED BY <3>4, <3>5 DEF TypeInv
  <2> QED BY <2>3, <2>4
<1>6. CASE ValidateApproval(t)
  <2> DEFINE s == approvals(t)
  <2>1. /\ pc[t] = "validate" /\ item[t] \in DOMAIN s
        /\ Reading /\ UNCHANGED call /\ s \in Seq(Approvals)
    BY <1>6, CallTypes DEF ValidateApproval, Reading, TypeInv, TypeOK
  <2>2. approvals(t)' = s
    BY <2>1 DEF approvals, proposal
  <2>3. CASE /\ More(t) /\ item' = [item EXCEPT ![t] = NextItem(t)]
             /\ UNCHANGED <<pc, outcome>>
    <3>1. item[t] + 1 \in DOMAIN s /\ item[t] + 1 \in Nat \ {0}
      BY <2>1, <2>3, LenProperties DEF More, TypeInv, TypeOK
    <3>2. item'[t] \in DOMAIN approvals(t)'
      BY <2>2, <2>3, <3>1 DEF NextItem, TypeInv, TypeOK
    <3> QED
      BY <1>6, <2>1, <2>3, <3>1, <3>2
         DEF TypeInv, TypeOK, CallsOK, ValidateApproval, NextItem, Reading, authority,
             proposal, approvals, id
  <2>4. CASE /\ item' = [item EXCEPT ![t] = 1]
             /\ \/ Reply(t, "approval_rejected")
                \/ Goto(t, "reserve") /\ UNCHANGED outcome
    <3>1. item' \in [Threads -> Nat \ {0}] /\ item'[t] = 1
      BY <2>4 DEF TypeInv, TypeOK
    <3>2. CASE Reply(t, "approval_rejected")
      BY <2>1, <2>4, <3>1, <3>2
         DEF TypeInv, TypeOK, CallsOK, Reading, authority, Reply, Goto,
             Steps, HoldingSteps, Refusals, Terminal, proposal, approvals, id
    <3>3. CASE Goto(t, "reserve") /\ UNCHANGED outcome
      BY <2>1, <2>4, <3>1, <3>3
         DEF TypeInv, TypeOK, CallsOK, Reading, authority, Goto,
             Steps, HoldingSteps, proposal, approvals, id
    <3> QED BY <2>4, <3>2, <3>3
  <2> QED BY <1>6, <2>3, <2>4 DEF ValidateApproval
<1>7. CASE ReportReplay(t)
  BY <1>7 DEF TypeInv, TypeOK, CallsOK, ReportReplay, ReplayStatus, Reading, authority,
              Reply, Goto, Steps, HoldingSteps, Refusals, Terminal, proposal, approvals, id
<1>8. CASE Verify(t)
  BY <1>8 DEF TypeInv, TypeOK, CallsOK, Verify, Reading, authority, Reply, Goto,
              Steps, HoldingSteps, Refusals, Terminal, proposal, approvals, id
<1> QED BY <1>1, <1>2, <1>3, <1>4, <1>5, <1>6, <1>7, <1>8

(* The steps of a call that holds, or tries to take, the reservation.      *)
LEMMA ReserveTypeInv ==
    ASSUME TypeInv, NEW t \in Threads, Reserve(t)
    PROVE  TypeInv'
<1> DEFINE s == approvals(t)
<1>1. /\ pc[t] = "reserve" /\ item[t] = 1 /\ s \in Seq(Approvals)
      /\ proposal(t) \in Proposals /\ id(t) \in ProposalIds
      /\ UNCHANGED <<call, item, outcome, void, consumed, spent, revoked,
                     expired, journal, effects, interrupted>>
  BY CallTypes DEF Reserve, TypeInv, CallsOK
<1>2. s # <<>> => item[t] \in DOMAIN s
  BY <1>1, EmptySeq, LenProperties
<1>3. \E step \in {"log_reserved", "report", "log_charged", "consume"} :
          /\ pc' = [pc EXCEPT ![t] = step]
          /\ step = "consume" => s # <<>>
          /\ UseLedger /\ step # "report" => ledger'[id(t)] \in Rows
  <2>1. [proposal_digest |-> proposal(t), state |-> "reserved",
         terminal_status |-> "none"] \in Rows
    BY <1>1 DEF Rows
  <2> QED BY <1>1, <2>1 DEF Reserve, Goto, AfterReservation, TypeInv, TypeOK
<1>4. /\ ledger' \in [ProposalIds -> Rows \cup {NoRow}]
      /\ \A i \in ProposalIds : ledger[i] \in Rows => ledger'[i] \in Rows
  <2>1. [proposal_digest |-> proposal(t), state |-> "reserved",
         terminal_status |-> "none"] \in Rows
    BY <1>1 DEF Rows
  <2> QED BY <1>1, <2>1 DEF Reserve, TypeInv, TypeOK
<1>5. TypeOK'
  BY <1>1, <1>2, <1>3, <1>4
     DEF TypeInv, TypeOK, Steps, HoldingSteps, proposal, approvals
<1>6. \A u \in Threads \ {t} : pc'[u] = pc[u] /\ id(u)' = id(u)
  BY <1>1, <1>3 DEF TypeInv, TypeOK, id, proposal
<1>7. \A u \in Threads \ {t} : pc[u] \in HoldingSteps => id(u) \in ProposalIds
  BY CallTypes DEF TypeInv, HoldingSteps
<1>8. CallsOK'
  BY <1>1, <1>3, <1>4, <1>6, <1>7 DEF TypeInv, TypeOK, CallsOK, HoldingSteps, id, proposal
<1> QED BY <1>5, <1>8 DEF TypeInv

LEMMA JournalTypeInv ==
    ASSUME TypeInv, NEW t \in Threads, Journal(t)
    PROVE  TypeInv'
<1> DEFINE s == approvals(t)
<1>1. /\ pc[t] \in {"log_reserved", "log_accepted", "log_charged", "log_outcome"}
      /\ item[t] = 1
      /\ UNCHANGED <<call, item, outcome, void, authority, revoked, expired,
                     effects, interrupted>>
  BY DEF Journal, TypeInv, CallsOK
<1>2. s \in Seq(Approvals) /\ proposal(t) \in Proposals
  BY <1>1, CallTypes DEF TypeInv
<1>3. s # <<>> => item[t] \in DOMAIN s
  BY <1>1, <1>2, EmptySeq, LenProperties
<1>4. \E step \in {"log_charged", "consume", "tool", "complete"} :
          /\ pc' = [pc EXCEPT ![t] = step]
          /\ step = "consume" => s # <<>>
          /\ step = "complete" => pc[t] = "log_outcome"
  BY DEF Journal, Goto, AfterReservation, AfterOutcome
<1>5. journal' \subseteq Events \X Proposals
  <2>1. pc[t] = "log_outcome" => OutcomeEvent(outcome[t]) \in Events
    BY DEF TypeInv, CallsOK, OutcomeEvent, Terminal, Events
  <2>2. \E event \in Events : journal' = journal \cup {<<event, proposal(t)>>}
    BY <2>1 DEF Journal, Events
  <2> QED BY <1>2, <2>2 DEF TypeInv, TypeOK
<1> QED
  BY <1>1, <1>3, <1>4, <1>5
     DEF TypeInv, TypeOK, CallsOK, Steps, HoldingSteps, authority, proposal, approvals, id

LEMMA ConsumeTypeInv ==
    ASSUME TypeInv, NEW t \in Threads, ConsumeApproval(t)
    PROVE  TypeInv'
<1> DEFINE s == approvals(t)
           a == s[item[t]]
<1>1. /\ pc[t] = "consume" /\ item[t] \in DOMAIN s
      /\ UNCHANGED <<call, void, ledger, revoked, expired, journal, effects, interrupted>>
  BY DEF ConsumeApproval, TypeInv, TypeOK
<1>2. s \in Seq(Approvals) /\ a \in Approvals
  BY <1>1, CallTypes, LenProperties DEF TypeInv
<1>3. CASE /\ Taken(a)
           /\ outcome' = [outcome EXCEPT ![t] = "approval_rejected"]
           /\ Goto(t, "log_outcome")
           /\ item' = [item EXCEPT ![t] = 1]
           /\ UNCHANGED <<consumed, spent>>
  BY <1>1, <1>3
     DEF TypeInv, TypeOK, CallsOK, Goto, Steps, HoldingSteps, Terminal, proposal, approvals, id
<1>4. CASE /\ ~Taken(a)
           /\ consumed' = consumed \cup {a.approval_id}
           /\ spent' = spent \cup {a}
           /\ UNCHANGED outcome
           /\ \/ More(t) /\ item' = [item EXCEPT ![t] = NextItem(t)] /\ UNCHANGED pc
              \/ item' = [item EXCEPT ![t] = 1] /\ Goto(t, "log_accepted")
  <2>1. /\ consumed' \subseteq {b.approval_id : b \in Approvals}
        /\ spent' \subseteq Approvals
    BY <1>2, <1>4 DEF TypeInv, TypeOK
  <2>2. CASE More(t) /\ item' = [item EXCEPT ![t] = NextItem(t)] /\ UNCHANGED pc
    <3>1. NextItem(t) \in DOMAIN s /\ NextItem(t) \in Nat \ {0}
      BY <1>1, <1>2, <2>2, LenProperties DEF More, NextItem, TypeInv, TypeOK
    <3>2. approvals(t)' = s
      BY <1>1 DEF approvals, proposal
    <3>3. item' \in [Threads -> Nat \ {0}] /\ item'[t] \in DOMAIN approvals(t)'
      BY <2>2, <3>1, <3>2 DEF TypeInv, TypeOK
    <3> QED
      BY <1>1, <1>4, <2>1, <2>2, <3>3
         DEF TypeInv, TypeOK, CallsOK, proposal, approvals, id
  <2>3. CASE item' = [item EXCEPT ![t] = 1] /\ Goto(t, "log_accepted")
    <3>1. item' \in [Threads -> Nat \ {0}] /\ item'[t] = 1
      BY <2>3 DEF TypeInv, TypeOK
    <3> QED
      BY <1>1, <1>4, <2>1, <2>3, <3>1
         DEF TypeInv, TypeOK, CallsOK, Goto, Steps, HoldingSteps, proposal, approvals, id
  <2> QED BY <1>4, <2>2, <2>3
<1> QED BY <1>3, <1>4 DEF ConsumeApproval

LEMMA OutcomeTypeInv ==
    ASSUME TypeInv, NEW t \in Threads, RunTool(t) \/ Complete(t) \/ Return(t)
    PROVE  TypeInv'
<1>1. CASE RunTool(t)
  <2>1. pc[t] = "tool" /\ proposal(t) \in Proposals
    BY <1>1, CallTypes DEF RunTool, TypeInv
  <2>2. effects' \in [Proposals -> Nat]
    BY <1>1, <2>1 DEF RunTool, TypeInv, TypeOK
  <2> QED
    BY <1>1, <2>1, <2>2
       DEF TypeInv, TypeOK, CallsOK, RunTool, authority, Goto, Steps, HoldingSteps,
           Terminal, proposal, approvals, id
<1>2. CASE Complete(t)
  <2>1. pc[t] = "complete" /\ outcome[t] \in Terminal
    BY <1>2 DEF Complete, TypeInv, CallsOK
  <2>2. ledger' \in [ProposalIds -> Rows \cup {NoRow}]
    <3>1. CASE UseLedger
      <4> DEFINE row == [ledger[id(t)] EXCEPT !.state = "terminal",
                                              !.terminal_status = outcome[t]]
      <4>1. ledger[id(t)] \in Rows
        BY <2>1, <3>1 DEF TypeInv, CallsOK, HoldingSteps
      <4>2. row \in Rows
        BY <2>1, <4>1 DEF Rows
      <4>3. ledger' = [ledger EXCEPT ![id(t)] = row]
        BY <1>2, <3>1 DEF Complete
      <4> QED BY <4>2, <4>3 DEF TypeInv, TypeOK
    <3>2. CASE ~UseLedger
      BY <1>2, <3>2 DEF Complete, TypeInv, TypeOK
    <3> QED BY <3>1, <3>2
  <2>3. /\ pc' = [pc EXCEPT ![t] = "reply"]
        /\ UNCHANGED <<call, item, outcome, void, consumed, spent, revoked,
                       expired, journal, effects, interrupted>>
    BY <1>2 DEF Complete, Goto
  <2>4. TypeOK'
    <3>1. \A u \in Threads :
             /\ pc'[u] # "idle" => pc[u] # "idle"
             /\ pc'[u] \in {"validate", "consume"} => pc'[u] = pc[u]
             /\ approvals(u)' = approvals(u)
      BY <2>1, <2>3 DEF TypeInv, TypeOK, proposal, approvals
    <3>2. pc' \in [Threads -> Steps]
      BY <2>3 DEF TypeInv, TypeOK, Steps
    <3> QED BY <2>2, <2>3, <3>1, <3>2 DEF TypeInv, TypeOK
  <2>5. ASSUME NEW u \in Threads, UseLedger, pc'[u] \in HoldingSteps
        PROVE  ledger'[id(u)'] \in Rows
    <3>1. pc[u] \in HoldingSteps /\ id(u)' = id(u) /\ id(u) \in ProposalIds
      BY <2>3, <2>5, CallTypes DEF TypeInv, TypeOK, HoldingSteps, id, proposal
    <3>2. ledger[id(u)] \in Rows
      BY <2>5, <3>1 DEF TypeInv, CallsOK
    <3>3. ledger'[id(u)] = [ledger[id(u)] EXCEPT !.state = "terminal",
                                                 !.terminal_status = outcome[t]]
          \/ ledger'[id(u)] = ledger[id(u)]
      BY <1>2, <3>1 DEF Complete, TypeInv, TypeOK
    <3> QED BY <2>1, <3>1, <3>2, <3>3 DEF Rows
  <2>6. CallsOK'
    <3>1. \A u \in Threads :
             /\ pc'[u] \notin {"validate", "consume"} => item'[u] = 1
             /\ pc'[u] \in {"log_outcome", "complete"} => outcome'[u] \in Terminal
      BY <2>1, <2>3 DEF TypeInv, TypeOK, CallsOK
    <3> QED BY <2>5, <3>1 DEF CallsOK
  <2> QED BY <2>4, <2>6 DEF TypeInv
<1>3. CASE Return(t)
  BY <1>3 DEF TypeInv, TypeOK, CallsOK, Return, authority, Goto, Steps, HoldingSteps,
              proposal, approvals, id
<1> QED BY <1>1, <1>2, <1>3

(* Requests, failures and the world outside.                               *)
LEMMA SubmitTypeInv ==
    ASSUME TypeInv, NEW t \in Threads, NEW r \in Requests, Submit(t, r)
    PROVE  TypeInv'
<1>1. Dead(r) \in BOOLEAN
  BY DEF Dead
<1> QED
  BY <1>1 DEF TypeInv, TypeOK, CallsOK, Submit, authority, Goto, Steps, HoldingSteps,
              proposal, approvals, id

LEMMA RaiseTypeInv ==
    ASSUME TypeInv, NEW t \in Threads, Raise(t)
    PROVE  TypeInv'
<1>1. Held({t}) \subseteq ProposalIds
  BY CallTypes DEF Held, TypeInv, HoldingSteps
<1>2. /\ pc[t] # "idle"
      /\ pc' = [pc EXCEPT ![t] = "reply"]
      /\ outcome' = [outcome EXCEPT ![t] = "error"]
      /\ item' = [item EXCEPT ![t] = 1]
      /\ UNCHANGED <<call, void, ledger, consumed, spent, revoked, expired, journal, effects>>
  BY DEF Raise, FaultSteps, Reply, Goto, authority
<1>3. interrupted' \subseteq ProposalIds
  BY <1>1 DEF Raise, TypeInv, TypeOK
<1>4. TypeOK'
  BY <1>2, <1>3 DEF TypeInv, TypeOK, Steps, Refusals, proposal, approvals
<1>5. CallsOK'
  BY <1>2 DEF TypeInv, TypeOK, CallsOK, HoldingSteps, proposal, id
<1> QED BY <1>4, <1>5 DEF TypeInv

LEMMA CrashTypeInv ==
    ASSUME TypeInv, NEW S \in SUBSET Threads, Crash(S)
    PROVE  TypeInv'
<1>1. Held(S) \subseteq ProposalIds
  BY CallTypes DEF Held, TypeInv, HoldingSteps
<1>2. /\ UNCHANGED <<ledger, consumed, spent, revoked, expired, journal, effects>>
      /\ interrupted' \subseteq ProposalIds
  BY <1>1 DEF Crash, authority, TypeInv, TypeOK
<1>3. /\ pc' \in [Threads -> Steps]
      /\ call' \in [Threads -> Requests \cup {NoCall}]
      /\ item' \in [Threads -> Nat \ {0}]
      /\ outcome' \in [Threads -> Terminal \cup Refusals \cup {"none"}]
      /\ void' \in [Threads -> BOOLEAN]
  <2>1. pc' \in [Threads -> Steps]
    BY DEF Crash, TypeInv, TypeOK, Steps
  <2>2. call' \in [Threads -> Requests \cup {NoCall}]
    BY DEF Crash, TypeInv, TypeOK
  <2>3. item' \in [Threads -> Nat \ {0}]
    BY DEF Crash, TypeInv, TypeOK
  <2>4. outcome' \in [Threads -> Terminal \cup Refusals \cup {"none"}]
    BY DEF Crash, TypeInv, TypeOK
  <2>5. void' \in [Threads -> BOOLEAN]
    BY DEF Crash, TypeInv, TypeOK
  <2> QED BY <2>1, <2>2, <2>3, <2>4, <2>5
<1>4. \A t \in Threads :
        \/ pc'[t] = "idle" /\ item'[t] = 1
        \/ /\ pc'[t] = pc[t] /\ call'[t] = call[t]
           /\ item'[t] = item[t] /\ outcome'[t] = outcome[t]
           /\ approvals(t)' = approvals(t) /\ id(t)' = id(t)
  <2> TAKE t \in Threads
  <2>1. CASE t \in S
    BY <2>1 DEF Crash
  <2>2. CASE t \notin S
    <3>1. /\ pc'[t] = pc[t] /\ call'[t] = call[t]
          /\ item'[t] = item[t] /\ outcome'[t] = outcome[t]
      BY <2>2 DEF Crash
    <3> QED BY <3>1 DEF approvals, id, proposal
  <2> QED BY <2>1, <2>2
<1>5. TypeOK'
  BY <1>2, <1>3, <1>4 DEF TypeInv, TypeOK
<1>6. CallsOK'
  BY <1>2, <1>4 DEF TypeInv, CallsOK, HoldingSteps
<1> QED BY <1>5, <1>6 DEF TypeInv

LEMMA OutsideTypeInv ==
    ASSUME TypeInv,
           \/ \E token \in Revocable : Revoke(token)
           \/ \E credential \in Perishable : Expire(credential)
           \/ UNCHANGED vars
    PROVE  TypeInv'
BY DEF TypeInv, TypeOK, CallsOK, Revoke, Expire, locals, authority, vars,
       proposal, approvals, id

LEMMA NextTypeInv == TypeInv /\ [Next]_vars => TypeInv'
<1> SUFFICES ASSUME TypeInv, [Next]_vars PROVE TypeInv'
  OBVIOUS
<1>1. ASSUME NEW t \in Threads, Step(t) PROVE TypeInv'
  BY <1>1, ReadingTypeInv, ReserveTypeInv, JournalTypeInv, ConsumeTypeInv, OutcomeTypeInv
     DEF Step
<1>2. ASSUME NEW t \in Threads, Raise(t) PROVE TypeInv'
  BY <1>2, RaiseTypeInv
<1> QED
  BY <1>1, <1>2, SubmitTypeInv, CrashTypeInv, OutsideTypeInv DEF Next

(* In every behaviour the variables keep their shapes and a loop over the  *)
(* approvals stays inside them, for any number of threads and requests.    *)
THEOREM TypeCorrect == Spec => []TypeOK
<1>1. Spec => []TypeInv
  BY InitTypeInv, NextTypeInv, PTL DEF Spec
<1>2. TypeInv => TypeOK
  BY DEF TypeInv
<1> QED BY <1>1, <1>2, PTL

----------------------------------------------------------------------------
(* Who owns a reservation *)

Holds(t)    == UseLedger /\ pc[t] \in HoldingSteps
Reserved(i) == ledger[i] # NoRow /\ ledger[i].state = "reserved"

(* InDoubtOnlyAfterFailure, thread by thread. *)
OwnersOK ==
    /\ \A t \in Threads : Holds(t) =>
          /\ Reserved(id(t)) /\ ledger[id(t)].proposal_digest = proposal(t)
          /\ id(t) \notin interrupted
    /\ \A t, u \in Threads : Holds(t) /\ Holds(u) /\ id(t) = id(u) => t = u
    /\ \A i \in ProposalIds : Reserved(i) =>
          i \in interrupted \/ \E t \in Threads : Holds(t) /\ id(t) = i
    /\ \A i \in interrupted : Reserved(i)

LEMMA OwnersSuffice == OwnersOK => InDoubtOnlyAfterFailure
<1> SUFFICES ASSUME OwnersOK, NEW i \in ProposalIds
             PROVE  /\ \A t \in Holders(i) : /\ Reserved(i)
                                             /\ ledger[i].proposal_digest = proposal(t)
                                             /\ i \notin interrupted
                    /\ \A t, u \in Holders(i) : t = u
                    /\ Reserved(i) => i \in interrupted \/ Holders(i) # {}
                    /\ i \in interrupted => Reserved(i)
  BY DEF InDoubtOnlyAfterFailure, Reserved
<1>1. \A t : t \in Holders(i) <=> t \in Threads /\ Holds(t) /\ id(t) = i
  BY DEF Holders, Holds
<1> QED BY <1>1 DEF OwnersOK

(* A step that moves no call into or out of the holding steps and touches  *)
(* no row leaves ownership alone.                                          *)
LEMMA OwnersFrame ==
    ASSUME OwnersOK,
           UNCHANGED <<ledger, interrupted>>,
           \A u \in Threads : /\ pc'[u] \in HoldingSteps <=> pc[u] \in HoldingSteps
                              /\ pc[u] \in HoldingSteps => call'[u] = call[u]
    PROVE  OwnersOK'
BY DEF OwnersOK, Holds, Reserved, id, proposal

(* All steps but Reserve, Complete, Raise and Crash are of that kind.      *)
LEMMA QuietSteps ==
    ASSUME TypeInv, NEW t \in Threads,
           \/ Identify(t) \/ Decide(t) \/ Authorize(t) \/ CheckBudget(t)
           \/ CheckQuorum(t) \/ ValidateApproval(t) \/ ReportReplay(t)
           \/ Journal(t) \/ ConsumeApproval(t) \/ RunTool(t) \/ Verify(t) \/ Return(t)
           \/ \E r \in Requests : Submit(t, r)
    PROVE  /\ UNCHANGED <<ledger, interrupted>>
           /\ \A u \in Threads : /\ pc'[u] \in HoldingSteps <=> pc[u] \in HoldingSteps
                                 /\ pc[u] \in HoldingSteps => call'[u] = call[u]
<1>1. CASE Identify(t) \/ Decide(t) \/ Authorize(t) \/ CheckBudget(t) \/ CheckQuorum(t)
  BY <1>1 DEF Identify, Decide, Authorize, CheckBudget, CheckQuorum, Reading, authority,
              Reply, Goto, HoldingSteps, TypeInv, TypeOK
<1>2. CASE ValidateApproval(t) \/ ReportReplay(t) \/ Verify(t)
  BY <1>2 DEF ValidateApproval, ReportReplay, Verify, Reading, authority, Reply, Goto,
              HoldingSteps, TypeInv, TypeOK
<1>3. CASE Journal(t)
  BY <1>3 DEF Journal, AfterReservation, AfterOutcome, authority, Goto, HoldingSteps,
              TypeInv, TypeOK
<1>4. CASE ConsumeApproval(t) \/ RunTool(t)
  BY <1>4 DEF ConsumeApproval, RunTool, authority, Goto, HoldingSteps, TypeInv, TypeOK
<1>5. CASE Return(t) \/ \E r \in Requests : Submit(t, r)
  BY <1>5 DEF Return, Submit, authority, Goto, HoldingSteps, TypeInv, TypeOK
<1> QED BY <1>1, <1>2, <1>3, <1>4, <1>5

(* A new reservation is free of older holders.                             *)
LEMMA ReserveOwner ==
    ASSUME TypeInv, OwnersOK, NEW t \in Threads, Reserve(t)
    PROVE  OwnersOK'
<1>1. /\ pc[t] = "reserve" /\ UNCHANGED <<call, interrupted>>
      /\ id(t) \in ProposalIds /\ proposal(t) \in Proposals
  BY CallTypes DEF Reserve, TypeInv
<1>2. CASE UseLedger /\ CanReserve(proposal(t))
  <2> DEFINE row == [proposal_digest |-> proposal(t), state |-> "reserved",
                     terminal_status |-> "none"]
  <2>1. /\ ledger[id(t)] = NoRow
        /\ ledger' = [ledger EXCEPT ![id(t)] = row]
        /\ pc' = [pc EXCEPT ![t] = "log_reserved"]
    BY <1>1, <1>2 DEF Reserve, CanReserve, Goto, id
  <2>2. row \in Rows /\ row # NoRow
    BY <1>1, ValuesAssumption DEF Rows
  <2>3. \A i \in ProposalIds : ledger'[i] = IF i = id(t) THEN row ELSE ledger[i]
    BY <1>1, <2>1 DEF TypeInv, TypeOK
  <2>4. \A u \in Threads : /\ id(u)' = id(u) /\ proposal(u)' = proposal(u)
                           /\ pc[u] \in HoldingSteps => id(u) \in ProposalIds
    BY <1>1, CallTypes DEF id, proposal, TypeInv, HoldingSteps
  <2>5. \A u \in Threads : Holds(u)' <=> u = t \/ Holds(u)
    BY <1>1, <1>2, <2>1 DEF Holds, HoldingSteps, TypeInv, TypeOK
  <2>6. \A i \in ProposalIds : Reserved(i)' <=> i = id(t) \/ Reserved(i)
    BY <2>2, <2>3 DEF Reserved
  <2>7. id(t) \notin interrupted /\ \A u \in Threads : Holds(u) => id(u) # id(t)
    BY <2>1 DEF OwnersOK, Reserved
  <2>8. ASSUME NEW u \in Threads, Holds(u)'
        PROVE  /\ Reserved(id(u))'
               /\ ledger'[id(u)'].proposal_digest = proposal(u)'
               /\ id(u) \notin interrupted
    <3>1. CASE u = t
      BY <1>1, <2>3, <2>4, <2>6, <2>7, <3>1
    <3>2. CASE u # t
      <4>1. Holds(u) /\ id(u) \in ProposalIds /\ id(u) # id(t)
        BY <2>4, <2>5, <2>7, <2>8, <3>2 DEF Holds
      <4>2. ledger'[id(u)] = ledger[id(u)]
        BY <2>3, <4>1
      <4> QED BY <2>4, <2>6, <4>1, <4>2 DEF OwnersOK
    <3> QED BY <3>1, <3>2
  <2>9. \A u, v \in Threads : Holds(u)' /\ Holds(v)' /\ id(u)' = id(v)' => u = v
    BY <2>4, <2>5, <2>7 DEF OwnersOK
  <2>10. \A i \in ProposalIds : Reserved(i)' =>
            i \in interrupted \/ \E u \in Threads : Holds(u)' /\ id(u)' = i
    BY <2>4, <2>5, <2>6 DEF OwnersOK
  <2>11. \A i \in interrupted : Reserved(i)'
    BY <2>6 DEF OwnersOK, TypeInv, TypeOK
  <2>12. \A u \in Threads : Holds(u)' =>
            /\ Reserved(id(u))'
            /\ ledger'[id(u)'].proposal_digest = proposal(u)'
            /\ id(u)' \notin interrupted'
    BY <1>1, <2>4, <2>8
  <2> QED
    BY <1>1, <2>9, <2>10, <2>11, <2>12 DEF OwnersOK
<1>3. CASE ~UseLedger
  BY <1>1, <1>3 DEF Reserve, OwnersOK, Holds, Reserved
<1>4. CASE UseLedger /\ ~CanReserve(proposal(t))
  <2>1. UNCHANGED ledger /\ pc' = [pc EXCEPT ![t] = "report"]
    BY <1>4 DEF Reserve, Goto
  <2> QED BY <1>1, <2>1, OwnersFrame DEF HoldingSteps, TypeInv, TypeOK
<1> QED BY <1>2, <1>3, <1>4

(* The row that _mark_terminal closes is the caller's own.                 *)
LEMMA CompleteOwner ==
    ASSUME TypeInv, OwnersOK, NEW t \in Threads, Complete(t)
    PROVE  OwnersOK'
<1>1. /\ pc[t] = "complete" /\ pc' = [pc EXCEPT ![t] = "reply"]
      /\ UNCHANGED <<call, interrupted>> /\ id(t) \in ProposalIds
  BY CallTypes DEF Complete, Goto, TypeInv
<1>2. CASE UseLedger
  <2>1. Holds(t) /\ ledger[id(t)] \in Rows
    BY <1>1, <1>2 DEF Holds, HoldingSteps, TypeInv, CallsOK
  <2>2. \A i \in ProposalIds \ {id(t)} : ledger'[i] = ledger[i]
    BY <1>1, <1>2 DEF Complete, TypeInv, TypeOK
  <2>3. ledger'[id(t)].state = "terminal"
    <3>1. ledger'[id(t)] = [ledger[id(t)] EXCEPT !.state = "terminal",
                                                 !.terminal_status = outcome[t]]
      BY <1>1, <1>2 DEF Complete, TypeInv, TypeOK
    <3> QED BY <2>1, <3>1 DEF Rows
  <2>4. \A u \in Threads : /\ id(u)' = id(u) /\ proposal(u)' = proposal(u)
                           /\ pc[u] \in HoldingSteps => id(u) \in ProposalIds
    BY <1>1, CallTypes DEF id, proposal, TypeInv, HoldingSteps
  <2>5. \A u \in Threads : Holds(u)' <=> u # t /\ Holds(u)
    BY <1>1 DEF Holds, HoldingSteps, TypeInv, TypeOK
  <2>6. \A i \in ProposalIds : Reserved(i)' <=> i # id(t) /\ Reserved(i)
    BY <2>2, <2>3 DEF Reserved
  <2>7. \A u \in Threads : Holds(u)' => id(u) # id(t) /\ id(u) \in ProposalIds
    BY <2>1, <2>4, <2>5 DEF OwnersOK, Holds
  <2>8. \A u \in Threads : Holds(u)' =>
           /\ Reserved(id(u))'
           /\ ledger'[id(u)'].proposal_digest = proposal(u)'
           /\ id(u)' \notin interrupted'
    <3>1. \A u \in Threads : Holds(u)' => /\ ledger'[id(u)'] = ledger[id(u)]
                                          /\ Reserved(id(u))' <=> Reserved(id(u))
      BY <2>2, <2>4, <2>6, <2>7 DEF Reserved
    <3> QED BY <1>1, <2>4, <2>5, <3>1 DEF OwnersOK
  <2>9. \A u, v \in Threads : Holds(u)' /\ Holds(v)' /\ id(u)' = id(v)' => u = v
    BY <2>4, <2>5 DEF OwnersOK
  <2>10. \A i \in ProposalIds : Reserved(i)' =>
            i \in interrupted \/ \E u \in Threads : Holds(u)' /\ id(u)' = i
    BY <2>4, <2>5, <2>6 DEF OwnersOK
  <2>11. \A i \in interrupted : Reserved(i)'
    BY <2>1, <2>6 DEF OwnersOK, TypeInv, TypeOK
  <2> QED
    BY <1>1, <2>8, <2>9, <2>10, <2>11 DEF OwnersOK
<1>3. CASE ~UseLedger
  BY <1>1, <1>3 DEF Complete, OwnersOK, Holds, Reserved
<1> QED BY <1>2, <1>3

(* Calls that end in a failure hand their reservations over as in doubt.   *)
LEMMA FailureOwner ==
    ASSUME TypeInv, OwnersOK, NEW S \in SUBSET Threads,
           UNCHANGED ledger,
           interrupted' = interrupted \cup Held(S),
           \A u \in S : pc'[u] \notin HoldingSteps,
           \A u \in Threads \ S : pc'[u] = pc[u] /\ call'[u] = call[u]
    PROVE  OwnersOK'
<1>1. \A u \in Threads : Holds(u)' <=> u \notin S /\ Holds(u)
  BY DEF Holds
<1>2. \A u \in Threads : Holds(u)' => id(u)' = id(u) /\ proposal(u)' = proposal(u)
  BY <1>1 DEF id, proposal
<1>3. \A i : i \in Held(S) <=> \E u \in S : Holds(u) /\ id(u) = i
  BY DEF Held, Holds
<1>4. \A i : Reserved(i)' <=> Reserved(i)
  BY DEF Reserved
<1>5. \A u \in Threads : Holds(u)' =>
         /\ Reserved(id(u))'
         /\ ledger'[id(u)'].proposal_digest = proposal(u)'
         /\ id(u)' \notin interrupted'
  <2>1. \A u \in Threads : Holds(u)' => Reserved(id(u))' <=> Reserved(id(u))
    BY <1>2 DEF Reserved
  <2>2. \A u \in Threads : Holds(u)' => id(u) \notin Held(S)
    BY <1>1, <1>3 DEF OwnersOK
  <2> QED BY <1>1, <1>2, <2>1, <2>2 DEF OwnersOK
<1>6. \A u, v \in Threads : Holds(u)' /\ Holds(v)' /\ id(u)' = id(v)' => u = v
  BY <1>1, <1>2 DEF OwnersOK
<1>7. \A i \in ProposalIds : Reserved(i)' =>
         i \in interrupted' \/ \E u \in Threads : Holds(u)' /\ id(u)' = i
  BY <1>1, <1>2, <1>3, <1>4 DEF OwnersOK
<1>8. \A i \in interrupted' : Reserved(i)'
  BY <1>3, <1>4 DEF OwnersOK
<1> QED BY <1>5, <1>6, <1>7, <1>8 DEF OwnersOK

LEMMA NextOwner == TypeInv /\ OwnersOK /\ [Next]_vars => OwnersOK'
<1> SUFFICES ASSUME TypeInv, OwnersOK, [Next]_vars
             PROVE  OwnersOK'
  OBVIOUS
<1>1. ASSUME NEW t \in Threads, Step(t) PROVE OwnersOK'
  BY <1>1, QuietSteps, OwnersFrame, ReserveOwner, CompleteOwner DEF Step
<1>2. ASSUME NEW t \in Threads, NEW r \in Requests, Submit(t, r) PROVE OwnersOK'
  BY <1>2, QuietSteps, OwnersFrame
<1>3. ASSUME NEW t \in Threads, Raise(t) PROVE OwnersOK'
  <2>1. /\ UNCHANGED <<ledger, call>> /\ interrupted' = interrupted \cup Held({t})
        /\ pc' = [pc EXCEPT ![t] = "reply"]
    BY <1>3 DEF Raise, Reply, Goto, authority
  <2>2. /\ \A u \in {t} : pc'[u] \notin HoldingSteps
        /\ \A u \in Threads \ {t} : pc'[u] = pc[u] /\ call'[u] = call[u]
    BY <2>1 DEF TypeInv, TypeOK, HoldingSteps
  <2> QED BY <2>1, <2>2, FailureOwner
<1>4. ASSUME NEW S \in SUBSET Threads, Crash(S) PROVE OwnersOK'
  <2>1. /\ UNCHANGED ledger /\ interrupted' = interrupted \cup Held(S)
        /\ \A u \in S : pc'[u] \notin HoldingSteps
        /\ \A u \in Threads \ S : pc'[u] = pc[u] /\ call'[u] = call[u]
    BY <1>4 DEF Crash, authority, HoldingSteps
  <2> QED BY <2>1, FailureOwner
<1>5. CASE \/ \E token \in Revocable : Revoke(token)
           \/ \E credential \in Perishable : Expire(credential)
           \/ UNCHANGED vars
  BY <1>5, OwnersFrame DEF Revoke, Expire, locals, authority, vars
<1> QED BY <1>1, <1>2, <1>3, <1>4, <1>5 DEF Next

(* Every reserved row is held by exactly one live call or was left by one  *)
(* that failed, for any number of threads, crashes and retries.            *)
THEOREM InDoubtIsHonest == Spec => []InDoubtOnlyAfterFailure
<1>1. Init => OwnersOK
  BY DEF Init, OwnersOK, Holds, Reserved, HoldingSteps
<1>2. Spec => []OwnersOK
  BY <1>1, InitTypeInv, NextTypeInv, NextOwner, PTL DEF Spec
<1> QED BY <1>2, OwnersSuffice, PTL

----------------------------------------------------------------------------
(* At most one effect, when the ledger is on *)

BeforeTool == {"log_reserved", "consume", "log_accepted", "log_charged", "tool"}
WithEffect == {"completed", "verification_failed"}

(* Where a holder stands says whether its tool took effect. *)
Stage(t) ==
    /\ pc[t] \in BeforeTool => effects[proposal(t)] = 0
    /\ pc[t] = "verify"     => effects[proposal(t)] = 1
    /\ pc[t] \in {"log_outcome", "complete"} =>
          (outcome[t] \in WithEffect <=> effects[proposal(t)] = 1)

(* An effect leaves the row of its own proposal behind. *)
EffectsOK ==
    /\ \A p \in Proposals : effects[p] \in {0, 1} /\ (effects[p] = 1 => Recorded(p))
    /\ \A t \in Threads : Holds(t) => Stage(t)

(* Steps that take no effect and keep every row of the ledger.             *)
LEMMA EffectsFrame ==
    ASSUME EffectsOK, UNCHANGED effects,
           \A p \in Proposals : Recorded(p) => Recorded(p)',
           \A u \in Threads : Holds(u)' =>
              \/ Stage(u)'
              \/ /\ pc'[u] = pc[u] /\ call'[u] = call[u]
                 /\ outcome'[u] = outcome[u]
    PROVE  EffectsOK'
<1>1. \A p \in Proposals : effects'[p] \in {0, 1} /\ (effects'[p] = 1 => Recorded(p)')
  BY DEF EffectsOK
<1>2. ASSUME NEW u \in Threads, Holds(u)', pc'[u] = pc[u], call'[u] = call[u],
             outcome'[u] = outcome[u]
      PROVE  Stage(u)'
  BY <1>2 DEF EffectsOK, Holds, Stage, proposal
<1> QED BY <1>1, <1>2 DEF EffectsOK

(* Nothing a call does before it holds the reservation, or after it let it *)
(* go, is about effects.                                                   *)
LEMMA OutsideEffects ==
    ASSUME TypeInv, EffectsOK, NEW t \in Threads,
           \/ Identify(t) \/ Decide(t) \/ Authorize(t) \/ CheckBudget(t)
           \/ CheckQuorum(t) \/ ValidateApproval(t) \/ ReportReplay(t)
           \/ Return(t) \/ Raise(t) \/ \E r \in Requests : Submit(t, r)
    PROVE  EffectsOK'
<1>1. /\ UNCHANGED <<ledger, effects>> /\ pc'[t] \notin HoldingSteps
      /\ \A u \in Threads \ {t} : /\ pc'[u] = pc[u] /\ call'[u] = call[u]
                                  /\ outcome'[u] = outcome[u]
  <2>1. CASE Identify(t) \/ Decide(t) \/ Authorize(t) \/ CheckBudget(t) \/ CheckQuorum(t)
    BY <2>1 DEF Identify, Decide, Authorize, CheckBudget, CheckQuorum, Reading, authority,
                Reply, Goto, HoldingSteps, TypeInv, TypeOK
  <2>2. CASE ValidateApproval(t) \/ ReportReplay(t) \/ Raise(t)
    BY <2>2 DEF ValidateApproval, ReportReplay, Raise, Reading, authority, Reply, Goto,
                HoldingSteps, TypeInv, TypeOK
  <2>3. CASE Return(t) \/ \E r \in Requests : Submit(t, r)
    BY <2>3 DEF Return, Submit, authority, Goto, HoldingSteps, TypeInv, TypeOK
  <2> QED BY <2>1, <2>2, <2>3
<1>2. \A p \in Proposals : Recorded(p) => Recorded(p)'
  BY <1>1 DEF Recorded, Row
<1> QED BY <1>1, <1>2, EffectsFrame DEF Holds

(* The reservation goes to a proposal that has had no effect.              *)
LEMMA ReserveEffects ==
    ASSUME UseLedger, TypeInv, EffectsOK, NEW t \in Threads, Reserve(t)
    PROVE  EffectsOK'
<1>1. /\ pc[t] = "reserve" /\ UNCHANGED <<call, outcome, effects>>
      /\ id(t) \in ProposalIds /\ proposal(t) \in Proposals
  BY CallTypes DEF Reserve, TypeInv
<1>2. CASE CanReserve(proposal(t))
  <2>1. /\ ledger[id(t)] = NoRow /\ pc' = [pc EXCEPT ![t] = "log_reserved"]
        /\ \A i \in ProposalIds \ {id(t)} : ledger'[i] = ledger[i]
    BY <1>1, <1>2 DEF Reserve, CanReserve, Goto, id, TypeInv, TypeOK
  <2>2. \A p \in Proposals : Recorded(p) => Recorded(p)'
    BY <2>1, ProposalsAssumption DEF Recorded, Row
  <2>3. effects[proposal(t)] = 0
    BY <1>1, <2>1 DEF EffectsOK, Recorded, Row, id
  <2>4. Stage(t)'
    BY <1>1, <2>1, <2>3 DEF Stage, BeforeTool, proposal, TypeInv, TypeOK
  <2>5. \A u \in Threads \ {t} : pc'[u] = pc[u]
    BY <2>1 DEF TypeInv, TypeOK
  <2> QED BY <1>1, <2>2, <2>4, <2>5, EffectsFrame
<1>3. CASE ~CanReserve(proposal(t))
  <2>1. UNCHANGED ledger /\ pc' = [pc EXCEPT ![t] = "report"]
    BY <1>3 DEF Reserve, Goto
  <2>2. \A p \in Proposals : Recorded(p) => Recorded(p)'
    BY <2>1 DEF Recorded, Row
  <2>3. \A u \in Threads : Holds(u)' => pc'[u] = pc[u]
    BY <2>1 DEF Holds, HoldingSteps, TypeInv, TypeOK
  <2> QED BY <1>1, <2>2, <2>3, EffectsFrame
<1> QED BY <1>2, <1>3

(* A holder that logs, consumes or verifies keeps its stage.               *)
LEMMA HolderEffects ==
    ASSUME UseLedger, TypeInv, EffectsOK, NEW t \in Threads,
           Journal(t) \/ ConsumeApproval(t) \/ Verify(t)
    PROVE  EffectsOK'
<1>1. /\ UNCHANGED <<ledger, effects, call>> /\ Holds(t)
      /\ \A u \in Threads \ {t} : pc'[u] = pc[u] /\ outcome'[u] = outcome[u]
  <2>1. CASE Journal(t)
    BY <2>1 DEF Journal, authority, Goto, Holds, HoldingSteps, TypeInv, TypeOK
  <2>2. CASE ConsumeApproval(t)
    BY <2>2 DEF ConsumeApproval, authority, Goto, Holds, HoldingSteps, TypeInv, TypeOK
  <2>3. CASE Verify(t)
    BY <2>3 DEF Verify, Reading, authority, Goto, Holds, HoldingSteps, TypeInv, TypeOK
  <2> QED BY <2>1, <2>2, <2>3
<1>2. Stage(t) /\ proposal(t)' = proposal(t)
  BY <1>1 DEF EffectsOK, proposal
<1>3. Stage(t)'
  <2>1. CASE Journal(t)
    BY <1>1, <1>2, <2>1
       DEF Journal, AfterReservation, AfterOutcome, Goto, Stage, BeforeTool, TypeInv, TypeOK
  <2>2. CASE ConsumeApproval(t)
    BY <1>1, <1>2, <2>2
       DEF ConsumeApproval, Goto, Stage, BeforeTool, WithEffect, TypeInv, TypeOK
  <2>3. CASE Verify(t)
    BY <1>1, <1>2, <2>3
       DEF Verify, Goto, Stage, BeforeTool, WithEffect, TypeInv, TypeOK
  <2> QED BY <2>1, <2>2, <2>3
<1>4. \A p \in Proposals : Recorded(p) => Recorded(p)'
  BY <1>1 DEF Recorded, Row
<1> QED BY <1>1, <1>3, <1>4, EffectsFrame

(* A holder stands before a row of its own proposal. *)
LEMMA HolderRecorded ==
    ASSUME TypeInv, OwnersOK, NEW t \in Threads, Holds(t)
    PROVE  /\ proposal(t) \in Proposals /\ id(t) \in ProposalIds
           /\ Recorded(proposal(t)) /\ Reserved(id(t))
           /\ \A u \in Threads : Holds(u) /\ proposal(u) = proposal(t) => u = t
<1>1. /\ proposal(t) \in Proposals /\ id(t) \in ProposalIds
  BY CallTypes DEF TypeInv, Holds, HoldingSteps
<1>2. Recorded(proposal(t)) /\ Reserved(id(t))
  BY DEF OwnersOK, Reserved, Recorded, Row, id
<1>3. \A u \in Threads : Holds(u) /\ proposal(u) = proposal(t) => u = t
  BY DEF OwnersOK, id
<1> QED BY <1>1, <1>2, <1>3

(* The tool acts for the one holder, before which there was no effect.     *)
LEMMA ToolEffects ==
    ASSUME UseLedger, TypeInv, OwnersOK, EffectsOK, NEW t \in Threads, RunTool(t)
    PROVE  EffectsOK'
<1> DEFINE p == proposal(t)
<1>1. /\ pc[t] = "tool" /\ UNCHANGED <<ledger, call>> /\ Holds(t)
      /\ \A u \in Threads \ {t} : pc'[u] = pc[u] /\ outcome'[u] = outcome[u]
  BY DEF RunTool, authority, Goto, Holds, HoldingSteps, TypeInv, TypeOK
<1>2. /\ p \in Proposals /\ Recorded(p) /\ effects[p] = 0
      /\ \A u \in Threads \ {t} : Holds(u) => proposal(u) # p
  BY <1>1, HolderRecorded DEF EffectsOK, Stage, BeforeTool
<1>3. \A q \in Proposals : Recorded(q)' <=> Recorded(q)
  BY <1>1 DEF Recorded, Row
<1>4. CASE /\ effects' = [effects EXCEPT ![p] = @ + 1]
           /\ pc' = [pc EXCEPT ![t] = "verify"]
  <2>1. /\ effects'[p] = 1
        /\ \A q \in Proposals \ {p} : effects'[q] = effects[q]
    BY <1>2, <1>4 DEF TypeInv, TypeOK
  <2>2. \A q \in Proposals : effects'[q] \in {0, 1} /\ (effects'[q] = 1 => Recorded(q)')
    BY <1>2, <1>3, <2>1 DEF EffectsOK
  <2>3. Stage(t)'
    BY <1>1, <1>4, <2>1 DEF Stage, BeforeTool, proposal, TypeInv, TypeOK
  <2>4. ASSUME NEW u \in Threads \ {t}, Holds(u)' PROVE Stage(u)'
    <3>1. Holds(u) /\ Stage(u)
      BY <1>1, <2>4 DEF Holds, EffectsOK
    <3>2. proposal(u) \in Proposals \ {p} /\ proposal(u)' = proposal(u)
      BY <1>1, <1>2, <3>1, HolderRecorded DEF proposal
    <3>3. effects'[proposal(u)] = effects[proposal(u)]
      BY <2>1, <3>2
    <3> QED BY <1>1, <3>1, <3>2, <3>3 DEF Stage
  <2> QED BY <2>2, <2>3, <2>4 DEF EffectsOK
<1>5. CASE /\ outcome' = [outcome EXCEPT ![t] = "failed"] /\ UNCHANGED effects
           /\ pc' = [pc EXCEPT ![t] = "log_outcome"]
  <2>1. Stage(t)'
    BY <1>1, <1>2, <1>5 DEF Stage, BeforeTool, WithEffect, proposal, TypeInv, TypeOK
  <2> QED BY <1>1, <1>3, <1>5, <2>1, EffectsFrame
<1> QED BY <1>4, <1>5 DEF RunTool, Goto

(* _mark_terminal keeps the digest of the row. *)
LEMMA CompleteKeepsRows ==
    ASSUME UseLedger, TypeInv, OwnersOK, NEW t \in Threads, Complete(t)
    PROVE  /\ Holds(t) /\ ledger'[id(t)] \in Rows
           /\ ledger'[id(t)].proposal_digest = ledger[id(t)].proposal_digest
           /\ ledger'[id(t)].state = "terminal"
           /\ ledger'[id(t)].terminal_status = outcome[t]
           /\ \A i \in ProposalIds \ {id(t)} : ledger'[i] = ledger[i]
           /\ \A p \in Proposals : Recorded(p)' <=> Recorded(p)
<1>1. Holds(t) /\ pc[t] = "complete" /\ outcome[t] \in Terminal
  BY DEF Complete, Holds, HoldingSteps, TypeInv, CallsOK
<1>2. id(t) \in ProposalIds /\ ledger[id(t)] \in Rows
  BY <1>1, HolderRecorded DEF TypeInv, CallsOK, Holds
<1>3. /\ ledger'[id(t)] = [ledger[id(t)] EXCEPT !.state = "terminal",
                                                !.terminal_status = outcome[t]]
      /\ \A i \in ProposalIds \ {id(t)} : ledger'[i] = ledger[i]
  BY <1>2 DEF Complete, TypeInv, TypeOK
<1>4. /\ ledger'[id(t)] \in Rows
      /\ ledger'[id(t)].proposal_digest = ledger[id(t)].proposal_digest
      /\ ledger'[id(t)].state = "terminal"
      /\ ledger'[id(t)].terminal_status = outcome[t]
  BY <1>1, <1>2, <1>3 DEF Rows
<1>5. \A p \in Proposals : Recorded(p)' <=> Recorded(p)
  BY <1>2, <1>3, <1>4, ProposalsAssumption, ValuesAssumption DEF Recorded, Row
<1> QED BY <1>1, <1>3, <1>4, <1>5

LEMMA NextEffects ==
    ASSUME UseLedger
    PROVE  TypeInv /\ OwnersOK /\ EffectsOK /\ [Next]_vars => EffectsOK'
<1> SUFFICES ASSUME TypeInv, OwnersOK, EffectsOK, [Next]_vars
             PROVE  EffectsOK'
  OBVIOUS
<1>1. ASSUME NEW t \in Threads, Complete(t) PROVE EffectsOK'
  <2>1. \A u \in Threads : Holds(u)' => pc'[u] = pc[u]
    BY <1>1 DEF Complete, Goto, Holds, HoldingSteps, TypeInv, TypeOK
  <2> QED BY <1>1, <2>1, CompleteKeepsRows, EffectsFrame DEF Complete
<1>2. ASSUME NEW t \in Threads, Step(t) PROVE EffectsOK'
  BY <1>1, <1>2, OutsideEffects, ReserveEffects, HolderEffects, ToolEffects DEF Step
<1>3. ASSUME NEW S \in SUBSET Threads, Crash(S) PROVE EffectsOK'
  <2>1. \A u \in Threads : Holds(u)' => /\ pc'[u] = pc[u] /\ call'[u] = call[u]
                                        /\ outcome'[u] = outcome[u]
    BY <1>3 DEF Crash, Holds, HoldingSteps
  <2>2. \A p \in Proposals : Recorded(p) => Recorded(p)'
    BY <1>3 DEF Crash, authority, Recorded, Row
  <2> QED BY <1>3, <2>1, <2>2, EffectsFrame DEF Crash
<1>4. CASE \/ \E token \in Revocable : Revoke(token)
           \/ \E credential \in Perishable : Expire(credential)
           \/ UNCHANGED vars
  <2>1. UNCHANGED <<pc, call, outcome, ledger, effects>>
    BY <1>4 DEF Revoke, Expire, locals, authority, vars
  <2>2. \A p \in Proposals : Recorded(p) => Recorded(p)'
    BY <2>1 DEF Recorded, Row
  <2> QED BY <2>1, <2>2, EffectsFrame
<1>5. ASSUME NEW t \in Threads, Raise(t) \/ \E r \in Requests : Submit(t, r)
      PROVE  EffectsOK'
  BY <1>5, OutsideEffects
<1> QED BY <1>2, <1>3, <1>4, <1>5 DEF Next

LEMMA EffectsInvariant ==
    ASSUME UseLedger
    PROVE  Spec => [](TypeInv /\ OwnersOK /\ EffectsOK)
<1>1. Init => OwnersOK /\ EffectsOK
  BY DEF Init, OwnersOK, EffectsOK, Holds, Reserved, HoldingSteps
<1> QED BY <1>1, InitTypeInv, NextTypeInv, NextOwner, NextEffects, PTL DEF Spec

(* With the ledger on, a proposal_id has at most one effect, whatever      *)
(* proposals carry it, however often it is retried and whatever dies.      *)
THEOREM EffectOnce ==
    ASSUME UseLedger
    PROVE  Spec => []AtMostOneEffect
<1>1. TypeInv /\ EffectsOK => AtMostOneEffect
  <2> SUFFICES ASSUME TypeInv, EffectsOK, NEW p \in Proposals
               PROVE  /\ effects[p] <= 1
                      /\ \A q \in Contract!Rivals(p) : effects[p] + effects[q] > 1 => p = q
    BY DEF AtMostOneEffect, Contract!AtMostOneEffect
  <2>1. effects[p] \in {0, 1} /\ \A q \in Proposals : effects[q] \in {0, 1}
    BY DEF EffectsOK
  <2>2. ASSUME NEW q \in Contract!Rivals(p), effects[p] + effects[q] > 1
        PROVE  p = q
    <3>1. q \in Proposals /\ Row(q) = Row(p)
      BY DEF Contract!Rivals, Row
    <3>2. effects[p] = 1 /\ effects[q] = 1
      BY <2>1, <2>2, <3>1
    <3> QED BY <3>1, <3>2 DEF EffectsOK, Recorded
  <2> QED BY <2>1, <2>2
<1> QED BY <1>1, EffectsInvariant, PTL

----------------------------------------------------------------------------
(* Refinement of ExecutionContract *)

(* Rows that nobody touches keep the phase of every proposal. *)
LEMMA PhaseFrame ==
    ASSUME UNCHANGED ledger
    PROVE  Phase' = Phase
BY DEF Phase, Recorded, Row

(* The INSERT of the ledger is the contract's Reserve. *)
LEMMA ReserveRefines ==
    ASSUME UseLedger, TypeInv, NEW t \in Threads, Reserve(t), CanReserve(proposal(t))
    PROVE  Contract!Reserve(proposal(t))
<1> DEFINE p == proposal(t)
           row == [proposal_digest |-> p, state |-> "reserved", terminal_status |-> "none"]
<1>1. p \in Proposals /\ id(t) \in ProposalIds /\ id(t) = p.proposal_id
  BY CallTypes DEF Reserve, TypeInv, id
<1>2. /\ ledger[id(t)] = NoRow /\ UNCHANGED effects
      /\ ledger' = [ledger EXCEPT ![id(t)] = row]
  BY <1>1 DEF Reserve, CanReserve
<1>3. row \in Rows /\ row # NoRow
  BY <1>1, ValuesAssumption DEF Rows
<1>4. \A i \in ProposalIds : ledger'[i] = IF i = id(t) THEN row ELSE ledger[i]
  BY <1>1, <1>2 DEF TypeInv, TypeOK
<1>5. \A q \in Contract!Rivals(p) : Phase[q] = "none"
  BY <1>1, <1>2 DEF Contract!Rivals, Phase, Recorded, Row
<1>6. Phase' = [Phase EXCEPT ![p] = "reserved"]
  <2>1. Phase'[p] = "reserved"
    BY <1>1, <1>3, <1>4 DEF Phase, Recorded, Row
  <2>2. ASSUME NEW q \in Proposals \ {p} PROVE Phase'[q] = Phase[q]
    <3>1. q.proposal_id \in ProposalIds
      BY ProposalsAssumption
    <3>2. CASE q.proposal_id = id(t)
      BY <1>2, <1>4, <3>1, <3>2 DEF Phase, Recorded, Row
    <3>3. CASE q.proposal_id # id(t)
      BY <1>4, <3>1, <3>3 DEF Phase, Recorded, Row
    <3> QED BY <3>2, <3>3
  <2> QED BY <2>1, <2>2 DEF Phase
<1> QED BY <1>2, <1>5, <1>6 DEF Contract!Reserve

(* The tool's effect is the contract's Act. *)
LEMMA ToolRefines ==
    ASSUME UseLedger, TypeInv, OwnersOK, EffectsOK, NEW t \in Threads, RunTool(t)
    PROVE  Contract!Act(proposal(t)) \/ UNCHANGED <<Phase, effects>>
<1>1. UNCHANGED ledger /\ Holds(t) /\ pc[t] = "tool"
  BY DEF RunTool, authority, Holds, HoldingSteps
<1>2. Phase' = Phase
  BY <1>1, PhaseFrame
<1>3. effects[proposal(t)] = 0
  BY <1>1 DEF EffectsOK, Stage, BeforeTool
<1>4. Phase[proposal(t)] = "reserved"
  <2>1. ledger[id(t)].state = "reserved" /\ Row(proposal(t)) = ledger[id(t)]
    BY <1>1, HolderRecorded DEF Reserved, Row, id
  <2> QED BY <1>1, <2>1, HolderRecorded DEF Phase
<1>5. CASE effects' = [effects EXCEPT ![proposal(t)] = @ + 1]
  BY <1>2, <1>3, <1>4, <1>5 DEF Contract!Act
<1> QED BY <1>2, <1>5 DEF RunTool

(* _mark_terminal is the contract's Settle, and the status it writes tells *)
(* whether the tool acted.                                                 *)
LEMMA CompleteRefines ==
    ASSUME UseLedger, TypeInv, OwnersOK, EffectsOK, NEW t \in Threads, Complete(t)
    PROVE  \E status \in Contract!Settled : Contract!Settle(proposal(t), status)
<1> DEFINE p == proposal(t)
<1>1. /\ pc[t] = "complete" /\ outcome[t] \in Terminal /\ UNCHANGED effects
  BY DEF Complete, TypeInv, CallsOK
<1>2. /\ Holds(t)
      /\ ledger'[id(t)].state = "terminal" /\ ledger'[id(t)].terminal_status = outcome[t]
      /\ \A i \in ProposalIds \ {id(t)} : ledger'[i] = ledger[i]
      /\ \A q \in Proposals : Recorded(q)' <=> Recorded(q)
  BY CompleteKeepsRows
<1>3. p \in Proposals /\ id(t) = p.proposal_id /\ Recorded(p) /\ Reserved(id(t))
  BY <1>2, HolderRecorded DEF id
<1>4. /\ Phase[p] = "reserved"
      /\ Phase'[p] = outcome[t]
  BY <1>2, <1>3 DEF Phase, Row, Reserved
<1>5. ASSUME NEW q \in Proposals \ {p} PROVE Phase'[q] = Phase[q]
  <2>1. q.proposal_id \in ProposalIds
    BY ProposalsAssumption
  <2>2. CASE q.proposal_id = id(t)
    <3>1. ~Recorded(q)
      BY <1>3, <2>2 DEF Recorded, Row
    <3> QED BY <1>2, <3>1 DEF Phase
  <2>3. CASE q.proposal_id # id(t)
    BY <1>2, <2>1, <2>3 DEF Phase, Row
  <2> QED BY <2>2, <2>3
<1>6. Phase' = [Phase EXCEPT ![p] = outcome[t]]
  BY <1>4, <1>5 DEF Phase
<1>7. /\ outcome[t] \in WithEffect => effects[p] = 1
      /\ outcome[t] \notin WithEffect => effects[p] = 0
  BY <1>1, <1>2, <1>3 DEF EffectsOK, Stage
<1> QED
  BY <1>1, <1>4, <1>6, <1>7
     DEF Contract!Settle, Contract!Settled, Contract!WithEffect, Contract!WithoutEffect,
         WithEffect, Terminal

LEMMA NextRefines ==
    ASSUME UseLedger
    PROVE  TypeInv /\ OwnersOK /\ EffectsOK /\ [Next]_vars
              => [Contract!Next]_(Contract!cvars)
<1> SUFFICES ASSUME TypeInv, OwnersOK, EffectsOK, [Next]_vars
             PROVE  Contract!Next \/ UNCHANGED <<Phase, effects>>
  BY DEF Contract!cvars
<1>1. ASSUME NEW t \in Threads, Reserve(t)
      PROVE  Contract!Next \/ UNCHANGED <<Phase, effects>>
  <2>1. CASE CanReserve(proposal(t))
    BY <1>1, <2>1, ReserveRefines, CallTypes DEF Contract!Next, Reserve, TypeInv
  <2>2. CASE ~CanReserve(proposal(t))
    BY <1>1, <2>2, PhaseFrame DEF Reserve
  <2> QED BY <2>1, <2>2
<1>2. ASSUME NEW t \in Threads, RunTool(t)
      PROVE  Contract!Next \/ UNCHANGED <<Phase, effects>>
  BY <1>2, ToolRefines, CallTypes DEF Contract!Next, RunTool, TypeInv
<1>3. ASSUME NEW t \in Threads, Complete(t)
      PROVE  Contract!Next \/ UNCHANGED <<Phase, effects>>
  BY <1>3, CompleteRefines, CallTypes DEF Contract!Next, Complete, TypeInv
<1>4. ASSUME NEW t \in Threads,
             \/ Identify(t) \/ Decide(t) \/ Authorize(t) \/ CheckBudget(t)
             \/ CheckQuorum(t) \/ ValidateApproval(t) \/ ReportReplay(t)
             \/ Journal(t) \/ ConsumeApproval(t) \/ Verify(t) \/ Return(t)
             \/ Raise(t) \/ \E r \in Requests : Submit(t, r)
      PROVE  UNCHANGED <<Phase, effects>>
  <2>1. UNCHANGED <<ledger, effects>>
    BY <1>4 DEF Identify, Decide, Authorize, CheckBudget, CheckQuorum, ValidateApproval,
                ReportReplay, Journal, ConsumeApproval, Verify, Return, Raise, Submit,
                Reading, authority
  <2> QED BY <2>1, PhaseFrame
<1>5. CASE \/ \E S \in SUBSET Threads : Crash(S)
           \/ \E token \in Revocable : Revoke(token)
           \/ \E credential \in Perishable : Expire(credential)
           \/ UNCHANGED vars
  <2>1. UNCHANGED <<ledger, effects>>
    BY <1>5 DEF Crash, Revoke, Expire, authority, vars
  <2> QED BY <2>1, PhaseFrame
<1> QED BY <1>1, <1>2, <1>3, <1>4, <1>5 DEF Next, Step

(* With the ledger on, every behaviour of the gateway is one the contract  *)
(* allows: an id is taken once, by one proposal, for ever; the tool acts   *)
(* once, under the reservation; a recorded outcome is true and final.      *)
THEOREM Refinement ==
    ASSUME UseLedger
    PROVE  Spec => ImplementsContract
<1>1. Init => Contract!Init
  BY ProposalsAssumption DEF Init, Contract!Init, Phase, Recorded, Row
<1> QED
  BY <1>1, EffectsInvariant, NextRefines, PTL
     DEF Spec, ImplementsContract, Contract!Spec

----------------------------------------------------------------------------
(* Dead credentials *)

DeadIdentity(t)   == UseIdentities /\ call[t].identity \in expired
DeadCapability(t) ==
    NeedsCapability(proposal(t)) /\ call[t].capability \in revoked \cup expired
DeadApproval(a)   == a \in expired \/ a.approval_id \in consumed
DeadFrom(t, k)    == \E j \in DOMAIN approvals(t) : j >= k /\ DeadApproval(approvals(t)[j])

(* The credential that was dead on arrival is one that is still unread. *)
Unread(t) ==
    /\ pc[t] = "identify" =>
          DeadIdentity(t) \/ DeadCapability(t) \/ DeadFrom(t, 1)
    /\ pc[t] \in {"decide", "authorize"} => DeadCapability(t) \/ DeadFrom(t, 1)
    /\ pc[t] \in {"budget", "quorum"} => DeadFrom(t, 1)
    /\ pc[t] = "validate" => DeadFrom(t, item[t])
    /\ pc[t] \notin {"reserve", "report"} \cup HoldingSteps

StaleOK == \A t \in Threads : void[t] => Unread(t)

(* What died stays dead: other calls, expiry and revocation only add.      *)
LEMMA DeadStays ==
    ASSUME NEW t \in Threads, Unread(t),
           pc'[t] = pc[t], call'[t] = call[t], item'[t] = item[t],
           consumed \subseteq consumed', revoked \subseteq revoked',
           expired \subseteq expired'
    PROVE  Unread(t)'
<1>1. /\ DeadIdentity(t) => DeadIdentity(t)'
      /\ DeadCapability(t) => DeadCapability(t)'
      /\ approvals(t)' = approvals(t)
  BY DEF DeadIdentity, DeadCapability, approvals, proposal
<1>2. /\ DeadFrom(t, 1) => DeadFrom(t, 1)'
      /\ DeadFrom(t, item[t]) => DeadFrom(t, item[t])'
  BY <1>1 DEF DeadFrom, DeadApproval
<1> QED BY <1>1, <1>2 DEF Unread

(* Each check refuses the credentials it reads, so passing it leaves the   *)
(* dead one to a later check, and the last check leaves none.              *)
LEMMA CheckStale ==
    ASSUME TypeInv, StaleOK, NEW t \in Threads, void[t],
           \/ Identify(t) \/ Decide(t) \/ Authorize(t) \/ CheckBudget(t)
           \/ CheckQuorum(t) \/ ValidateApproval(t)
    PROVE  Unread(t)'
<1>1. Unread(t) /\ UNCHANGED <<call, consumed, revoked, expired>>
  BY DEF StaleOK, Identify, Decide, Authorize, CheckBudget, CheckQuorum,
         ValidateApproval, Reading, authority
<1>2. /\ DeadIdentity(t)' <=> DeadIdentity(t)
      /\ DeadCapability(t)' <=> DeadCapability(t)
      /\ approvals(t)' = approvals(t) /\ proposal(t)' = proposal(t)
  BY <1>1 DEF DeadIdentity, DeadCapability, approvals, proposal
<1>3. DeadFrom(t, 1)' <=> DeadFrom(t, 1)
  BY <1>1, <1>2 DEF DeadFrom, DeadApproval
<1>4. CASE pc' = [pc EXCEPT ![t] = "reply"]
  BY <1>4 DEF Unread, HoldingSteps, TypeInv, TypeOK
<1>5. CASE Identify(t) /\ pc' = [pc EXCEPT ![t] = "decide"]
  <2>1. pc[t] = "identify" /\ pc'[t] = "decide" /\ ~DeadIdentity(t)
    BY <1>5 DEF Identify, Vouches, Reply, Goto, DeadIdentity, TypeInv, TypeOK
  <2> QED BY <1>1, <1>2, <1>3, <2>1 DEF Unread, HoldingSteps
<1>6. CASE Decide(t) /\ pc' = [pc EXCEPT ![t] = "authorize"]
  BY <1>1, <1>2, <1>3, <1>6 DEF Decide, Unread, HoldingSteps, TypeInv, TypeOK
<1>7. CASE Authorize(t) /\ pc' = [pc EXCEPT ![t] = "budget"]
  <2>1. pc[t] = "authorize" /\ pc'[t] = "budget" /\ ~DeadCapability(t)
    BY <1>7 DEF Authorize, Covers, Live, Reply, Goto, DeadCapability, TypeInv, TypeOK
  <2> QED BY <1>1, <1>2, <1>3, <2>1 DEF Unread, HoldingSteps
<1>8. CASE CheckBudget(t) /\ pc' = [pc EXCEPT ![t] = "quorum"]
  BY <1>1, <1>2, <1>3, <1>8 DEF CheckBudget, Unread, HoldingSteps, TypeInv, TypeOK
<1>9. CASE CheckQuorum(t) /\ pc' # [pc EXCEPT ![t] = "reply"]
  <2>1. pc[t] = "quorum" /\ item[t] = 1 /\ item' = item /\ DeadFrom(t, 1)
    BY <1>1, <1>9 DEF CheckQuorum, Unread, TypeInv, CallsOK
  <2>2. NeedsApproval(proposal(t))
    BY <2>1 DEF DeadFrom, approvals
  <2>3. pc'[t] = "validate"
    BY <1>9, <2>2 DEF CheckQuorum, Reply, Goto, TypeInv, TypeOK
  <2> QED BY <1>3, <2>1, <2>3 DEF Unread, HoldingSteps
<1>10. CASE ValidateApproval(t) /\ pc' # [pc EXCEPT ![t] = "reply"]
  <2> DEFINE s == approvals(t)
  <2>1. /\ pc[t] = "validate" /\ DeadFrom(t, item[t])
        /\ item[t] \in DOMAIN s /\ s \in Seq(Approvals)
        /\ Acceptable(proposal(t), s[item[t]])
    BY <1>1, <1>10, CallTypes DEF ValidateApproval, Reply, Goto, Unread, TypeInv, TypeOK
  <2>2. PICK j \in DOMAIN s : j >= item[t] /\ DeadApproval(s[j])
    BY <2>1 DEF DeadFrom
  <2>3. j # item[t]
    BY <2>1, <2>2 DEF Acceptable, DeadApproval
  <2>4. j >= item[t] + 1 /\ More(t)
    BY <2>1, <2>2, <2>3, LenProperties DEF More, TypeInv, TypeOK
  <2>5. item' = [item EXCEPT ![t] = item[t] + 1] /\ pc' = pc
    BY <1>10, <2>4 DEF ValidateApproval, NextItem, Reply, Goto
  <2>6. DeadFrom(t, item[t])'
    BY <1>1, <1>2, <2>2, <2>4, <2>5 DEF DeadFrom, DeadApproval, TypeInv, TypeOK
  <2> QED BY <2>1, <2>5, <2>6 DEF Unread, HoldingSteps
<1> QED
  BY <1>4, <1>5, <1>6, <1>7, <1>8, <1>9, <1>10
     DEF Identify, Decide, Authorize, CheckBudget, Reply, Goto

(* A dead request arrives with a dead credential that nobody has read.     *)
LEMMA SubmitStale ==
    ASSUME TypeInv, NEW t \in Threads, NEW r \in Requests, Submit(t, r), void'[t]
    PROVE  Unread(t)'
<1>1. /\ pc'[t] = "identify" /\ call'[t] = r /\ Dead(r)
      /\ UNCHANGED <<consumed, revoked, expired>>
  BY DEF Submit, Goto, authority, TypeInv, TypeOK
<1>2. CASE UseIdentities /\ r.identity \in expired
  <2>1. DeadIdentity(t)'
    BY <1>1, <1>2 DEF DeadIdentity
  <2> QED BY <1>1, <2>1 DEF Unread, HoldingSteps
<1>3. CASE NeedsCapability(r.proposal) /\ r.capability \in revoked \cup expired
  <2>1. DeadCapability(t)'
    BY <1>1, <1>3 DEF DeadCapability, NeedsCapability, proposal
  <2> QED BY <1>1, <2>1 DEF Unread, HoldingSteps
<1>4. CASE NeedsApproval(r.proposal) /\ \E a \in Elements(r.approvals) :
               a \in expired \/ a.approval_id \in consumed
  <2>1. approvals(t)' = r.approvals
    BY <1>1, <1>4 DEF approvals, proposal, NeedsApproval
  <2>2. PICK j \in DOMAIN r.approvals : DeadApproval(r.approvals[j])
    BY <1>4 DEF Elements, DeadApproval
  <2>3. j >= 1
    BY RequestsAssumption, LenProperties
  <2>4. DeadFrom(t, 1)'
    BY <1>1, <2>1, <2>2, <2>3 DEF DeadFrom, DeadApproval
  <2> QED BY <1>1, <2>4 DEF Unread, HoldingSteps
<1> QED BY <1>1, <1>2, <1>3, <1>4 DEF Dead

LEMMA NextStale == TypeInv /\ StaleOK /\ [Next]_vars => StaleOK'
<1> SUFFICES ASSUME TypeInv, StaleOK, [Next]_vars, NEW u \in Threads, void'[u]
             PROVE  Unread(u)'
  BY DEF StaleOK
<1>1. /\ consumed \subseteq consumed' /\ revoked \subseteq revoked'
      /\ expired \subseteq expired'
  BY DEF Next, Step, Identify, Decide, Authorize, CheckBudget, CheckQuorum, ValidateApproval,
         Reserve, ReportReplay, Journal, ConsumeApproval, RunTool, Verify, Complete, Return,
         Submit, Raise, Crash, Revoke, Expire, Reading, authority, vars
<1>2. ASSUME void[u], pc'[u] = pc[u], call'[u] = call[u], item'[u] = item[u]
      PROVE  Unread(u)'
  BY <1>1, <1>2, DeadStays DEF StaleOK
<1>3. ASSUME NEW t \in Threads,
             \/ Identify(t) \/ Decide(t) \/ Authorize(t) \/ CheckBudget(t)
             \/ CheckQuorum(t) \/ ValidateApproval(t)
      PROVE  Unread(u)'
  <2>1. /\ UNCHANGED <<call, void>>
        /\ u # t => pc'[u] = pc[u] /\ item'[u] = item[u]
    <3>1. CASE Identify(t) \/ Decide(t) \/ Authorize(t)
      BY <3>1 DEF Identify, Decide, Authorize, Reading, Reply, Goto, TypeInv, TypeOK
    <3>2. CASE CheckBudget(t) \/ CheckQuorum(t)
      BY <3>2 DEF CheckBudget, CheckQuorum, Reading, Reply, Goto, TypeInv, TypeOK
    <3>3. CASE ValidateApproval(t)
      BY <3>3 DEF ValidateApproval, Reading, Reply, Goto, TypeInv, TypeOK
    <3> QED BY <1>3, <3>1, <3>2, <3>3
  <2>2. CASE u = t
    BY <1>3, <2>1, <2>2, CheckStale
  <2>3. CASE u # t
    BY <1>2, <2>1, <2>3
  <2> QED BY <2>2, <2>3
<1>4. ASSUME NEW t \in Threads, NEW r \in Requests, Submit(t, r)
      PROVE  Unread(u)'
  <2>1. CASE u = t
    BY <1>4, <2>1, SubmitStale
  <2>2. CASE u # t
    <3>1. /\ void[u] /\ pc'[u] = pc[u] /\ call'[u] = call[u] /\ item'[u] = item[u]
      BY <1>4, <2>2 DEF Submit, Goto, TypeInv, TypeOK
    <3> QED BY <1>2, <3>1
  <2> QED BY <2>1, <2>2
<1>5. ASSUME NEW t \in Threads,
             \/ Reserve(t) \/ ReportReplay(t) \/ Journal(t) \/ ConsumeApproval(t)
             \/ RunTool(t) \/ Verify(t) \/ Complete(t)
      PROVE  Unread(u)'
  <2>1. UNCHANGED <<call, void>> /\ pc[t] \in {"reserve", "report"} \cup HoldingSteps
    BY <1>5 DEF Reserve, ReportReplay, Journal, ConsumeApproval, RunTool, Verify, Complete,
                Reading, HoldingSteps
  <2>2. u # t
    BY <2>1 DEF StaleOK, Unread
  <2>3. pc'[u] = pc[u] /\ item'[u] = item[u]
    <3>1. CASE Reserve(t) \/ ReportReplay(t) \/ Journal(t)
      BY <2>2, <3>1 DEF Reserve, ReportReplay, Journal, Reply, Goto, TypeInv, TypeOK
    <3>2. CASE ConsumeApproval(t) \/ RunTool(t)
      BY <2>2, <3>2 DEF ConsumeApproval, RunTool, Goto, TypeInv, TypeOK
    <3>3. CASE Verify(t) \/ Complete(t)
      BY <2>2, <3>3 DEF Verify, Complete, Goto, TypeInv, TypeOK
    <3> QED BY <1>5, <3>1, <3>2, <3>3
  <2> QED BY <1>2, <2>1, <2>3
<1>6. ASSUME NEW t \in Threads, Return(t) \/ Raise(t) PROVE Unread(u)'
  <2>1. CASE u = t
    BY <1>6, <2>1 DEF Return, Raise, Reply, Goto, Unread, HoldingSteps, TypeInv, TypeOK
  <2>2. CASE u # t
    <3>1. /\ void[u] /\ pc'[u] = pc[u] /\ call'[u] = call[u] /\ item'[u] = item[u]
      BY <1>6, <2>2 DEF Return, Raise, Reply, Goto, TypeInv, TypeOK
    <3> QED BY <1>2, <3>1
  <2> QED BY <2>1, <2>2
<1>7. ASSUME NEW S \in SUBSET Threads, Crash(S) PROVE Unread(u)'
  <2>1. /\ u \notin S /\ void[u] /\ pc'[u] = pc[u] /\ call'[u] = call[u]
        /\ item'[u] = item[u]
    BY <1>7 DEF Crash
  <2> QED BY <1>2, <2>1
<1>8. CASE \/ \E token \in Revocable : Revoke(token)
           \/ \E credential \in Perishable : Expire(credential)
           \/ UNCHANGED vars
  BY <1>2, <1>8 DEF Revoke, Expire, locals, vars
<1> QED BY <1>3, <1>4, <1>5, <1>6, <1>7, <1>8 DEF Next, Step

(* A request that arrives on a dead credential never holds anything, with  *)
(* or without a ledger, whatever runs beside it.                           *)
THEOREM StaleIsRefused == Spec => []StaleAuthorityNeverActs
<1>1. Init => StaleOK
  BY DEF Init, StaleOK
<1>2. StaleOK => StaleAuthorityNeverActs
  BY DEF StaleOK, Unread, StaleAuthorityNeverActs
<1> QED
  BY <1>1, <1>2, InitTypeInv, NextTypeInv, NextStale, PTL DEF Spec

----------------------------------------------------------------------------
(* Spent approvals *)

(* The row of a proposal is never lost or taken over. *)
LEMMA RecordedStays ==
    ASSUME UseLedger, TypeInv, OwnersOK, [Next]_vars
    PROVE  \A p \in Proposals : Recorded(p) => Recorded(p)'
<1>1. CASE UNCHANGED ledger
  BY <1>1 DEF Recorded, Row
<1>2. ASSUME NEW t \in Threads, Reserve(t), ~UNCHANGED ledger
      PROVE  \A p \in Proposals : Recorded(p) => Recorded(p)'
  <2>1. id(t) \in ProposalIds
    BY <1>2, CallTypes DEF Reserve, TypeInv
  <2>2. /\ ledger[id(t)] = NoRow
        /\ \A i \in ProposalIds \ {id(t)} : ledger'[i] = ledger[i]
    BY <1>2, <2>1 DEF Reserve, CanReserve, id, TypeInv, TypeOK
  <2> QED BY <2>2, ProposalsAssumption DEF Recorded, Row
<1>3. ASSUME NEW t \in Threads, Complete(t)
      PROVE  \A p \in Proposals : Recorded(p) => Recorded(p)'
  BY <1>3, CompleteKeepsRows
<1>4. \/ UNCHANGED ledger
      \/ \E t \in Threads : Reserve(t) \/ Complete(t)
  BY DEF Next, Step, Identify, Decide, Authorize, CheckBudget, CheckQuorum, ValidateApproval,
         ReportReplay, Journal, ConsumeApproval, RunTool, Verify, Return, Submit, Raise,
         Crash, Revoke, Expire, Reading, authority, vars
<1> QED BY <1>1, <1>2, <1>3, <1>4

(* What the loop over the approvals has established so far. *)
Approves(a, p) == a.proposal_digest = p /\ a.approver # Blank

Matched(t) ==
    \A k \in DOMAIN approvals(t) :
        (pc[t] = "validate" => k < item[t]) /\ pc[t] \in {"validate", "reserve"} \cup HoldingSteps
           => Approves(approvals(t)[k], proposal(t))

MatchedOK == \A t \in Threads : Matched(t)

(* The steps that do not run the loop keep what it established.            *)
LEMMA MatchedFrame ==
    ASSUME NEW t \in Threads, Matched(t),
           \/ pc'[t] \notin {"reserve", "validate"} \cup HoldingSteps
           \/ /\ call'[t] = call[t]
              /\ \/ pc[t] \in {"reserve"} \cup HoldingSteps /\ pc'[t] \in HoldingSteps
                 \/ pc'[t] = pc[t] /\ item'[t] = item[t]
    PROVE  Matched(t)'
<1>1. CASE pc'[t] \notin {"reserve", "validate"} \cup HoldingSteps
  BY <1>1 DEF Matched
<1>2. ASSUME call'[t] = call[t] PROVE approvals(t)' = approvals(t) /\ proposal(t)' = proposal(t)
  BY <1>2 DEF approvals, proposal
<1>3. CASE /\ call'[t] = call[t]
           /\ pc[t] \in {"reserve"} \cup HoldingSteps /\ pc'[t] \in HoldingSteps
  BY <1>2, <1>3 DEF Matched, HoldingSteps
<1>4. CASE call'[t] = call[t] /\ pc'[t] = pc[t] /\ item'[t] = item[t]
  BY <1>2, <1>4 DEF Matched
<1> QED BY <1>1, <1>3, <1>4

(* A call reaches the reservation with every approval matched.             *)
LEMMA LoopMatches ==
    ASSUME TypeInv, MatchedOK, NEW t \in Threads, CheckQuorum(t) \/ ValidateApproval(t)
    PROVE  Matched(t)'
<1> DEFINE s == approvals(t)
<1>1. /\ Matched(t) /\ UNCHANGED call /\ s \in Seq(Approvals)
      /\ approvals(t)' = s /\ proposal(t)' = proposal(t)
  <2>1. UNCHANGED call /\ pc[t] # "idle"
    BY DEF CheckQuorum, ValidateApproval, Reading
  <2> QED BY <2>1, CallTypes DEF MatchedOK, TypeInv, approvals, proposal
<1>2. CASE pc' = [pc EXCEPT ![t] = "reply"]
  BY <1>1, <1>2, MatchedFrame DEF HoldingSteps, TypeInv, TypeOK
<1>3. CASE CheckQuorum(t) /\ pc' # [pc EXCEPT ![t] = "reply"]
  <2>1. \/ pc'[t] = "reserve" /\ ~NeedsApproval(proposal(t))
        \/ pc'[t] = "validate" /\ item'[t] = 1
    BY <1>3 DEF CheckQuorum, Reply, Goto, TypeInv, TypeOK, CallsOK
  <2>2. ~NeedsApproval(proposal(t)) => s = <<>>
    BY DEF approvals
  <2>3. CASE pc'[t] = "reserve" /\ ~NeedsApproval(proposal(t))
    BY <1>1, <2>2, <2>3, EmptySeq, LenProperties DEF Matched
  <2>4. CASE pc'[t] = "validate" /\ item'[t] = 1
    BY <1>1, <2>4, LenProperties DEF Matched, HoldingSteps
  <2> QED BY <2>1, <2>3, <2>4
<1>4. CASE ValidateApproval(t) /\ pc' # [pc EXCEPT ![t] = "reply"]
  <2>1. /\ pc[t] = "validate" /\ item[t] \in DOMAIN s
        /\ Approves(s[item[t]], proposal(t))
        /\ \A k \in DOMAIN s : k < item[t] => Approves(s[k], proposal(t))
    BY <1>1, <1>4 DEF ValidateApproval, Acceptable, Approves, Reply, Goto, Matched, TypeInv, TypeOK
  <2>2. \A k \in DOMAIN s : k < item[t] + 1 => Approves(s[k], proposal(t))
    BY <1>1, <2>1, LenProperties DEF TypeInv, TypeOK
  <2>3. CASE More(t)
    <3>1. pc'[t] = "validate" /\ item'[t] = item[t] + 1
      BY <1>4, <2>1, <2>3 DEF ValidateApproval, NextItem, Reply, Goto, TypeInv, TypeOK
    <3> QED BY <1>1, <2>2, <3>1 DEF Matched, HoldingSteps
  <2>4. CASE ~More(t)
    <3>1. \A k \in DOMAIN s : k < item[t] + 1
      BY <1>1, <2>1, <2>4, LenProperties DEF More, TypeInv, TypeOK
    <3> QED BY <1>1, <2>2, <3>1 DEF Matched
  <2> QED BY <2>3, <2>4
<1> QED BY <1>2, <1>3, <1>4

LEMMA NextMatched == TypeInv /\ MatchedOK /\ [Next]_vars => MatchedOK'
<1> SUFFICES ASSUME TypeInv, MatchedOK, [Next]_vars, NEW u \in Threads
             PROVE  Matched(u)'
  BY DEF MatchedOK
<1>1. Matched(u)
  BY DEF MatchedOK
<1>2. ASSUME pc'[u] = pc[u], call'[u] = call[u], item'[u] = item[u]
      PROVE  Matched(u)'
  BY <1>1, <1>2, MatchedFrame
<1>3. ASSUME NEW t \in Threads, t # u,
             Step(t) \/ Raise(t) \/ \E r \in Requests : Submit(t, r)
      PROVE  Matched(u)'
  <2>1. CASE \/ Identify(t) \/ Decide(t) \/ Authorize(t) \/ CheckBudget(t)
             \/ CheckQuorum(t) \/ ReportReplay(t) \/ ValidateApproval(t) \/ Verify(t)
    <3>1. pc'[u] = pc[u] /\ call'[u] = call[u] /\ item'[u] = item[u]
      BY <1>3, <2>1 DEF Identify, Decide, Authorize, CheckBudget, CheckQuorum, ReportReplay,
            ValidateApproval, Verify, Reading, Reply, Goto, TypeInv, TypeOK
    <3> QED BY <1>2, <3>1
  <2>2. CASE \/ Reserve(t) \/ Journal(t) \/ ConsumeApproval(t) \/ RunTool(t) \/ Complete(t)
    <3>1. pc'[u] = pc[u] /\ call'[u] = call[u] /\ item'[u] = item[u]
      BY <1>3, <2>2 DEF Reserve, Journal, ConsumeApproval, RunTool, Complete, Goto,
            TypeInv, TypeOK
    <3> QED BY <1>2, <3>1
  <2>3. CASE Return(t) \/ Raise(t) \/ \E r \in Requests : Submit(t, r)
    <3>1. pc'[u] = pc[u] /\ call'[u] = call[u] /\ item'[u] = item[u]
      BY <1>3, <2>3 DEF Return, Raise, Submit, Reply, Goto, TypeInv, TypeOK
    <3> QED BY <1>2, <3>1
  <2> QED BY <1>3, <2>1, <2>2, <2>3 DEF Step
<1>4. CASE Identify(u) \/ Decide(u) \/ Authorize(u) \/ CheckBudget(u) \/ ReportReplay(u)
  <2>1. pc'[u] \notin {"reserve", "validate"} \cup HoldingSteps
    BY <1>4 DEF Identify, Decide, Authorize, CheckBudget, ReportReplay, Reply, Goto,
                HoldingSteps, TypeInv, TypeOK
  <2> QED BY <1>1, <2>1, MatchedFrame
<1>5. CASE CheckQuorum(u) \/ ValidateApproval(u)
  BY <1>5, LoopMatches
<1>6. CASE Reserve(u) \/ Journal(u)
  <2>1. /\ call'[u] = call[u] /\ pc[u] \in {"reserve"} \cup HoldingSteps
        /\ pc'[u] \in HoldingSteps \/ pc'[u] = "report"
    BY <1>6 DEF Reserve, Journal, AfterReservation, AfterOutcome, Goto, HoldingSteps,
                TypeInv, TypeOK
  <2> QED BY <1>1, <2>1, MatchedFrame DEF HoldingSteps
<1>7. CASE ConsumeApproval(u) \/ RunTool(u) \/ Verify(u)
  <2>1. /\ call'[u] = call[u] /\ pc[u] \in HoldingSteps /\ pc'[u] \in HoldingSteps
    BY <1>7 DEF ConsumeApproval, RunTool, Verify, Reading, Goto, HoldingSteps, TypeInv, TypeOK
  <2> QED BY <1>1, <2>1, MatchedFrame
<1>8. CASE Complete(u) \/ Return(u) \/ Raise(u) \/ \E r \in Requests : Submit(u, r)
  <2>1. pc'[u] \notin {"reserve", "validate"} \cup HoldingSteps
    BY <1>8 DEF Complete, Return, Raise, Submit, Reply, Goto, HoldingSteps, TypeInv, TypeOK
  <2> QED BY <1>1, <2>1, MatchedFrame
<1>9. ASSUME NEW S \in SUBSET Threads, Crash(S) PROVE Matched(u)'
  <2>1. CASE u \in S
    <3>1. pc'[u] = "idle"
      BY <1>9, <2>1 DEF Crash
    <3> QED BY <1>1, <3>1, MatchedFrame DEF HoldingSteps
  <2>2. CASE u \notin S
    BY <1>2, <1>9, <2>2 DEF Crash
  <2> QED BY <2>1, <2>2
<1>10. CASE \/ \E token \in Revocable : Revoke(token)
            \/ \E credential \in Perishable : Expire(credential)
            \/ UNCHANGED vars
  BY <1>2, <1>10 DEF Revoke, Expire, locals, vars
<1> QED BY <1>3, <1>4, <1>5, <1>6, <1>7, <1>8, <1>9, <1>10 DEF Next, Step

SpentOK == \A a \in spent : a.proposal_digest \in Proposals /\ Recorded(a.proposal_digest)

LEMMA NextSpent ==
    ASSUME UseLedger
    PROVE  TypeInv /\ OwnersOK /\ MatchedOK /\ SpentOK /\ [Next]_vars => SpentOK'
<1> SUFFICES ASSUME TypeInv, OwnersOK, MatchedOK, SpentOK, [Next]_vars
             PROVE  SpentOK'
  OBVIOUS
<1>1. \A p \in Proposals : Recorded(p) => Recorded(p)'
  BY RecordedStays
<1>2. CASE UNCHANGED spent
  BY <1>1, <1>2 DEF SpentOK
<1>3. ASSUME NEW t \in Threads, ConsumeApproval(t), ~UNCHANGED spent
      PROVE  SpentOK'
  <2> DEFINE a == approvals(t)[item[t]]
  <2>1. spent' = spent \cup {a} /\ Holds(t) /\ item[t] \in DOMAIN approvals(t)
    BY <1>3 DEF ConsumeApproval, Holds, HoldingSteps, TypeInv, TypeOK
  <2>2. a.proposal_digest = proposal(t)
    BY <1>3, <2>1 DEF ConsumeApproval, MatchedOK, Matched, Approves, HoldingSteps
  <2>3. proposal(t) \in Proposals /\ Recorded(proposal(t))
    BY <2>1, HolderRecorded
  <2> QED BY <1>1, <2>1, <2>2, <2>3 DEF SpentOK
<1>4. UNCHANGED spent \/ \E t \in Threads : ConsumeApproval(t)
  BY DEF Next, Step, Identify, Decide, Authorize, CheckBudget, CheckQuorum, ValidateApproval,
         Reserve, ReportReplay, Journal, RunTool, Verify, Complete, Return, Submit, Raise,
         Crash, Revoke, Expire, Reading, authority, vars
<1> QED BY <1>2, <1>3, <1>4

(* With the ledger on, a consumed approval always leaves behind a row of   *)
(* the proposal it was given for, whatever fails in between.               *)
THEOREM SpentBehindReservation ==
    ASSUME UseLedger
    PROVE  Spec => []ReservedBeforeSpent
<1>1. Init => MatchedOK /\ SpentOK
  BY DEF Init, MatchedOK, Matched, SpentOK, HoldingSteps
<1>2. SpentOK => ReservedBeforeSpent
  BY DEF SpentOK, ReservedBeforeSpent
<1> QED
  BY <1>1, <1>2, EffectsInvariant, InitTypeInv, NextMatched, NextSpent, PTL DEF Spec

----------------------------------------------------------------------------
(* Final rows *)

Final(i) == ledger[i] # NoRow /\ ledger[i].state = "terminal"

(* A step of one call leaves the locals of every other call alone.         *)
LEMMA OthersStand ==
    ASSUME TypeInv, NEW t \in Threads, NEW u \in Threads, u # t,
           Step(t) \/ Raise(t) \/ \E r \in Requests : Submit(t, r)
    PROVE  /\ pc'[u] = pc[u] /\ call'[u] = call[u]
           /\ item'[u] = item[u] /\ outcome'[u] = outcome[u]
<1>1. CASE Identify(t) \/ Decide(t) \/ Authorize(t) \/ CheckBudget(t)
  BY <1>1 DEF Identify, Decide, Authorize, CheckBudget, Reading, Reply, Goto, TypeInv, TypeOK
<1>2. CASE CheckQuorum(t) \/ ReportReplay(t) \/ ValidateApproval(t) \/ Verify(t)
  BY <1>2 DEF CheckQuorum, ReportReplay, ValidateApproval, Verify, Reading, Reply, Goto,
              TypeInv, TypeOK
<1>3. CASE Reserve(t) \/ Journal(t) \/ RunTool(t) \/ Complete(t)
  BY <1>3 DEF Reserve, Journal, RunTool, Complete, Goto, TypeInv, TypeOK
<1>4. CASE ConsumeApproval(t)
  BY <1>4 DEF ConsumeApproval, Goto, TypeInv, TypeOK
<1>5. CASE Return(t) \/ Raise(t) \/ \E r \in Requests : Submit(t, r)
  BY <1>5 DEF Return, Raise, Submit, Reply, Goto, TypeInv, TypeOK
<1> QED BY <1>1, <1>2, <1>3, <1>4, <1>5 DEF Step

(* Only an INSERT where there was no row and the UPDATE of a call that     *)
(* holds the row change the ledger.                                        *)
LEMMA LedgerSteps ==
    ASSUME TypeInv, OwnersOK, [Next]_vars, NEW i \in ProposalIds, ledger[i] # NoRow
    PROVE  /\ ledger'[i] # NoRow
           /\ \/ ledger'[i] = ledger[i]
              \/ \E t \in Threads : Complete(t) /\ Holds(t) /\ id(t) = i
<1>1. CASE UNCHANGED ledger
  BY <1>1
<1>2. ASSUME NEW t \in Threads, Reserve(t), ~UNCHANGED ledger
      PROVE  ledger'[i] = ledger[i]
  <2>1. id(t) \in ProposalIds
    BY <1>2, CallTypes DEF Reserve, TypeInv
  <2>2. /\ ledger[id(t)] = NoRow
        /\ \A j \in ProposalIds \ {id(t)} : ledger'[j] = ledger[j]
    BY <1>2, <2>1 DEF Reserve, CanReserve, id, TypeInv, TypeOK
  <2> QED BY <2>2
<1>3. ASSUME NEW t \in Threads, Complete(t), UseLedger
      PROVE  /\ ledger'[i] # NoRow
             /\ ledger'[i] = ledger[i] \/ (Holds(t) /\ id(t) = i)
  BY <1>3, CompleteKeepsRows, ValuesAssumption
<1>4. ASSUME NEW t \in Threads, Complete(t), ~UseLedger
      PROVE  UNCHANGED ledger
  BY <1>4 DEF Complete
<1>5. \/ UNCHANGED ledger
      \/ \E t \in Threads : Reserve(t) \/ Complete(t)
  BY DEF Next, Step, Identify, Decide, Authorize, CheckBudget, CheckQuorum, ValidateApproval,
         ReportReplay, Journal, ConsumeApproval, RunTool, Verify, Return, Submit, Raise,
         Crash, Revoke, Expire, Reading, authority, vars
<1> QED BY <1>1, <1>2, <1>3, <1>4, <1>5

(* The row of a settled id never changes again, and the row of a call that *)
(* an exception or a crash ended never does either: no retry, no other     *)
(* call and no restart settles it (execution_state.py, "in doubt").        *)
OutcomesStand ==
    [][\A i \in ProposalIds :
          Final(i) \/ i \in interrupted => UNCHANGED ledger[i]]_vars

THEOREM OutcomesAreFinal == Spec => OutcomesStand
<1>1. Spec => [](TypeInv /\ OwnersOK)
  <2>1. Init => OwnersOK
    BY DEF Init, OwnersOK, Holds, Reserved, HoldingSteps
  <2> QED BY <2>1, InitTypeInv, NextTypeInv, NextOwner, PTL DEF Spec
<1>2. TypeInv /\ OwnersOK /\ [Next]_vars =>
         [\A i \in ProposalIds : Final(i) \/ i \in interrupted => UNCHANGED ledger[i]]_vars
  <2> SUFFICES ASSUME TypeInv, OwnersOK, [Next]_vars, NEW i \in ProposalIds,
                      Final(i) \/ i \in interrupted
               PROVE  ledger'[i] = ledger[i]
    OBVIOUS
  <2>1. ledger[i] # NoRow
    BY DEF Final, OwnersOK, Reserved
  <2>2. \A t \in Threads : Holds(t) => id(t) # i
    BY DEF Final, OwnersOK, Reserved
  <2> QED BY <2>1, <2>2, LedgerSteps
<1> QED BY <1>1, <1>2, PTL DEF Spec, OutcomesStand

(* Nothing but a tool has an effect. *)
LEMMA OnlyToolsAct == [Next]_vars => UNCHANGED effects \/ \E t \in Threads : RunTool(t)
BY DEF Next, Step, Identify, Decide, Authorize, CheckBudget, CheckQuorum, ValidateApproval,
       Reserve, ReportReplay, Journal, ConsumeApproval, Verify, Complete, Return, Submit,
       Raise, Crash, Revoke, Expire, Reading, vars

(* Nor does the tool ever act again for such an id: whatever was to happen  *)
(* for it has happened, and a client that retries it after a crash changes *)
(* nothing outside (README.md, core security invariant 8).                 *)
EffectsStand ==
    [][\A p \in Proposals :
          Final(p.proposal_id) \/ p.proposal_id \in interrupted => UNCHANGED effects[p]]_vars

THEOREM RetriesActNoMore ==
    ASSUME UseLedger
    PROVE  Spec => EffectsStand
<1>1. TypeInv /\ OwnersOK /\ [Next]_vars =>
         [\A p \in Proposals :
            Final(p.proposal_id) \/ p.proposal_id \in interrupted => UNCHANGED effects[p]]_vars
  <2> SUFFICES ASSUME TypeInv, OwnersOK, [Next]_vars, NEW p \in Proposals,
                      Final(p.proposal_id) \/ p.proposal_id \in interrupted
               PROVE  effects'[p] = effects[p]
    OBVIOUS
  <2>1. \A t \in Threads : Holds(t) => id(t) # p.proposal_id
    BY DEF Final, OwnersOK, Reserved
  <2>2. ASSUME NEW t \in Threads, RunTool(t)
        PROVE  effects'[p] = effects[p]
    <3>1. Holds(t) /\ proposal(t) # p
      BY <2>1, <2>2 DEF RunTool, Holds, HoldingSteps, id
    <3> QED BY <2>2, <3>1 DEF RunTool, TypeInv, TypeOK
  <2> QED BY <2>2, OnlyToolsAct
<1> QED BY <1>1, EffectsInvariant, PTL DEF Spec, EffectsStand

----------------------------------------------------------------------------
(* What is in the journal *)

LoopDone == {"reserve"} \cup HoldingSteps

(* A call that has passed the count of its approvals has a quorum of them. *)
Quorate(t) ==
    pc[t] \in {"validate"} \cup LoopDone /\ NeedsApproval(proposal(t)) =>
        Len(approvals(t)) >= Quorum /\ Independent(approvals(t))

QuorateOK == \A t \in Threads : Quorate(t)

LEMMA NextQuorate == TypeInv /\ QuorateOK /\ [Next]_vars => QuorateOK'
<1> SUFFICES ASSUME TypeInv, QuorateOK, [Next]_vars, NEW u \in Threads
             PROVE  Quorate(u)'
  BY DEF QuorateOK
<1>1. Quorate(u)
  BY DEF QuorateOK
<1>2. ASSUME call'[u] = call[u],
             pc[u] \in {"validate"} \cup LoopDone \/ pc'[u] \notin {"validate"} \cup LoopDone
      PROVE  Quorate(u)'
  BY <1>1, <1>2 DEF Quorate, proposal, approvals
<1>3. ASSUME NEW t \in Threads, t # u,
             Step(t) \/ Raise(t) \/ \E r \in Requests : Submit(t, r)
      PROVE  Quorate(u)'
  BY <1>2, <1>3, OthersStand
<1>4. CASE Identify(u) \/ Decide(u) \/ Authorize(u) \/ CheckBudget(u) \/ ReportReplay(u)
  BY <1>2, <1>4 DEF Identify, Decide, Authorize, CheckBudget, ReportReplay, Reading,
                    Reply, Goto, LoopDone, HoldingSteps, TypeInv, TypeOK
<1>5. CASE CheckQuorum(u)
  <2>1. /\ UNCHANGED call
        /\ \/ pc'[u] = "reply"
           \/ pc'[u] = "reserve" /\ ~NeedsApproval(proposal(u))
           \/ /\ pc'[u] = "validate"
              /\ Len(approvals(u)) >= Quorum /\ Independent(approvals(u))
    BY <1>5 DEF CheckQuorum, Reading, Reply, Goto, TypeInv, TypeOK
  <2>2. approvals(u)' = approvals(u) /\ proposal(u)' = proposal(u)
    BY <2>1 DEF approvals, proposal
  <2> QED BY <2>1, <2>2 DEF Quorate, LoopDone, HoldingSteps, Independent
<1>6. CASE ValidateApproval(u) \/ Reserve(u) \/ Journal(u)
  <2>1. UNCHANGED call /\ pc[u] \in {"validate"} \cup LoopDone
    BY <1>6 DEF ValidateApproval, Reserve, Journal, Reading, LoopDone, HoldingSteps
  <2> QED BY <1>2, <2>1
<1>7. CASE ConsumeApproval(u) \/ RunTool(u) \/ Verify(u) \/ Complete(u)
  <2>1. UNCHANGED call /\ pc[u] \in LoopDone
    BY <1>7 DEF ConsumeApproval, RunTool, Verify, Complete, Reading, LoopDone, HoldingSteps
  <2> QED BY <1>2, <2>1
<1>8. CASE Return(u) \/ Raise(u) \/ \E r \in Requests : Submit(u, r)
  <2>1. pc'[u] \notin {"validate"} \cup LoopDone
    BY <1>8 DEF Return, Raise, Submit, Reply, Goto, LoopDone, HoldingSteps, TypeInv, TypeOK
  <2> QED BY <2>1 DEF Quorate
<1>9. ASSUME NEW S \in SUBSET Threads, Crash(S) PROVE Quorate(u)'
  <2>1. pc'[u] = "idle" \/ (pc'[u] = pc[u] /\ call'[u] = call[u])
    BY <1>9 DEF Crash
  <2> QED BY <1>2, <2>1 DEF Quorate, LoopDone, HoldingSteps
<1>10. CASE \/ \E token \in Revocable : Revoke(token)
            \/ \E credential \in Perishable : Expire(credential)
            \/ UNCHANGED vars
  BY <1>2, <1>10 DEF Revoke, Expire, locals, vars
<1> QED
  BY <1>3, <1>4, <1>5, <1>6, <1>7, <1>8, <1>9, <1>10 DEF Next, Step

Logged(event, p) == <<event, p>> \in journal

(* What a call has written by the step it stands at. *)
Announced(t) ==
    /\ UseLedger /\ pc[t] \in HoldingSteps \ {"log_reserved"} =>
          Logged("execution_reserved", proposal(t))
    /\ NeedsApproval(proposal(t)) /\ pc[t] \in {"log_charged", "tool"} =>
          Logged("approval_accepted", proposal(t))
    /\ pc[t] = "tool" => Logged("risk_budget_consumed", proposal(t))
    /\ pc[t] = "complete" => Logged(OutcomeEvent(outcome[t]), proposal(t))

AnnouncedOK == \A t \in Threads : Announced(t)

(* A call that stays where it is, or does not hold, has nothing to add.    *)
LEMMA AnnouncedFrame ==
    ASSUME NEW t \in Threads, Announced(t), journal \subseteq journal',
           \/ pc'[t] \notin HoldingSteps
           \/ pc'[t] = pc[t] /\ call'[t] = call[t] /\ outcome'[t] = outcome[t]
    PROVE  Announced(t)'
<1>1. CASE pc'[t] \notin HoldingSteps
  BY <1>1 DEF Announced, HoldingSteps
<1>2. CASE pc'[t] = pc[t] /\ call'[t] = call[t] /\ outcome'[t] = outcome[t]
  <2>1. proposal(t)' = proposal(t)
    BY <1>2 DEF proposal
  <2> QED BY <1>2, <2>1 DEF Announced, Logged
<1> QED BY <1>1, <1>2

(* A holder writes each event before the step that the event announces.    *)
LEMMA HolderAnnounces ==
    ASSUME TypeInv, QuorateOK, AnnouncedOK, NEW t \in Threads,
           Reserve(t) \/ Journal(t) \/ ConsumeApproval(t) \/ RunTool(t) \/ Verify(t)
    PROVE  Announced(t)'
<1> DEFINE p == proposal(t)
<1>1. /\ Announced(t) /\ Quorate(t) /\ UNCHANGED call
  BY DEF AnnouncedOK, QuorateOK, Reserve, Journal, ConsumeApproval, RunTool, Verify, Reading
<1>2. p' = p
  BY <1>1 DEF proposal
<1>3. ASSUME NeedsApproval(p), pc[t] \in {"reserve", "log_reserved"}
      PROVE  approvals(t) # <<>>
  <2>1. Len(approvals(t)) >= Quorum
    BY <1>1, <1>3 DEF Quorate, LoopDone, HoldingSteps
  <2> QED BY <2>1, ValuesAssumption, EmptySeq
<1>4. CASE Reserve(t)
  <2>1. /\ pc[t] = "reserve" /\ UNCHANGED journal
        /\ \/ pc'[t] \in {"log_reserved", "report"}
           \/ ~UseLedger /\ pc'[t] = AfterReservation(t)
    BY <1>4 DEF Reserve, Goto, TypeInv, TypeOK
  <2> QED
    BY <1>2, <1>3, <2>1 DEF Announced, AfterReservation, HoldingSteps
<1>5. CASE Journal(t)
  <2>1. UNCHANGED outcome /\ journal \subseteq journal'
    BY <1>5 DEF Journal
  <2>2. \/ /\ pc[t] = "log_reserved" /\ pc'[t] = AfterReservation(t)
           /\ Logged("execution_reserved", p)'
        \/ /\ pc[t] = "log_accepted" /\ pc'[t] = "log_charged"
           /\ Logged("approval_accepted", p)'
        \/ /\ pc[t] = "log_charged" /\ pc'[t] = "tool"
           /\ Logged("risk_budget_consumed", p)'
        \/ /\ pc[t] = "log_outcome" /\ pc'[t] = "complete"
           /\ Logged(OutcomeEvent(outcome[t]), p)'
    BY <1>2, <1>5 DEF Journal, AfterOutcome, Goto, Logged, TypeInv, TypeOK
  <2>3. \A event : Logged(event, p) => Logged(event, p)'
    BY <1>2, <2>1 DEF Logged
  <2>4. CASE pc[t] = "log_reserved"
    BY <1>1, <1>2, <1>3, <2>2, <2>3, <2>4 DEF Announced, AfterReservation, HoldingSteps
  <2>5. CASE pc[t] = "log_accepted"
    BY <1>1, <1>2, <2>2, <2>3, <2>5 DEF Announced, HoldingSteps
  <2>6. CASE pc[t] = "log_charged"
    BY <1>1, <1>2, <2>2, <2>3, <2>6 DEF Announced, HoldingSteps
  <2>7. CASE pc[t] = "log_outcome"
    BY <1>1, <1>2, <2>1, <2>2, <2>3, <2>7 DEF Announced, HoldingSteps
  <2> QED BY <2>2, <2>4, <2>5, <2>6, <2>7
<1>6. CASE ConsumeApproval(t)
  <2>1. /\ pc[t] = "consume" /\ pc'[t] \in {"consume", "log_accepted", "log_outcome"}
        /\ UNCHANGED journal
    BY <1>6 DEF ConsumeApproval, Goto, TypeInv, TypeOK
  <2> QED BY <1>1, <1>2, <2>1 DEF Announced, Logged, HoldingSteps
<1>7. CASE RunTool(t) \/ Verify(t)
  <2>1. /\ pc[t] \in {"tool", "verify"} /\ pc'[t] \in {"verify", "log_outcome"}
        /\ UNCHANGED journal
    BY <1>7 DEF RunTool, Verify, Reading, Goto, TypeInv, TypeOK
  <2> QED BY <1>1, <1>2, <2>1 DEF Announced, Logged, HoldingSteps
<1> QED BY <1>4, <1>5, <1>6, <1>7

LEMMA JournalGrows == [Next]_vars => journal \subseteq journal'
BY DEF Next, Step, Identify, Decide, Authorize, CheckBudget, CheckQuorum, ValidateApproval,
       Reserve, ReportReplay, Journal, ConsumeApproval, RunTool, Verify, Complete, Return,
       Submit, Raise, Crash, Revoke, Expire, Reading, authority, vars

LEMMA NextAnnounced ==
    TypeInv /\ QuorateOK /\ AnnouncedOK /\ [Next]_vars => AnnouncedOK'
<1> SUFFICES ASSUME TypeInv, QuorateOK, AnnouncedOK, [Next]_vars, NEW u \in Threads
             PROVE  Announced(u)'
  BY DEF AnnouncedOK
<1>1. Announced(u) /\ journal \subseteq journal'
  BY JournalGrows DEF AnnouncedOK
<1>2. ASSUME NEW t \in Threads, t # u,
             Step(t) \/ Raise(t) \/ \E r \in Requests : Submit(t, r)
      PROVE  Announced(u)'
  BY <1>1, <1>2, OthersStand, AnnouncedFrame
<1>3. CASE Identify(u) \/ Decide(u) \/ Authorize(u) \/ CheckBudget(u) \/ CheckQuorum(u)
  <2>1. pc'[u] \notin HoldingSteps
    BY <1>3 DEF Identify, Decide, Authorize, CheckBudget, CheckQuorum, Reply, Goto,
                HoldingSteps, TypeInv, TypeOK
  <2> QED BY <1>1, <2>1, AnnouncedFrame
<1>4. CASE ValidateApproval(u) \/ ReportReplay(u) \/ Complete(u) \/ Return(u) \/ Raise(u)
           \/ \E r \in Requests : Submit(u, r)
  <2>1. pc'[u] \notin HoldingSteps
    BY <1>4 DEF ValidateApproval, ReportReplay, Complete, Return, Raise, Submit, Reply,
                Goto, HoldingSteps, TypeInv, TypeOK
  <2> QED BY <1>1, <2>1, AnnouncedFrame
<1>5. CASE Reserve(u) \/ Journal(u) \/ ConsumeApproval(u) \/ RunTool(u) \/ Verify(u)
  BY <1>5, HolderAnnounces
<1>6. ASSUME NEW S \in SUBSET Threads, Crash(S) PROVE Announced(u)'
  <2>1. \/ pc'[u] = "idle"
        \/ pc'[u] = pc[u] /\ call'[u] = call[u] /\ outcome'[u] = outcome[u]
    BY <1>6 DEF Crash
  <2> QED BY <1>1, <2>1, AnnouncedFrame DEF HoldingSteps
<1>7. CASE \/ \E token \in Revocable : Revoke(token)
           \/ \E credential \in Perishable : Expire(credential)
           \/ UNCHANGED vars
  BY <1>1, <1>7, AnnouncedFrame DEF Revoke, Expire, locals, vars
<1> QED BY <1>2, <1>3, <1>4, <1>5, <1>6, <1>7 DEF Next, Step

(* EffectIsJournaled, of the effects and of the rows. *)
EffectLogged(p) ==
    effects[p] > 0 =>
        /\ UseLedger => Logged("execution_reserved", p)
        /\ NeedsApproval(p) => Logged("approval_accepted", p)
        /\ Logged("risk_budget_consumed", p)
RowLogged(i) ==
    Final(i) => Logged(OutcomeEvent(ledger[i].terminal_status), ledger[i].proposal_digest)

(* The ledger that is not there has no rows. *)
LedgerOff == ~UseLedger => \A i \in ProposalIds : ledger[i] = NoRow

JournalOK == /\ \A p \in Proposals : EffectLogged(p)
             /\ \A i \in ProposalIds : RowLogged(i)
             /\ LedgerOff

LEMMA NextJournal ==
    TypeInv /\ OwnersOK /\ AnnouncedOK /\ JournalOK /\ [Next]_vars => JournalOK'
<1> SUFFICES ASSUME TypeInv, OwnersOK, AnnouncedOK, JournalOK, [Next]_vars
             PROVE  JournalOK'
  OBVIOUS
<1>1. journal \subseteq journal'
  BY JournalGrows
<1>2. ASSUME NEW p \in Proposals PROVE EffectLogged(p)'
  <2>1. CASE effects'[p] = effects[p]
    BY <1>1, <2>1 DEF JournalOK, EffectLogged, Logged
  <2>2. CASE effects'[p] # effects[p]
    <3>1. PICK t \in Threads : RunTool(t)
      BY <2>2 DEF Next, Step, Identify, Decide, Authorize, CheckBudget, CheckQuorum,
           ValidateApproval, Reserve, ReportReplay, Journal, ConsumeApproval, Verify,
           Complete, Return, Submit, Raise, Crash, Revoke, Expire, Reading, authority, vars
    <3>2. pc[t] = "tool" /\ p = proposal(t)
      BY <2>2, <3>1 DEF RunTool, TypeInv, TypeOK
    <3>3. Announced(t)
      BY DEF AnnouncedOK
    <3> QED BY <1>1, <3>2, <3>3 DEF Announced, EffectLogged, Logged, HoldingSteps
  <2> QED BY <2>1, <2>2
<1>3. ASSUME NEW i \in ProposalIds, UseLedger PROVE RowLogged(i)'
  <2>1. RowLogged(i)
    BY DEF JournalOK
  <2>2. CASE ledger[i] = NoRow
    <3>1. ~Final(i)'
      <4>1. CASE ledger'[i] = NoRow
        BY <4>1 DEF Final
      <4>2. CASE ledger'[i] # NoRow
        <5>1. \E t \in Threads : Reserve(t) \/ Complete(t)
          BY <2>2, <4>2 DEF Next, Step, Identify, Decide, Authorize, CheckBudget, CheckQuorum,
               ValidateApproval, ReportReplay, Journal, ConsumeApproval, RunTool, Verify,
               Return, Submit, Raise, Crash, Revoke, Expire, Reading, authority, vars
        <5>2. ASSUME NEW t \in Threads, Complete(t) PROVE FALSE
          BY <1>3, <2>2, <4>2, <5>2, CompleteKeepsRows, HolderRecorded DEF Reserved
        <5>3. ASSUME NEW t \in Threads, Reserve(t) PROVE ledger'[i].state = "reserved"
          BY <2>2, <4>2, <5>3 DEF Reserve, TypeInv, TypeOK
        <5> QED BY <5>1, <5>2, <5>3 DEF Final
      <4> QED BY <4>1, <4>2
    <3> QED BY <3>1 DEF RowLogged
  <2>3. CASE ledger'[i] = ledger[i]
    BY <1>1, <2>1, <2>3 DEF RowLogged, Final, Logged
  <2>4. ASSUME NEW t \in Threads, Complete(t), Holds(t), id(t) = i PROVE RowLogged(i)'
    <3>1. /\ ledger'[i].terminal_status = outcome[t]
          /\ ledger'[i].proposal_digest = proposal(t)
      BY <1>3, <2>4, CompleteKeepsRows DEF OwnersOK
    <3>2. Logged(OutcomeEvent(outcome[t]), proposal(t))
      BY <2>4 DEF AnnouncedOK, Announced, Complete
    <3> QED BY <1>1, <3>1, <3>2 DEF RowLogged, Logged
  <2> QED BY <2>2, <2>3, <2>4, LedgerSteps
<1>4. ASSUME ~UseLedger PROVE LedgerOff' /\ \A i \in ProposalIds : RowLogged(i)'
  <2>1. UNCHANGED ledger
    BY <1>4 DEF Next, Step, Identify, Decide, Authorize, CheckBudget, CheckQuorum,
         ValidateApproval, Reserve, ReportReplay, Journal, ConsumeApproval, RunTool, Verify,
         Complete, Return, Submit, Raise, Crash, Revoke, Expire, Reading, authority, vars
  <2> QED BY <1>4, <2>1 DEF JournalOK, LedgerOff, RowLogged, Final
<1> QED BY <1>2, <1>3, <1>4 DEF JournalOK, LedgerOff

(* The journal runs ahead of the world, for any number of calls and        *)
(* whatever fails between two steps: no effect without the events that     *)
(* announce it, no settled row without the event that explains it.         *)
THEOREM JournalRunsAhead == Spec => []EffectIsJournaled
<1>1. Init => OwnersOK /\ QuorateOK /\ AnnouncedOK /\ JournalOK
  <2>1. Init => OwnersOK
    BY DEF Init, OwnersOK, Holds, Reserved, HoldingSteps
  <2>2. Init => QuorateOK /\ AnnouncedOK
    BY DEF Init, QuorateOK, Quorate, AnnouncedOK, Announced, LoopDone, HoldingSteps
  <2>3. Init => JournalOK
    BY DEF Init, JournalOK, EffectLogged, RowLogged, Final, LedgerOff
  <2> QED BY <2>1, <2>2, <2>3
<1>2. JournalOK => EffectIsJournaled
  BY ProposalsAssumption
     DEF JournalOK, EffectLogged, RowLogged, Final, Logged, EffectIsJournaled, Recorded, Row
<1> QED
  BY <1>1, <1>2, InitTypeInv, NextTypeInv, NextOwner, NextQuorate, NextAnnounced,
     NextJournal, PTL DEF Spec

----------------------------------------------------------------------------
(* What a client is told *)

(* The reply that a call is about to give, and the row it is about. *)
Answered(t) ==
    /\ pc[t] = "report" => Row(proposal(t)) # NoRow
    /\ pc[t] = "reply" =>
        /\ outcome[t] \in {"completed", "verification_failed", "failed"} =>
              Recorded(proposal(t)) /\ Row(proposal(t)).terminal_status = outcome[t]
        /\ outcome[t] = "execution_replay_blocked" => Final(id(t))
        /\ outcome[t] = "execution_in_doubt" => Row(proposal(t)) # NoRow

AnsweredOK == \A t \in Threads : Answered(t)

(* What was true of the row when the reply was made stays true of it.      *)
LEMMA AnswerStays ==
    ASSUME TypeInv, OwnersOK, [Next]_vars, NEW t \in Threads, Answered(t),
           pc'[t] = pc[t], call'[t] = call[t], outcome'[t] = outcome[t]
    PROVE  Answered(t)'
<1>1. CASE pc[t] \notin {"report", "reply"}
  BY <1>1 DEF Answered
<1>2. CASE pc[t] \in {"report", "reply"}
  <2> DEFINE i == id(t)
  <2>1. i \in ProposalIds /\ id(t)' = i /\ proposal(t)' = proposal(t)
    BY <1>2, CallTypes DEF TypeInv, id, proposal
  <2>2. ledger[i] # NoRow => ledger'[i] # NoRow
    BY <2>1, LedgerSteps
  <2>3. Final(i) => ledger'[i] = ledger[i]
    <3>1. \A u \in Threads : Holds(u) /\ id(u) = i => ~Final(i)
      BY DEF Final, OwnersOK, Reserved
    <3> QED BY <2>1, <3>1, LedgerSteps DEF Final
  <2>4. Recorded(proposal(t)) /\ ledger[i].terminal_status \in Terminal => Final(i)
    BY <2>1 DEF TypeInv, TypeOK, Recorded, Row, Rows, Terminal, Final, id
  <2>5. /\ Row(proposal(t)) = ledger[i] /\ Row(proposal(t))' = ledger'[i]
        /\ {"completed", "verification_failed", "failed"} \subseteq Terminal
    BY <2>1 DEF Row, id, Terminal
  <2> QED BY <2>1, <2>2, <2>3, <2>4, <2>5 DEF Answered, Recorded, Final
<1> QED BY <1>1, <1>2

(* A refusal, an exception or an end says nothing of a row.                *)
LEMMA NoAnswer ==
    ASSUME NEW t \in Threads,
           \/ pc'[t] \notin {"report", "reply"}
           \/ pc'[t] = "reply" /\ outcome'[t] \in
                 Refusals \ {"execution_replay_blocked", "execution_in_doubt"}
           \/ pc'[t] = "reply" /\ outcome'[t] = "approval_rejected"
    PROVE  Answered(t)'
BY DEF Answered, Refusals

(* The three steps that answer from the ledger. *)
LEMMA LedgerAnswers ==
    ASSUME UseLedger, TypeInv, OwnersOK, AnsweredOK, NEW t \in Threads,
           Reserve(t) \/ ReportReplay(t) \/ Complete(t)
    PROVE  Answered(t)'
<1>1. /\ UNCHANGED call /\ Answered(t) /\ id(t) \in ProposalIds
      /\ proposal(t) \in Proposals
  BY CallTypes DEF AnsweredOK, TypeInv, Reserve, ReportReplay, Complete, Reading
<1>2. id(t)' = id(t) /\ proposal(t)' = proposal(t) /\ id(t) = proposal(t).proposal_id
  BY <1>1 DEF id, proposal
<1>3. CASE Reserve(t)
  <2>1. CASE CanReserve(proposal(t))
    <3>1. pc'[t] = "log_reserved"
      BY <1>3, <2>1 DEF Reserve, Goto, TypeInv, TypeOK
    <3> QED BY <3>1, NoAnswer
  <2>2. CASE ~CanReserve(proposal(t))
    <3>1. pc'[t] = "report" /\ UNCHANGED ledger
      BY <1>3, <2>2 DEF Reserve, Goto, TypeInv, TypeOK
    <3> QED BY <1>2, <2>2, <3>1 DEF CanReserve, Answered, Row
  <2> QED BY <2>1, <2>2
<1>4. CASE ReportReplay(t)
  <2> DEFINE row == ledger[id(t)]
  <2>1. /\ pc[t] = "report" /\ pc'[t] = "reply" /\ UNCHANGED ledger
        /\ outcome'[t] = ReplayStatus(row)
    BY <1>4 DEF ReportReplay, Reading, authority, Reply, Goto, TypeInv, TypeOK
  <2>2. row # NoRow /\ row \in Rows
    BY <1>1, <1>2, <2>1 DEF Answered, Row, TypeInv, TypeOK
  <2>3. row.state \in {"reserved", "terminal"}
    BY <2>2 DEF Rows
  <2>4. CASE row.state = "reserved"
    BY <1>2, <2>1, <2>2, <2>4 DEF ReplayStatus, Answered, Row
  <2>5. CASE row.state = "terminal"
    BY <1>2, <2>1, <2>2, <2>3, <2>5 DEF ReplayStatus, Answered, Final
  <2> QED BY <2>3, <2>4, <2>5
<1>5. CASE Complete(t)
  <2>1. /\ pc'[t] = "reply" /\ UNCHANGED outcome /\ outcome[t] \in Terminal
        /\ Holds(t) /\ ledger'[id(t)].terminal_status = outcome[t]
        /\ Recorded(proposal(t))'
    <3>1. Recorded(proposal(t)) /\ Holds(t)
      BY <1>5, CompleteKeepsRows, HolderRecorded
    <3>2. Recorded(proposal(t))'
      BY <1>1, <1>2, <1>5, <3>1, CompleteKeepsRows DEF Recorded, Row
    <3> QED
      BY <1>5, <3>1, <3>2, CompleteKeepsRows DEF Complete, Goto, TypeInv, TypeOK, CallsOK
  <2> QED BY <1>2, <2>1 DEF Answered, Row, Terminal
<1> QED BY <1>3, <1>4, <1>5

LEMMA NextAnswered ==
    ASSUME UseLedger
    PROVE  TypeInv /\ OwnersOK /\ AnsweredOK /\ [Next]_vars => AnsweredOK'
<1> SUFFICES ASSUME TypeInv, OwnersOK, AnsweredOK, [Next]_vars, NEW u \in Threads
             PROVE  Answered(u)'
  BY DEF AnsweredOK
<1>1. ASSUME pc'[u] = pc[u], call'[u] = call[u], outcome'[u] = outcome[u]
      PROVE  Answered(u)'
  BY <1>1, AnswerStays DEF AnsweredOK
<1>2. ASSUME NEW t \in Threads, t # u,
             Step(t) \/ Raise(t) \/ \E r \in Requests : Submit(t, r)
      PROVE  Answered(u)'
  BY <1>1, <1>2, OthersStand
<1>3. CASE Identify(u) \/ Decide(u) \/ Authorize(u) \/ CheckBudget(u)
  <2>1. \/ pc'[u] \notin {"report", "reply"}
        \/ pc'[u] = "reply" /\ outcome'[u] \in
              Refusals \ {"execution_replay_blocked", "execution_in_doubt"}
    BY <1>3 DEF Identify, Decide, Authorize, CheckBudget, Reply, Goto, Refusals,
                TypeInv, TypeOK
  <2> QED BY <2>1, NoAnswer
<1>4. CASE CheckQuorum(u) \/ ValidateApproval(u)
  <2>1. \/ pc'[u] \notin {"report", "reply"}
        \/ pc'[u] = "reply" /\ outcome'[u] \in {"approval_required", "approval_rejected"}
    BY <1>4 DEF CheckQuorum, ValidateApproval, Reply, Goto, TypeInv, TypeOK
  <2> QED BY <2>1, NoAnswer DEF Refusals
<1>5. CASE Reserve(u) \/ ReportReplay(u) \/ Complete(u)
  BY <1>5, LedgerAnswers
<1>6. CASE Journal(u) \/ ConsumeApproval(u) \/ RunTool(u) \/ Verify(u)
  <2>1. pc'[u] \notin {"report", "reply"}
    BY <1>6 DEF Journal, ConsumeApproval, RunTool, Verify, AfterReservation, AfterOutcome,
                Goto, TypeInv, TypeOK
  <2> QED BY <2>1, NoAnswer
<1>7. CASE Return(u) \/ Raise(u) \/ \E r \in Requests : Submit(u, r)
  <2>1. pc'[u] \notin {"report", "reply"} \/ (pc'[u] = "reply" /\ outcome'[u] = "error")
    BY <1>7 DEF Return, Raise, Submit, Reply, Goto, TypeInv, TypeOK
  <2> QED BY <2>1, NoAnswer DEF Refusals
<1>8. ASSUME NEW S \in SUBSET Threads, Crash(S) PROVE Answered(u)'
  <2>1. \/ pc'[u] = "idle"
        \/ pc'[u] = pc[u] /\ call'[u] = call[u] /\ outcome'[u] = outcome[u]
    BY <1>8 DEF Crash
  <2> QED BY <1>1, <2>1, NoAnswer
<1>9. CASE \/ \E token \in Revocable : Revoke(token)
           \/ \E credential \in Perishable : Expire(credential)
           \/ UNCHANGED vars
  BY <1>1, <1>9 DEF Revoke, Expire, locals, vars
<1> QED
  BY <1>2, <1>3, <1>4, <1>5, <1>6, <1>7, <1>8, <1>9 DEF Next, Step

(* With the ledger on, no reply contradicts the row it was made from, until*)
(* the moment it leaves the gateway, however many calls go on meanwhile.   *)
THEOREM RepliesAreTrue ==
    ASSUME UseLedger
    PROVE  Spec => []ReplyMatchesLedger
<1>1. Init => AnsweredOK
  BY DEF Init, AnsweredOK, Answered
<1>2. AnsweredOK => ReplyMatchesLedger
  BY DEF AnsweredOK, Answered, ReplyMatchesLedger, Final, Row, id
<1> QED
  BY <1>1, <1>2, EffectsInvariant, NextAnswered, PTL DEF Spec

----------------------------------------------------------------------------
(* Counting *)

(* The image of a finite set has at most as many elements, and as many     *)
(* when different elements have different images.                          *)
LEMMA ImageCount ==
    ASSUME NEW S, IsFiniteSet(S), NEW T, NEW f \in [S -> T],
           \A y \in T : \E x \in S : f[x] = y
    PROVE  /\ IsFiniteSet(T) /\ Cardinality(T) <= Cardinality(S)
           /\ (\A x, y \in S : f[x] = f[y] => x = y) => Cardinality(T) = Cardinality(S)
<1>1. f \in Surjection(S, T)
  BY Fun_IsSurj
<1>2. (\A x, y \in S : f[x] = f[y] => x = y) => f \in Injection(S, T)
  BY Fun_IsInj
<1> QED BY <1>1, <1>2, FS_Surjection

(* Approvals by different people are as many approvals, and as many people,*)
(* as there are positions in the list.                                     *)
LEMMA IndependentCount ==
    ASSUME NEW s \in Seq(Approvals), Independent(s)
    PROVE  LET people == {a.approver : a \in Elements(s)} IN
           /\ IsFiniteSet(Elements(s)) /\ Cardinality(Elements(s)) = Len(s)
           /\ IsFiniteSet(people) /\ Cardinality(people) = Len(s)
<1> DEFINE places == 1..Len(s)
           people == {a.approver : a \in Elements(s)}
           item_at == [k \in places |-> s[k]]
           person_at == [k \in places |-> s[k].approver]
<1>1. /\ DOMAIN s = places /\ Len(s) \in Nat
      /\ IsFiniteSet(places) /\ Cardinality(places) = Len(s)
  BY LenProperties, FS_Interval
<1>2. /\ IsFiniteSet(Elements(s)) /\ Cardinality(Elements(s)) = Len(s)
  <2>1. item_at \in [places -> Elements(s)]
    BY <1>1 DEF Elements
  <2>2. \A y \in Elements(s) : \E x \in places : item_at[x] = y
    BY <1>1 DEF Elements
  <2>3. \A x, y \in places : item_at[x] = item_at[y] => x = y
    BY <1>1 DEF Independent
  <2> HIDE DEF item_at
  <2> QED BY <1>1, <2>1, <2>2, <2>3, ImageCount
<1>3. IsFiniteSet(people) /\ Cardinality(people) = Len(s)
  <2>1. person_at \in [places -> people]
    BY <1>1 DEF Elements
  <2>2. \A y \in people : \E x \in places : person_at[x] = y
    BY <1>1 DEF Elements
  <2>3. \A x, y \in places : person_at[x] = person_at[y] => x = y
    BY <1>1 DEF Independent
  <2> HIDE DEF person_at, people
  <2> QED BY <1>1, <2>1, <2>2, <2>3, ImageCount
<1> QED BY <1>2, <1>3

(* Disjoint parts of a finite set add up. *)
LEMMA PartsAddUp ==
    ASSUME NEW W, IsFiniteSet(W), NEW U \in SUBSET W, NEW V \in SUBSET W, U \cap V = {}
    PROVE  /\ Cardinality(U) \in Nat /\ Cardinality(V) \in Nat /\ Cardinality(W) \in Nat
           /\ Cardinality(U) + Cardinality(V) <= Cardinality(W)
<1>1. /\ IsFiniteSet(U) /\ IsFiniteSet(V) /\ IsFiniteSet(U \cup V)
      /\ Cardinality(U \cup V) <= Cardinality(W)
  BY FS_Subset
<1>2. /\ Cardinality(U) \in Nat /\ Cardinality(V) \in Nat /\ Cardinality(W) \in Nat
      /\ Cardinality(U \cup V) \in Nat
  BY <1>1, FS_CardinalityType
<1>3. Cardinality(U \cup V) = Cardinality(U) + Cardinality(V)
  <2>1. Cardinality(U \cup V) = Cardinality(U) + Cardinality(V) - Cardinality(U \cap V)
    BY <1>1, FS_Union
  <2>2. Cardinality(U \cap V) = 0
    BY FS_EmptySet
  <2> QED BY <1>2, <2>1, <2>2
<1> QED BY <1>1, <1>2, <1>3

----------------------------------------------------------------------------
(* What an effect was paid with *)

(* The approvals a call has consumed and may still act on. *)
InHand(t) ==
    IF pc[t] = "consume" THEN {approvals(t)[k] : k \in 1..(item[t] - 1)}
    ELSE IF pc[t] \in {"log_accepted", "log_charged", "tool"} THEN Elements(approvals(t))
    ELSE {}

(* The approvals of p that no call can act on any more: each of them was   *)
(* used for an effect, or lost with the call that had it.                  *)
Unheld(p) == {a \in spent : a.proposal_digest = p /\ \A t \in Threads : a \notin InHand(t)}
People(p) == {a.approver : a \in {b \in spent : b.proposal_digest = p}} \ {Blank}

(* The consumed ids and the approvals behind them are one to one. *)
ConsumedOK ==
    /\ IsFiniteSet(spent)
    /\ consumed = {a.approval_id : a \in spent}
    /\ \A a, b \in spent : a.approval_id = b.approval_id => a = b

(* No approval is in two hands. *)
HandsOK ==
    /\ \A t \in Threads : InHand(t) \subseteq spent
    /\ \A t, u \in Threads : t # u => InHand(t) \cap InHand(u) = {}

PaymentsOK ==
    \A p \in Proposals : NeedsApproval(p) =>
        /\ Cardinality(Unheld(p)) >= Quorum * effects[p]
        /\ effects[p] > 0 => Cardinality(People(p)) >= Quorum

PaidOK == ConsumedOK /\ HandsOK /\ PaymentsOK

(* The sets that are counted are finite. *)
LEMMA CountedSets ==
    ASSUME IsFiniteSet(spent), NEW p
    PROVE  /\ IsFiniteSet(Unheld(p)) /\ Cardinality(Unheld(p)) \in Nat
           /\ IsFiniteSet(People(p)) /\ Cardinality(People(p)) \in Nat
<1> DEFINE own == {a \in spent : a.proposal_digest = p}
           people == {a.approver : a \in own}
           person == [a \in own |-> a.approver]
<1>1. IsFiniteSet(Unheld(p)) /\ IsFiniteSet(own)
  <2>1. Unheld(p) \subseteq spent /\ own \subseteq spent
    BY DEF Unheld
  <2> QED BY <2>1, FS_Subset
<1>2. IsFiniteSet(people)
  <2>1. person \in [own -> people] /\ \A y \in people : \E x \in own : person[x] = y
    OBVIOUS
  <2> HIDE DEF person, people, own
  <2> QED BY <1>1, <2>1, ImageCount
<1>3. IsFiniteSet(People(p))
  <2>1. People(p) \subseteq people
    BY DEF People
  <2> QED BY <1>2, <2>1, FS_Subset
<1> QED BY <1>1, <1>3, FS_CardinalityType

(* The counts grow with the sets.                                          *)
LEMMA PaymentStays ==
    ASSUME IsFiniteSet(spent'), NEW p, Unheld(p) \subseteq Unheld(p)', spent \subseteq spent'
    PROVE  /\ Cardinality(Unheld(p)) <= Cardinality(Unheld(p)')
           /\ Cardinality(People(p)) <= Cardinality(People(p)')
           /\ Cardinality(Unheld(p)) \in Nat /\ Cardinality(Unheld(p)') \in Nat
           /\ Cardinality(People(p)) \in Nat /\ Cardinality(People(p)') \in Nat
<1>1. IsFiniteSet(spent)
  BY FS_Subset
<1>2. /\ IsFiniteSet(Unheld(p)') /\ Cardinality(Unheld(p)') \in Nat
      /\ IsFiniteSet(People(p)') /\ Cardinality(People(p)') \in Nat
  <2> DEFINE unheld == {a \in spent' : a.proposal_digest = p
                                       /\ \A t \in Threads : a \notin InHand(t)'}
             own == {a \in spent' : a.proposal_digest = p}
             people == {a.approver : a \in own}
             person == [a \in own |-> a.approver]
  <2>1. unheld \subseteq spent' /\ own \subseteq spent'
    OBVIOUS
  <2>2. IsFiniteSet(unheld) /\ IsFiniteSet(own)
    BY <2>1, FS_Subset
  <2>3. IsFiniteSet(people)
    <3>1. person \in [own -> people] /\ \A y \in people : \E x \in own : person[x] = y
      OBVIOUS
    <3> HIDE DEF person, people, own
    <3> QED BY <2>2, <3>1, ImageCount
  <2>4. Unheld(p)' = unheld /\ People(p)' \subseteq people
    BY DEF Unheld, People
  <2> QED BY <2>2, <2>3, <2>4, FS_Subset, FS_CardinalityType
<1>3. People(p) \subseteq People(p)'
  BY DEF People
<1> QED BY <1>1, <1>2, <1>3, CountedSets, FS_Subset

(* What was paid for stays paid for when no hand takes back an approval.    *)
LEMMA StillPaid ==
    ASSUME TypeInv, PaidOK, IsFiniteSet(spent'), spent \subseteq spent',
           NEW p \in Proposals, NeedsApproval(p), Unheld(p) \subseteq Unheld(p)'
    PROVE  /\ Cardinality(Unheld(p)') >= Quorum * effects[p]
           /\ effects[p] > 0 => Cardinality(People(p)') >= Quorum
<1> DEFINE price == Quorum * effects[p]
<1>1. /\ Quorum \in Nat /\ effects[p] \in Nat /\ price \in Nat
      /\ Cardinality(Unheld(p)) >= price
      /\ effects[p] > 0 => Cardinality(People(p)) >= Quorum
  BY ValuesAssumption DEF TypeInv, TypeOK, PaidOK, PaymentsOK
<1> HIDE DEF price
<1>2. /\ Cardinality(Unheld(p)') >= price
      /\ effects[p] > 0 => Cardinality(People(p)') >= Quorum
  BY <1>1, PaymentStays
<1> QED BY <1>2 DEF price

(* A step that spends nothing and lets no call gain an approval. *)
LEMMA PaidFrame ==
    ASSUME TypeInv, PaidOK, UNCHANGED <<spent, consumed, effects>>,
           \A u \in Threads : InHand(u)' \subseteq InHand(u)
    PROVE  PaidOK'
<1>1. ConsumedOK'
  BY DEF PaidOK, ConsumedOK
<1>2. HandsOK'
  BY DEF PaidOK, HandsOK
<1>3. ASSUME NEW p \in Proposals, NeedsApproval(p)
      PROVE  /\ Cardinality(Unheld(p)') >= Quorum * effects[p]
             /\ effects[p] > 0 => Cardinality(People(p)') >= Quorum
  <2>1. Unheld(p) \subseteq Unheld(p)' /\ IsFiniteSet(spent') /\ spent \subseteq spent'
    BY <1>1 DEF Unheld, ConsumedOK
  <2> QED BY <1>3, <2>1, StillPaid
<1> QED BY <1>1, <1>2, <1>3 DEF PaidOK, PaymentsOK, NeedsApproval

(* The hand of a call depends on its own variables only.                   *)
LEMMA SameHand ==
    ASSUME NEW t \in Threads, pc'[t] = pc[t], call'[t] = call[t], item'[t] = item[t]
    PROVE  InHand(t)' = InHand(t)
<1>1. approvals(t)' = approvals(t)
  BY DEF approvals, proposal
<1> QED BY <1>1 DEF InHand

(* Consuming: the new approval goes from nobody's to this call's hand.     *)
LEMMA ConsumePaid ==
    ASSUME TypeInv, PaidOK, NEW t \in Threads, ConsumeApproval(t)
    PROVE  PaidOK'
<1> DEFINE s == approvals(t)
           a == s[item[t]]
<1>1. /\ pc[t] = "consume" /\ item[t] \in DOMAIN s /\ s \in Seq(Approvals)
      /\ UNCHANGED <<call, effects>>
  BY CallTypes DEF ConsumeApproval, TypeInv, TypeOK
<1>2. /\ DOMAIN s = 1..Len(s) /\ Len(s) \in Nat /\ a \in Approvals
      /\ item[t] \in 1..Len(s) /\ approvals(t)' = s
  BY <1>1, LenProperties, ElementOfSeq DEF approvals, proposal
<1>3. \A u \in Threads : u # t => InHand(u)' = InHand(u)
  BY OthersStand, SameHand DEF Step
<1>4. CASE Taken(a)
  <2>1. pc'[t] = "log_outcome" /\ UNCHANGED <<spent, consumed, effects>>
    BY <1>1, <1>4 DEF ConsumeApproval, Goto, TypeInv, TypeOK
  <2>2. InHand(t)' = {}
    BY <2>1 DEF InHand
  <2> QED BY <1>3, <2>1, <2>2, PaidFrame
<1>5. CASE ~Taken(a)
  <2>1. consumed' = consumed \cup {a.approval_id} /\ spent' = spent \cup {a}
    BY <1>1, <1>5 DEF ConsumeApproval
  <2>2. /\ a \notin spent /\ IsFiniteSet(spent)
        /\ \A b \in spent : b.approval_id # a.approval_id
    BY <1>5 DEF Taken, PaidOK, ConsumedOK
  <2>3. ConsumedOK'
    <3>1. IsFiniteSet(spent')
      BY <2>1, <2>2, FS_AddElement
    <3>2. consumed' = {b.approval_id : b \in spent'}
      BY <2>1 DEF PaidOK, ConsumedOK
    <3>3. \A b, c \in spent' : b.approval_id = c.approval_id => b = c
      BY <2>1, <2>2 DEF PaidOK, ConsumedOK
    <3> QED BY <3>1, <3>2, <3>3 DEF ConsumedOK
  <2>4. InHand(t) = {s[k] : k \in 1..(item[t] - 1)}
    BY <1>1 DEF InHand
  <2>5. InHand(t)' = InHand(t) \cup {a}
    <3>1. CASE More(t)
      <4>1. pc'[t] = "consume" /\ item'[t] = item[t] + 1
        BY <1>1, <1>5, <3>1 DEF ConsumeApproval, NextItem, TypeInv, TypeOK
      <4>2. InHand(t)' = {s[k] : k \in 1..((item[t] + 1) - 1)}
        BY <1>2, <4>1 DEF InHand
      <4>3. 1..((item[t] + 1) - 1) = 1..(item[t] - 1) \cup {item[t]}
        BY <1>2
      <4> QED BY <2>4, <4>2, <4>3
    <3>2. CASE ~More(t)
      <4>1. pc'[t] = "log_accepted"
        BY <1>1, <1>5, <3>2 DEF ConsumeApproval, Goto, TypeInv, TypeOK
      <4>2. InHand(t)' = {s[k] : k \in 1..Len(s)}
        BY <1>2, <4>1 DEF InHand, Elements
      <4>3. 1..Len(s) = 1..(item[t] - 1) \cup {item[t]}
        BY <1>2, <3>2 DEF More
      <4> QED BY <2>4, <4>2, <4>3
    <3> QED BY <3>1, <3>2
  <2>6. HandsOK'
    <3>1. \A u \in Threads : InHand(u)' \subseteq spent'
      BY <1>3, <2>1, <2>5 DEF PaidOK, HandsOK
    <3>2. \A u \in Threads : a \notin InHand(u)
      BY <2>2 DEF PaidOK, HandsOK
    <3>3. \A u, v \in Threads : u # v => InHand(u)' \cap InHand(v)' = {}
      BY <1>3, <2>5, <3>2 DEF PaidOK, HandsOK
    <3> QED BY <3>1, <3>3 DEF HandsOK
  <2>7. ASSUME NEW p \in Proposals, NeedsApproval(p)
        PROVE  /\ Cardinality(Unheld(p)') >= Quorum * effects[p]
               /\ effects[p] > 0 => Cardinality(People(p)') >= Quorum
    <3>1. Unheld(p) \subseteq Unheld(p)' /\ IsFiniteSet(spent') /\ spent \subseteq spent'
      <4>1. \A u \in Threads : InHand(u)' \subseteq InHand(u) \cup {a}
        BY <1>3, <2>5
      <4> QED BY <2>1, <2>2, <2>3, <4>1 DEF Unheld, ConsumedOK
    <3> QED BY <2>7, <3>1, StillPaid
  <2> QED BY <1>1, <2>3, <2>6, <2>7 DEF PaidOK, PaymentsOK, NeedsApproval
<1> QED BY <1>4, <1>5

(* The approvals in the hand of a call that runs its tool are a quorum of  *)
(* approvals of its proposal, by as many people.                           *)
LEMMA FullHand ==
    ASSUME TypeInv, MatchedOK, QuorateOK, PaidOK, NEW t \in Threads, pc[t] = "tool",
           NeedsApproval(proposal(t))
    PROVE  /\ \A a \in InHand(t) : Approves(a, proposal(t))
           /\ Cardinality(InHand(t)) >= Quorum
           /\ Cardinality(People(proposal(t))) >= Quorum
<1> DEFINE s == approvals(t)
           p == proposal(t)
           givers == {a.approver : a \in Elements(s)}
<1>1. /\ s \in Seq(Approvals) /\ DOMAIN s = 1..Len(s) /\ Len(s) \in Nat
      /\ Len(s) >= Quorum /\ Independent(s) /\ Quorum \in Nat
  BY CallTypes, LenProperties, ValuesAssumption
     DEF TypeInv, QuorateOK, Quorate, LoopDone, HoldingSteps
<1>2. InHand(t) = Elements(s) /\ Elements(s) \subseteq spent
  BY DEF InHand, PaidOK, HandsOK
<1>3. \A k \in DOMAIN s : Approves(s[k], p)
  BY DEF MatchedOK, Matched, HoldingSteps
<1>4. \A a \in Elements(s) : Approves(a, p)
  BY <1>3 DEF Elements
<1>5. /\ Cardinality(Elements(s)) = Len(s)
      /\ IsFiniteSet(givers) /\ Cardinality(givers) = Len(s)
  BY <1>1, IndependentCount
<1>6. givers \subseteq People(p)
  BY <1>2, <1>4 DEF Approves, People
<1>7. IsFiniteSet(People(p)) /\ Cardinality(People(p)) \in Nat
  BY CountedSets DEF PaidOK, ConsumedOK
<1>8. Cardinality(givers) <= Cardinality(People(p))
  BY <1>6, <1>7, FS_Subset
<1> QED BY <1>1, <1>2, <1>4, <1>5, <1>7, <1>8

(* The effect: the approvals in the hand of the call become its price.     *)
LEMMA ToolPaid ==
    ASSUME TypeInv, MatchedOK, QuorateOK, PaidOK, NEW t \in Threads, RunTool(t)
    PROVE  PaidOK'
<1> DEFINE p == proposal(t)
           hand == InHand(t)
<1>1. /\ pc[t] = "tool" /\ p \in Proposals /\ UNCHANGED <<spent, consumed>>
      /\ pc'[t] \in {"verify", "log_outcome"}
  BY CallTypes DEF RunTool, authority, Goto, TypeInv, TypeOK
<1>2. InHand(t)' = {} /\ \A u \in Threads : u # t => InHand(u)' = InHand(u)
  BY <1>1, OthersStand, SameHand DEF InHand, Step
<1>3. CASE UNCHANGED effects
  BY <1>1, <1>2, <1>3, PaidFrame
<1>4. CASE effects' = [effects EXCEPT ![p] = @ + 1]
  <2>1. ConsumedOK' /\ HandsOK'
    BY <1>1, <1>2 DEF PaidOK, ConsumedOK, HandsOK
  <2>2. ASSUME NEW q \in Proposals, NeedsApproval(q)
        PROVE  /\ Cardinality(Unheld(q)') >= Quorum * effects'[q]
               /\ effects'[q] > 0 => Cardinality(People(q)') >= Quorum
    <3>1. /\ Unheld(q) \subseteq Unheld(q)' /\ IsFiniteSet(spent') /\ UNCHANGED spent
      BY <1>1, <1>2, <2>1 DEF Unheld, ConsumedOK
    <3>2. /\ Cardinality(Unheld(q)') >= Quorum * effects[q]
          /\ effects[q] > 0 => Cardinality(People(q)') >= Quorum
      BY <2>2, <3>1, StillPaid
    <3>3. CASE q # p
      <4>1. effects'[q] = effects[q]
        BY <1>4, <3>3
      <4> QED BY <3>2, <4>1
    <3>4. CASE q = p
      <4>1. /\ \A a \in hand : Approves(a, q)
            /\ Cardinality(hand) >= Quorum /\ Cardinality(People(q)) >= Quorum
        BY <1>1, <2>2, <3>4, FullHand DEF NeedsApproval
      <4>2. hand \subseteq Unheld(q)' /\ Unheld(q) \cap hand = {}
        <5>1. hand \subseteq spent
          BY DEF PaidOK, HandsOK
        <5>2. \A u \in Threads : hand \cap InHand(u)' = {}
          BY <1>2 DEF PaidOK, HandsOK
        <5> QED BY <1>1, <4>1, <5>1, <5>2 DEF Unheld, Approves
      <4>3. IsFiniteSet(Unheld(q)')
        <5>1. Unheld(q)' \subseteq spent'
          BY DEF Unheld
        <5> QED BY <3>1, <5>1, FS_Subset
      <4>4. /\ Cardinality(Unheld(q)) \in Nat /\ Cardinality(hand) \in Nat
            /\ Cardinality(Unheld(q)') \in Nat
            /\ Cardinality(Unheld(q)) + Cardinality(hand) <= Cardinality(Unheld(q)')
        BY <3>1, <4>2, <4>3, PartsAddUp
      <4>5. /\ Quorum \in Nat /\ effects[q] \in Nat /\ effects'[q] = effects[q] + 1
            /\ Cardinality(Unheld(q)) >= Quorum * effects[q]
        BY <1>1, <1>4, <2>2, <3>4, ValuesAssumption DEF TypeInv, TypeOK, PaidOK, PaymentsOK
      <4>6. Quorum * effects'[q] = Quorum * effects[q] + Quorum /\ Quorum * effects[q] \in Nat
        BY <4>5
      <4>7. Cardinality(Unheld(q)') >= Quorum * effects'[q]
        <5> DEFINE before == Quorum * effects[q]
                   after == Quorum * effects'[q]
        <5>1. /\ before \in Nat /\ after = before + Quorum
              /\ Cardinality(Unheld(q)) >= before
          BY <4>5, <4>6
        <5> HIDE DEF before, after
        <5>2. Cardinality(Unheld(q)') >= after
          BY <4>1, <4>4, <4>5, <5>1
        <5> QED BY <5>2 DEF after
      <4>8. People(q)' = People(q)
        BY <3>1 DEF People
      <4> QED BY <4>1, <4>7, <4>8
    <3> QED BY <3>3, <3>4
  <2> QED BY <2>1, <2>2 DEF PaidOK, PaymentsOK, NeedsApproval
<1> QED BY <1>3, <1>4 DEF RunTool

(* A call that has not started to consume holds nothing.                   *)
LEMMA FreshHand ==
    ASSUME NEW t \in Threads, item'[t] = 1,
           \/ pc'[t] \notin {"log_accepted", "log_charged", "tool"}
           \/ pc'[t] = "log_charged" /\ approvals(t)' = <<>>
    PROVE  InHand(t)' = {}
<1>1. CASE pc'[t] = "consume"
  <2>1. 1..(1 - 1) = {}
    OBVIOUS
  <2> QED BY <1>1, <2>1 DEF InHand
<1>2. CASE pc'[t] = "log_charged" /\ approvals(t)' = <<>>
  BY <1>2 DEF InHand, Elements
<1> QED BY <1>1, <1>2 DEF InHand

LEMMA NextPaid ==
    TypeInv /\ MatchedOK /\ QuorateOK /\ PaidOK /\ [Next]_vars => PaidOK'
<1> SUFFICES ASSUME TypeInv, MatchedOK, QuorateOK, PaidOK, [Next]_vars
             PROVE  PaidOK'
  OBVIOUS
<1>1. ASSUME NEW t \in Threads, Step(t) \/ Raise(t) \/ \E r \in Requests : Submit(t, r),
             InHand(t)' \subseteq InHand(t), UNCHANGED <<spent, consumed, effects>>
      PROVE  PaidOK'
  <2>1. \A u \in Threads : u # t => InHand(u)' = InHand(u)
    BY <1>1, OthersStand, SameHand
  <2> QED BY <1>1, <2>1, PaidFrame
<1>2. ASSUME NEW t \in Threads,
             \/ Identify(t) \/ Decide(t) \/ Authorize(t) \/ CheckBudget(t) \/ CheckQuorum(t)
             \/ ValidateApproval(t) \/ ReportReplay(t) \/ Verify(t) \/ Complete(t) \/ Return(t)
             \/ Raise(t) \/ \E r \in Requests : Submit(t, r)
      PROVE  PaidOK'
  <2>1. CASE Identify(t) \/ Decide(t) \/ Authorize(t) \/ CheckBudget(t) \/ CheckQuorum(t)
             \/ ValidateApproval(t) \/ ReportReplay(t) \/ Verify(t)
    <3>1. /\ pc'[t] \notin {"consume", "log_accepted", "log_charged", "tool"}
          /\ UNCHANGED <<spent, consumed, effects>>
      BY <2>1 DEF Identify, Decide, Authorize, CheckBudget, CheckQuorum, ValidateApproval,
                  ReportReplay, Verify, Reading, authority, Reply, Goto, TypeInv, TypeOK
    <3> QED BY <1>1, <2>1, <3>1 DEF InHand, Step
  <2>2. CASE Complete(t) \/ Return(t) \/ Raise(t) \/ \E r \in Requests : Submit(t, r)
    <3>1. /\ pc'[t] \notin {"consume", "log_accepted", "log_charged", "tool"}
          /\ UNCHANGED <<spent, consumed, effects>>
      BY <2>2 DEF Complete, Return, Raise, Submit, authority, Reply, Goto, TypeInv, TypeOK
    <3> QED BY <1>1, <2>2, <3>1 DEF InHand, Step
  <2> QED BY <1>2, <2>1, <2>2
<1>3. ASSUME NEW t \in Threads, Reserve(t) PROVE PaidOK'
  <2>1. /\ approvals(t)' = approvals(t) /\ item[t] = 1 /\ UNCHANGED item
        /\ UNCHANGED <<spent, consumed, effects>>
        /\ \/ pc'[t] \in {"log_reserved", "report", "consume"}
           \/ pc'[t] = "log_charged" /\ approvals(t) = <<>>
    BY <1>3 DEF Reserve, AfterReservation, Goto, approvals, proposal, TypeInv, TypeOK, CallsOK
  <2>2. InHand(t)' = {}
    BY <2>1, FreshHand
  <2> QED BY <1>1, <1>3, <2>1, <2>2 DEF Step
<1>4. ASSUME NEW t \in Threads, Journal(t) PROVE PaidOK'
  <2>1. /\ approvals(t)' = approvals(t) /\ UNCHANGED item
        /\ UNCHANGED <<spent, consumed, effects>>
    BY <1>4 DEF Journal, authority, approvals, proposal
  <2>2. CASE pc[t] = "log_reserved"
    <3>1. /\ item[t] = 1
          /\ pc'[t] = "consume" \/ (pc'[t] = "log_charged" /\ approvals(t) = <<>>)
      BY <1>4, <2>2 DEF Journal, AfterReservation, Goto, TypeInv, TypeOK, CallsOK
    <3>2. InHand(t)' = {}
      BY <2>1, <3>1, FreshHand
    <3> QED BY <1>1, <1>4, <2>1, <3>2 DEF Step
  <2>3. CASE pc[t] # "log_reserved"
    <3>1. \/ pc[t] \in {"log_accepted", "log_charged"} /\ pc'[t] \in {"log_charged", "tool"}
          \/ pc'[t] = "complete"
      BY <1>4, <2>3 DEF Journal, AfterOutcome, Goto, TypeInv, TypeOK
    <3>2. InHand(t)' \subseteq InHand(t)
      BY <2>1, <3>1 DEF InHand
    <3> QED BY <1>1, <1>4, <2>1, <3>2 DEF Step
  <2> QED BY <2>2, <2>3
<1>5. ASSUME NEW S \in SUBSET Threads, Crash(S) PROVE PaidOK'
  <2>1. UNCHANGED <<spent, consumed, effects>>
    BY <1>5 DEF Crash, authority
  <2>2. ASSUME NEW u \in Threads PROVE InHand(u)' \subseteq InHand(u)
    <3>1. CASE u \in S
      <4>1. pc'[u] = "idle"
        BY <1>5, <3>1 DEF Crash
      <4> QED BY <4>1 DEF InHand
    <3>2. CASE u \notin S
      <4>1. pc'[u] = pc[u] /\ call'[u] = call[u] /\ item'[u] = item[u]
        BY <1>5, <3>2 DEF Crash
      <4> QED BY <4>1, SameHand
    <3> QED BY <3>1, <3>2
  <2> QED BY <2>1, <2>2, PaidFrame
<1>6. CASE \/ \E token \in Revocable : Revoke(token)
           \/ \E credential \in Perishable : Expire(credential)
           \/ UNCHANGED vars
  <2>1. UNCHANGED <<pc, call, item, spent, consumed, effects>>
    BY <1>6 DEF Revoke, Expire, locals, authority, vars
  <2>2. \A u \in Threads : InHand(u)' = InHand(u)
    BY <2>1, SameHand
  <2> QED BY <2>1, <2>2, PaidFrame
<1> QED
  BY <1>2, <1>3, <1>4, <1>5, <1>6, ConsumePaid, ToolPaid DEF Next, Step

(* Every effect of a proposal that needs approval is paid for with a full  *)
(* quorum of its own, of single-use approvals by as many people; this does *)
(* not depend on the execution ledger.                                     *)
THEOREM EffectsArePaid == Spec => []PaidByQuorum
<1>1. Init => MatchedOK /\ QuorateOK
  BY DEF Init, MatchedOK, Matched, QuorateOK, Quorate, LoopDone, HoldingSteps
<1>2. Init => PaidOK
  <2> SUFFICES ASSUME Init PROVE PaidOK
    OBVIOUS
  <2>1. \A t \in Threads : InHand(t) = {}
    BY DEF Init, InHand
  <2>2. IsFiniteSet(spent)
    BY FS_EmptySet DEF Init
  <2>3. ConsumedOK /\ HandsOK
    BY <2>1, <2>2 DEF Init, ConsumedOK, HandsOK
  <2>4. ASSUME NEW p \in Proposals
        PROVE  Cardinality(Unheld(p)) >= Quorum * effects[p] /\ effects[p] = 0
    <3>1. Unheld(p) = {} /\ effects[p] = 0
      BY DEF Init, Unheld
    <3>2. Cardinality(Unheld(p)) = 0 /\ Quorum * effects[p] = 0
      BY <3>1, FS_EmptySet, ValuesAssumption
    <3> QED BY <3>1, <3>2
  <2> QED BY <2>3, <2>4 DEF PaidOK, PaymentsOK
<1>3. TypeInv /\ PaidOK => PaidByQuorum
  <2> SUFFICES ASSUME TypeInv, PaidOK, NEW p \in Proposals, NeedsApproval(p), effects[p] > 0
               PROVE  LET own == {a \in spent : a.proposal_digest = p} IN
                      /\ Cardinality({a.approval_id : a \in own}) >= Quorum * effects[p]
                      /\ Cardinality({a.approver : a \in own} \ {Blank}) >= Quorum
    BY DEF PaidOK, ConsumedOK, PaidByQuorum
  <2> DEFINE own == {a \in spent : a.proposal_digest = p}
             ids == {a.approval_id : a \in own}
             id_of == [a \in own |-> a.approval_id]
             price == Quorum * effects[p]
  <2>1. /\ Cardinality(Unheld(p)) >= price /\ Cardinality(People(p)) >= Quorum
        /\ price \in Nat /\ Cardinality(Unheld(p)) \in Nat
    BY CountedSets, ValuesAssumption DEF PaidOK, PaymentsOK, ConsumedOK, TypeInv, TypeOK
  <2>2. own \subseteq spent /\ IsFiniteSet(own) /\ Unheld(p) \subseteq own
    BY FS_Subset DEF PaidOK, ConsumedOK, Unheld
  <2>3. Cardinality(Unheld(p)) <= Cardinality(own) /\ Cardinality(own) \in Nat
    BY <2>2, FS_Subset, FS_CardinalityType
  <2>4. Cardinality(ids) = Cardinality(own)
    <3>1. id_of \in [own -> ids] /\ \A y \in ids : \E x \in own : id_of[x] = y
      OBVIOUS
    <3>2. \A x, y \in own : id_of[x] = id_of[y] => x = y
      BY DEF PaidOK, ConsumedOK
    <3> HIDE DEF id_of, own, ids
    <3> QED BY <2>2, <3>1, <3>2, ImageCount
  <2>5. People(p) = {a.approver : a \in own} \ {Blank}
    BY DEF People
  <2> HIDE DEF price
  <2>6. Cardinality(ids) >= price
    BY <2>1, <2>3, <2>4
  <2> QED BY <2>1, <2>5, <2>6 DEF price
<1>4. TypeInv /\ MatchedOK /\ QuorateOK /\ PaidOK /\ [Next]_vars
         => (TypeInv /\ MatchedOK /\ QuorateOK /\ PaidOK)'
  BY NextTypeInv, NextMatched, NextQuorate, NextPaid
<1> QED
  BY <1>1, <1>2, <1>3, <1>4, InitTypeInv, PTL DEF Spec

----------------------------------------------------------------------------
(* Nothing acts around the checks *)

(* What a request has to bring, whatever becomes of its credentials later.  *)
Vouched(r)    == UseIdentities => r.identity # NoToken /\ r.proposal \in Scope[r.identity]
Covered(r)    == NeedsCapability(r.proposal) =>
                     r.capability # NoToken /\ r.proposal \in Scope[r.capability]
Approved(r)   == NeedsApproval(r.proposal) =>
                     /\ Len(r.approvals) >= Quorum /\ Independent(r.approvals)
                     /\ \A a \in Elements(r.approvals) : Approves(a, r.proposal)
Permitted(r)  == r.proposal.decision # "deny" /\ Vouched(r) /\ Covered(r) /\ Approved(r)

(* What a call has shown by the step it is at. *)
Budgeted == {"quorum", "validate"} \cup LoopDone
Cleared(t) ==
    /\ pc[t] \in {"decide", "authorize", "budget"} \cup Budgeted => Vouched(call[t])
    /\ pc[t] \in {"authorize", "budget"} \cup Budgeted => proposal(t).decision # "deny"
    /\ pc[t] \in {"budget"} \cup Budgeted => Covered(call[t])

ClearedOK == \A t \in Threads : Cleared(t)

(* A permitted request is behind every effect. *)
EveryEffectPermitted ==
    \A p \in Proposals : effects[p] > 0 =>
        \E r \in Requests : r.proposal = p /\ Permitted(r)

LEMMA NextCleared == TypeInv /\ ClearedOK /\ [Next]_vars => ClearedOK'
<1> SUFFICES ASSUME TypeInv, ClearedOK, [Next]_vars, NEW u \in Threads
             PROVE  Cleared(u)'
  BY DEF ClearedOK
<1>1. Cleared(u)
  BY DEF ClearedOK
<1>2. ASSUME call'[u] = call[u], pc'[u] = pc[u] \/ pc[u] \in Budgeted
      PROVE  Cleared(u)'
  BY <1>1, <1>2 DEF Cleared, proposal, Budgeted
<1>3. ASSUME pc'[u] \in {"idle", "identify", "reply", "report"}
      PROVE  Cleared(u)'
  BY <1>3 DEF Cleared, Budgeted, LoopDone, HoldingSteps
<1>4. ASSUME NEW t \in Threads, t # u,
             Step(t) \/ Raise(t) \/ \E r \in Requests : Submit(t, r)
      PROVE  Cleared(u)'
  BY <1>2, <1>4, OthersStand
<1>5. CASE Identify(u)
  <2>1. UNCHANGED call /\ (pc'[u] = "reply" \/ (pc'[u] = "decide" /\ Vouched(call[u])))
    BY <1>5 DEF Identify, Reading, Reply, Goto, Vouches, Vouched, proposal, TypeInv, TypeOK
  <2> QED BY <1>3, <2>1 DEF Cleared, Budgeted, LoopDone, HoldingSteps
<1>6. CASE Decide(u)
  <2>1. /\ UNCHANGED call /\ pc[u] = "decide"
        /\ pc'[u] = "reply" \/ (pc'[u] = "authorize" /\ proposal(u).decision # "deny")
    BY <1>6 DEF Decide, Reading, Reply, Goto, TypeInv, TypeOK
  <2> QED BY <1>1, <1>3, <2>1 DEF Cleared, proposal, Budgeted, LoopDone, HoldingSteps
<1>7. CASE Authorize(u)
  <2>1. /\ UNCHANGED call /\ pc[u] = "authorize"
        /\ pc'[u] = "reply" \/ (pc'[u] = "budget" /\ Covered(call[u]))
    BY <1>7 DEF Authorize, Reading, Reply, Goto, Covers, Covered, proposal, TypeInv, TypeOK
  <2> QED BY <1>1, <1>3, <2>1 DEF Cleared, proposal, Budgeted, LoopDone, HoldingSteps
<1>8. CASE CheckBudget(u)
  <2>1. /\ UNCHANGED call /\ pc[u] = "budget"
        /\ pc'[u] = "reply" \/ pc'[u] = "quorum"
    BY <1>8 DEF CheckBudget, Reading, Reply, Goto, TypeInv, TypeOK
  <2> QED BY <1>1, <1>3, <2>1 DEF Cleared, proposal, Budgeted
<1>9. CASE CheckQuorum(u) \/ ValidateApproval(u)
  BY <1>2, <1>9 DEF CheckQuorum, ValidateApproval, Reading, Budgeted
<1>10. CASE Reserve(u) \/ Journal(u) \/ ConsumeApproval(u) \/ RunTool(u) \/ Verify(u)
            \/ Complete(u)
  BY <1>2, <1>10 DEF Reserve, Journal, ConsumeApproval, RunTool, Verify, Complete, Reading,
                     Budgeted, LoopDone, HoldingSteps
<1>11. CASE ReportReplay(u) \/ Return(u) \/ Raise(u) \/ \E r \in Requests : Submit(u, r)
  BY <1>3, <1>11 DEF ReportReplay, Return, Raise, Submit, Reply, Goto, TypeInv, TypeOK
<1>12. ASSUME NEW S \in SUBSET Threads, Crash(S) PROVE Cleared(u)'
  <2>1. pc'[u] = "idle" \/ (pc'[u] = pc[u] /\ call'[u] = call[u])
    BY <1>12 DEF Crash
  <2> QED BY <1>2, <1>3, <2>1
<1>13. CASE \/ \E token \in Revocable : Revoke(token)
            \/ \E credential \in Perishable : Expire(credential)
            \/ UNCHANGED vars
  BY <1>2, <1>13 DEF Revoke, Expire, locals, vars
<1> QED
  BY <1>4, <1>5, <1>6, <1>7, <1>8, <1>9, <1>10, <1>11, <1>12, <1>13 DEF Next, Step

(* A call at its tool has a permitted request. *)
LEMMA ToolIsPermitted ==
    ASSUME TypeInv, MatchedOK, QuorateOK, ClearedOK, NEW t \in Threads, pc[t] = "tool"
    PROVE  Permitted(call[t]) /\ call[t] \in Requests /\ call[t].proposal \in Proposals
<1>1. /\ call[t] \in Requests /\ proposal(t) = call[t].proposal
      /\ call[t].proposal \in Proposals
  BY CallTypes DEF TypeInv, proposal
<1>2. Vouched(call[t]) /\ Covered(call[t]) /\ call[t].proposal.decision # "deny"
  BY <1>1 DEF ClearedOK, Cleared, Budgeted, LoopDone, HoldingSteps
<1>3. ASSUME NeedsApproval(call[t].proposal)
      PROVE  /\ Len(call[t].approvals) >= Quorum /\ Independent(call[t].approvals)
             /\ \A a \in Elements(call[t].approvals) : Approves(a, call[t].proposal)
  <2>1. approvals(t) = call[t].approvals
    BY <1>1, <1>3 DEF approvals
  <2>2. Len(approvals(t)) >= Quorum /\ Independent(approvals(t))
    BY <1>1, <1>3 DEF QuorateOK, Quorate, LoopDone, HoldingSteps
  <2>3. \A k \in DOMAIN approvals(t) : Approves(approvals(t)[k], call[t].proposal)
    BY <1>1 DEF MatchedOK, Matched, HoldingSteps
  <2> QED BY <2>1, <2>2, <2>3 DEF Elements
<1> QED BY <1>1, <1>2, <1>3 DEF Permitted, Approved

(* Complete mediation (README.md, core security invariants 1, 2, 4 and 6): *)
(* no interleaving, crash or exception takes a call to its tool around a   *)
(* check, so the tool has run only for requests that the policy does not   *)
(* deny and that came with the identity, the capability and the approvals  *)
(* asked for.                                                              *)
THEOREM MediationIsComplete == Spec => []EveryEffectPermitted
<1>1. Init => MatchedOK /\ QuorateOK /\ ClearedOK /\ EveryEffectPermitted
  BY DEF Init, MatchedOK, Matched, QuorateOK, Quorate, ClearedOK, Cleared, Budgeted, LoopDone,
         HoldingSteps, EveryEffectPermitted
<1>2. TypeInv /\ MatchedOK /\ QuorateOK /\ ClearedOK /\ EveryEffectPermitted /\ [Next]_vars
         => EveryEffectPermitted'
  <2> SUFFICES ASSUME TypeInv, MatchedOK, QuorateOK, ClearedOK, EveryEffectPermitted,
                      [Next]_vars
               PROVE  EveryEffectPermitted'
    OBVIOUS
  <2>1. CASE UNCHANGED effects
    BY <2>1 DEF EveryEffectPermitted
  <2>2. ASSUME NEW t \in Threads, RunTool(t), effects' # effects
        PROVE  EveryEffectPermitted'
    <3>1. pc[t] = "tool" /\ effects' = [effects EXCEPT ![proposal(t)] = @ + 1]
      BY <2>2 DEF RunTool
    <3>2. Permitted(call[t]) /\ call[t] \in Requests /\ call[t].proposal \in Proposals
      BY <3>1, ToolIsPermitted
    <3>3. \A p \in Proposals : p # call[t].proposal => effects'[p] = effects[p]
      BY <3>1 DEF proposal, TypeInv, TypeOK
    <3> QED BY <3>2, <3>3 DEF EveryEffectPermitted
  <2> QED BY <2>1, <2>2, OnlyToolsAct
<1>3. TypeInv /\ MatchedOK /\ QuorateOK /\ ClearedOK /\ EveryEffectPermitted /\ [Next]_vars
         => (TypeInv /\ MatchedOK /\ QuorateOK /\ ClearedOK /\ EveryEffectPermitted)'
  BY <1>2, NextTypeInv, NextMatched, NextQuorate, NextCleared
<1> QED
  BY <1>1, <1>3, InitTypeInv, PTL DEF Spec

----------------------------------------------------------------------------
(* No call goes on for ever *)

(* How many of its own steps a call may still take. *)
Rank(t) ==
    LET n == Len(approvals(t)) IN
    CASE pc[t] = "idle"         -> 0
      [] pc[t] = "reply"        -> 1
      [] pc[t] = "report"       -> 2
      [] pc[t] = "complete"     -> 2
      [] pc[t] = "log_outcome"  -> 3
      [] pc[t] = "verify"       -> 4
      [] pc[t] = "tool"         -> 5
      [] pc[t] = "log_charged"  -> 6
      [] pc[t] = "log_accepted" -> 7
      [] pc[t] = "consume"      -> 8 + (n - item[t])
      [] pc[t] = "log_reserved" -> 8 + n
      [] pc[t] = "reserve"      -> 9 + n
      [] pc[t] = "validate"     -> 10 + n + (n - item[t])
      [] pc[t] = "quorum"       -> 10 + n + n
      [] pc[t] = "budget"       -> 11 + n + n
      [] pc[t] = "authorize"    -> 12 + n + n
      [] pc[t] = "decide"       -> 13 + n + n
      [] pc[t] = "identify"     -> 14 + n + n

(* Every step of a call brings its end nearer, and nothing another call, a  *)
(* failure or the world outside does puts it off: whoever waits for a call *)
(* waits for at most 14 + 2 * Len(approvals) of its own steps.  That it    *)
(* takes them is the fairness of FairSpec.                                 *)
CallsMakeProgress ==
    [][\A t \in Threads : pc[t] # "idle" =>
          /\ Rank(t)' <= Rank(t)
          /\ Step(t) \/ Raise(t) => Rank(t)' < Rank(t)]_vars

LEMMA RankTyped ==
    ASSUME TypeInv, NEW t \in Threads
    PROVE  /\ Rank(t) \in Nat
           /\ pc[t] # "idle" => /\ Len(approvals(t)) \in Nat
                                /\ Rank(t) <= 14 + 2 * Len(approvals(t))
           /\ pc[t] \in {"validate", "consume"} => item[t] \in 1..Len(approvals(t))
           /\ pc[t] \notin {"validate", "consume"} => item[t] = 1
<1>1. CASE pc[t] = "idle"
  BY <1>1 DEF Rank, TypeInv, CallsOK
<1>2. CASE pc[t] # "idle"
  <2> DEFINE n == Len(approvals(t))
  <2>1. n \in Nat /\ DOMAIN approvals(t) = 1..n
    BY <1>2, CallTypes, LenProperties DEF TypeInv
  <2>2. /\ pc[t] \in {"validate", "consume"} => item[t] \in 1..n
        /\ pc[t] \notin {"validate", "consume"} => item[t] = 1
    BY <1>2, <2>1 DEF TypeInv, TypeOK, CallsOK
  <2>3. pc[t] \in Steps
    BY DEF TypeInv, TypeOK
  <2> HIDE DEF n
  <2>4. Rank(t) \in Nat /\ Rank(t) <= 14 + 2 * n
    BY <1>2, <2>1, <2>2, <2>3 DEF Rank, Steps, HoldingSteps, n
  <2> QED BY <2>1, <2>2, <2>4 DEF n
<1> QED BY <1>1, <1>2

(* The rank of a call depends on its own variables only. *)
LEMMA SameRank ==
    ASSUME NEW t \in Threads, pc'[t] = pc[t], call'[t] = call[t], item'[t] = item[t]
    PROVE  Rank(t)' = Rank(t)
<1>1. approvals(t)' = approvals(t)
  BY DEF approvals, proposal
<1> QED BY <1>1 DEF Rank

LEMMA StepsCount ==
    ASSUME TypeInv, NEW t \in Threads, Step(t) \/ Raise(t)
    PROVE  Rank(t)' < Rank(t) /\ Rank(t)' <= Rank(t)
<1> DEFINE n == Len(approvals(t))
<1>1. /\ pc[t] # "idle" /\ n \in Nat
      /\ pc[t] \in {"validate", "consume"} => item[t] \in 1..n
      /\ pc[t] \notin {"validate", "consume"} => item[t] = 1
  <2>1. pc[t] # "idle"
    BY DEF Step, Identify, Decide, Authorize, CheckBudget, CheckQuorum, ValidateApproval,
           Reserve, ReportReplay, Journal, ConsumeApproval, RunTool, Verify, Complete, Return,
           Raise, FaultSteps
  <2> QED BY <2>1, RankTyped
<1>2. ASSUME UNCHANGED call PROVE approvals(t)' = approvals(t)
  BY <1>2 DEF approvals, proposal
<1>3. CASE Identify(t) \/ Decide(t) \/ Authorize(t) \/ CheckBudget(t)
  <2>1. /\ approvals(t)' = approvals(t)
        /\ \/ pc[t] \in {"identify", "decide", "authorize", "budget"} /\ pc'[t] = "reply"
           \/ pc[t] = "identify" /\ pc'[t] = "decide"
           \/ pc[t] = "decide" /\ pc'[t] = "authorize"
           \/ pc[t] = "authorize" /\ pc'[t] = "budget"
           \/ pc[t] = "budget" /\ pc'[t] = "quorum"
    BY <1>2, <1>3 DEF Identify, Decide, Authorize, CheckBudget, Reading, Reply, Goto,
                      TypeInv, TypeOK
  <2> QED BY <1>1, <2>1 DEF Rank
<1>4. CASE CheckQuorum(t)
  <2>1. /\ approvals(t)' = approvals(t) /\ item'[t] = 1 /\ pc[t] = "quorum"
        /\ pc'[t] \in {"reply", "reserve", "validate"}
    BY <1>1, <1>2, <1>4 DEF CheckQuorum, Reading, Reply, Goto, TypeInv, TypeOK
  <2> QED BY <1>1, <2>1 DEF Rank
<1>5. CASE ValidateApproval(t)
  <2>1. /\ approvals(t)' = approvals(t) /\ pc[t] = "validate" /\ item[t] \in 1..n
        /\ \/ pc'[t] \in {"reply", "reserve"}
           \/ pc'[t] = "validate" /\ item'[t] = item[t] + 1
    BY <1>1, <1>2, <1>5
       DEF ValidateApproval, NextItem, Reading, Reply, Goto, TypeInv, TypeOK
  <2> QED BY <1>1, <2>1 DEF Rank
<1>6. CASE Reserve(t) \/ Journal(t)
  <2>1. /\ approvals(t)' = approvals(t) /\ item'[t] = 1
        /\ \/ pc[t] = "reserve" /\ pc'[t] \in {"log_reserved", "report", "consume", "log_charged"}
           \/ pc[t] = "log_reserved" /\ pc'[t] \in {"consume", "log_charged"}
           \/ pc[t] = "log_accepted" /\ pc'[t] = "log_charged"
           \/ pc[t] = "log_charged" /\ pc'[t] = "tool"
           \/ pc[t] = "log_outcome" /\ pc'[t] = "complete"
    BY <1>1, <1>2, <1>6
       DEF Reserve, Journal, AfterReservation, AfterOutcome, Goto, TypeInv, TypeOK
  <2> QED BY <1>1, <2>1 DEF Rank
<1>7. CASE ConsumeApproval(t)
  <2>1. /\ approvals(t)' = approvals(t) /\ pc[t] = "consume" /\ item[t] \in 1..n
        /\ \/ pc'[t] \in {"log_outcome", "log_accepted"}
           \/ pc'[t] = "consume" /\ item'[t] = item[t] + 1
    BY <1>1, <1>2, <1>7 DEF ConsumeApproval, NextItem, Goto, TypeInv, TypeOK
  <2> QED BY <1>1, <2>1 DEF Rank
<1>8. CASE RunTool(t) \/ Verify(t) \/ Complete(t) \/ ReportReplay(t) \/ Return(t)
  <2>1. \/ pc[t] = "tool" /\ pc'[t] \in {"verify", "log_outcome"}
        \/ pc[t] = "verify" /\ pc'[t] = "log_outcome"
        \/ pc[t] \in {"complete", "report"} /\ pc'[t] = "reply"
        \/ pc[t] = "reply" /\ pc'[t] = "idle"
    BY <1>8 DEF RunTool, Verify, Complete, ReportReplay, Return, Reply, Goto, TypeInv, TypeOK
  <2> QED BY <2>1 DEF Rank
<1>9. CASE Raise(t)
  <2>1. pc'[t] = "reply" /\ pc[t] \in Steps \ {"idle", "reply"}
    BY <1>9 DEF Raise, FaultSteps, Reply, Goto, TypeInv, TypeOK
  <2>2. Rank(t)' = 1
    BY <2>1 DEF Rank
  <2>3. Rank(t) > 1
    BY <1>1, <2>1 DEF Rank, Steps, HoldingSteps
  <2> QED BY <2>2, <2>3, RankTyped
<1> QED BY <1>3, <1>4, <1>5, <1>6, <1>7, <1>8, <1>9 DEF Step

(* The safety half of CallsReturn: calls cannot go round in circles and     *)
(* cannot hold one another up.                                             *)
THEOREM CallsAreBounded == Spec => CallsMakeProgress
<1>1. TypeInv /\ [Next]_vars =>
         [\A t \in Threads : pc[t] # "idle" =>
             /\ Rank(t)' <= Rank(t)
             /\ Step(t) \/ Raise(t) => Rank(t)' < Rank(t)]_vars
  <2> SUFFICES ASSUME TypeInv, [Next]_vars, NEW u \in Threads, pc[u] # "idle"
               PROVE  /\ Rank(u)' <= Rank(u)
                      /\ Step(u) \/ Raise(u) => Rank(u)' < Rank(u)
    OBVIOUS
  <2>1. Rank(u) \in Nat
    BY RankTyped
  <2>2. Step(u) \/ Raise(u) => Rank(u)' < Rank(u) /\ Rank(u)' <= Rank(u)
    BY StepsCount
  <2>3. ASSUME Rank(u)' = Rank(u) PROVE Rank(u)' <= Rank(u)
    BY <2>1, <2>3
  <2>4. ASSUME NEW t \in Threads, t # u,
               Step(t) \/ Raise(t) \/ \E r \in Requests : Submit(t, r)
        PROVE  Rank(u)' <= Rank(u)
    BY <2>3, <2>4, OthersStand, SameRank
  <2>5. ~(\E r \in Requests : Submit(u, r))
    BY DEF Submit
  <2>6. ASSUME NEW S \in SUBSET Threads, Crash(S) PROVE Rank(u)' <= Rank(u)
    <3>1. CASE u \in S
      <4>1. pc'[u] = "idle"
        BY <2>6, <3>1 DEF Crash
      <4>2. Rank(u)' = 0
        BY <4>1 DEF Rank
      <4> QED BY <2>1, <4>2
    <3>2. CASE u \notin S
      <4>1. pc'[u] = pc[u] /\ call'[u] = call[u] /\ item'[u] = item[u]
        BY <2>6, <3>2 DEF Crash
      <4> QED BY <2>3, <4>1, SameRank
    <3> QED BY <3>1, <3>2
  <2>7. ASSUME \/ \E token \in Revocable : Revoke(token)
               \/ \E credential \in Perishable : Expire(credential)
               \/ UNCHANGED vars
        PROVE  Rank(u)' <= Rank(u)
    <3>1. UNCHANGED <<pc, call, item>>
      BY <2>7 DEF Revoke, Expire, locals, vars
    <3>2. Rank(u)' = Rank(u)
      BY <3>1, SameRank
    <3> QED BY <2>3, <3>2
  <2>8. Step(u) \/ Raise(u) \/ Rank(u)' <= Rank(u)
    BY <2>4, <2>5, <2>6, <2>7 DEF Next
  <2> QED BY <2>2, <2>8
<1> QED BY <1>1, InitTypeInv, NextTypeInv, PTL DEF Spec, CallsMakeProgress

=============================================================================
