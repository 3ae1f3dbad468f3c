------------------------------ MODULE Gateway ------------------------------
(***************************************************************************)
(* TrustGateway.execute (src/trust_gateway/gateway.py) as it runs under    *)
(* the service of app.py: each call is a thread, the threads share the     *)
(* SQLite authority database (execution ledger, consumed approvals,        *)
(* revoked capabilities) and the audit journal, and the process may die    *)
(* between any two steps.  One action is one stretch of the function that  *)
(* touches shared state at most once.                                      *)
(*                                                                         *)
(* Abstractions.  A proposal record stands for its digest; the policy is   *)
(* fixed while a process lives, so decision and risk are fields of the     *)
(* proposal.  Time only ever makes a credential expire.  The risk budget's *)
(* answer is free here (RiskBudget models the budget), and the journal is  *)
(* the set of events that were written (AuditJournal models the chain).    *)
(***************************************************************************)
EXTENDS Naturals, Sequences, FiniteSets

CONSTANTS
    Threads,            \* concurrent calls of execute
    ProposalIds,
    Proposals,          \* [proposal_id, content, decision, risk]
    Approvals,          \* [approval_id, proposal_digest, approver]
    Tokens, NoToken,    \* capability and identity tokens; no header sent
    Scope,              \* what each token authorizes: [Tokens -> SUBSET Proposals]
    Requests,           \* [proposal, approvals, capability, identity]
    Perishable,         \* approvals and tokens that may expire during the run
    Revocable,          \* capability tokens that may be revoked
    Blank,              \* an approver that strips to nothing
    Quorum,             \* high_risk_approval_quorum
    UseLedger,          \* executions is not None
    UseCapabilities,    \* capabilities is not None
    UseIdentities,      \* identities is not None
    NoCall, NoRow

VARIABLES
    pc, call, item, outcome,   \* per thread: the running call of execute
    ledger,                    \* SQLiteExecutionLedger: proposal_id -> row
    consumed,                  \* SQLiteApprovalLedger: approval ids
    revoked, expired,          \* credentials no longer good
    journal,                   \* audit events from the reservation on
    effects,                   \* history: how often the tool took effect
    spent,                     \* history: the approvals behind `consumed'
    interrupted,               \* history: ids whose call died holding them
    void                       \* history: calls submitted on dead credentials

locals  == <<pc, call, item, outcome, void>>
authority == <<ledger, consumed, spent>>
vars == <<pc, call, item, outcome, ledger, consumed, revoked, expired,
          journal, effects, spent, interrupted, void>>

----------------------------------------------------------------------------
(* Values *)

Terminal == {"completed", "verification_failed", "failed", "approval_rejected"}

Rows == [proposal_digest : Proposals, state : {"reserved"},
         terminal_status : {"none"}]
        \cup [proposal_digest : Proposals, state : {"terminal"},
              terminal_status : Terminal]

(* Steps at which a call holds a reservation and may spend authority. *)
HoldingSteps == {"log_reserved", "consume", "log_accepted", "log_charged",
                 "tool", "verify", "log_outcome", "complete"}

Steps == {"idle", "identify", "decide", "authorize", "budget", "quorum",
          "validate", "reserve", "report", "reply"} \cup HoldingSteps

(* A SQLite or journal operation may raise here; memory and tool steps do not. *)
FaultSteps == Steps \ {"idle", "reply", "tool", "verify"}

Refusals == {"identity_required", "identity_rejected", "denied",
             "capability_required", "capability_rejected",
             "risk_budget_exceeded", "approval_required",
             "execution_in_doubt", "execution_replay_blocked", "error"}

Events == {"execution_reserved", "approval_accepted", "risk_budget_consumed",
           "execution_completed", "execution_failed", "approval_replay_blocked"}

(* A row is its content; no row and no call are none of the others. *)
ASSUME ValuesAssumption ==
    /\ NoRow \notin Rows
    /\ NoCall \notin Requests
    /\ Quorum \in Nat \ {0}
    /\ {UseLedger, UseCapabilities, UseIdentities} \subseteq BOOLEAN

ASSUME ProposalsAssumption == \A p \in Proposals : p.proposal_id \in ProposalIds

ASSUME RequestsAssumption ==
    \A r \in Requests : r.proposal \in Proposals /\ r.approvals \in Seq(Approvals)

----------------------------------------------------------------------------
(* The running call *)

proposal(t) == call[t].proposal
id(t)       == proposal(t).proposal_id

NeedsApproval(p)   == p.decision = "require_approval"
NeedsCapability(p) == UseCapabilities /\ p.risk \in {"medium", "high"}

(* The local `approvals': empty unless the decision asks for them. *)
approvals(t) == IF NeedsApproval(proposal(t)) THEN call[t].approvals ELSE <<>>

Elements(s) == {s[k] : k \in DOMAIN s}

MutIndependent(s) == TRUE
Independent(s) == \A j, k \in DOMAIN s : s[j].approver = s[k].approver => j = k

(* A request with a credential that may not be honoured any more. *)
Dead(r) ==
    \/ UseIdentities /\ r.identity \in expired
    \/ NeedsCapability(r.proposal) /\ r.capability \in revoked \cup expired
    \/ NeedsApproval(r.proposal) /\ \E a \in Elements(r.approvals) :
            a \in expired \/ a.approval_id \in consumed

Goto(t, step) == pc' = [pc EXCEPT ![t] = step]
Reply(t, status) == /\ Goto(t, "reply")
                    /\ outcome' = [outcome EXCEPT ![t] = status]

Init ==
    /\ pc = [t \in Threads |-> "idle"]
    /\ call = [t \in Threads |-> NoCall]
    /\ item = [t \in Threads |-> 1]
    /\ outcome = [t \in Threads |-> "none"]
    /\ void = [t \in Threads |-> FALSE]
    /\ ledger = [i \in ProposalIds |-> NoRow]
    /\ consumed = {} /\ spent = {}
    /\ revoked = {} /\ expired = {}
    /\ journal = {}
    /\ effects = [p \in Proposals |-> 0]
    /\ interrupted = {}

----------------------------------------------------------------------------
(* From the request to the reservation: reads only *)

Submit(t, r) ==
    /\ pc[t] = "idle"
    /\ Goto(t, "identify")
    /\ call' = [call EXCEPT ![t] = r]
    /\ void' = [void EXCEPT ![t] = Dead(r)]
    /\ UNCHANGED <<item, outcome, authority, revoked, expired, journal,
                   effects, interrupted>>

(* What every step before the reservation leaves alone. *)
Reading == UNCHANGED <<call, void, authority, revoked, expired, journal,
                       effects, interrupted>>

(* identities.verify: expiry, and the subject named by the proposal. *)
Vouches(token, p) == token \notin expired /\ p \in Scope[token]

Identify(t) ==
    LET token == call[t].identity IN
    /\ pc[t] = "identify"
    /\ \/ /\ UseIdentities /\ token = NoToken
          /\ Reply(t, "identity_required")
       \/ /\ UseIdentities /\ token # NoToken /\ ~Vouches(token, proposal(t))
          /\ Reply(t, "identity_rejected")
       \/ /\ UseIdentities => token # NoToken /\ Vouches(token, proposal(t))
          /\ Goto(t, "decide") /\ UNCHANGED outcome
    /\ Reading /\ UNCHANGED item

Decide(t) ==
    /\ pc[t] = "decide"
    /\ \/ proposal(t).decision = "deny" /\ Reply(t, "denied")
       \/ /\ proposal(t).decision # "deny"
          /\ Goto(t, "authorize") /\ UNCHANGED outcome
    /\ Reading /\ UNCHANGED item

(* capabilities.verify asks the revocation list after the expiry. *)
MutLive(token) == token \notin expired
Live(token) == token \notin expired /\ token \notin revoked

(* capabilities.authorize: then the subject, the scope and the arguments. *)
Covers(token, p) == Live(token) /\ p \in Scope[token]

Authorize(t) ==
    LET token == call[t].capability IN
    /\ pc[t] = "authorize"
    /\ \/ /\ NeedsCapability(proposal(t)) /\ token = NoToken
          /\ Reply(t, "capability_required")
       \/ /\ NeedsCapability(proposal(t)) /\ token # NoToken
          /\ ~Covers(token, proposal(t))
          /\ Reply(t, "capability_rejected")
       \/ /\ NeedsCapability(proposal(t)) =>
                token # NoToken /\ Covers(token, proposal(t))
          /\ Goto(t, "budget") /\ UNCHANGED outcome
    /\ Reading /\ UNCHANGED item

(* Even a low risk, of cost 0, is refused once the budget is overdrawn. *)
CheckBudget(t) ==
    /\ pc[t] = "budget"
    /\ \/ Reply(t, "risk_budget_exceeded")
       \/ Goto(t, "quorum") /\ UNCHANGED outcome
    /\ Reading /\ UNCHANGED item

CheckQuorum(t) ==
    LET s == approvals(t) IN
    /\ pc[t] = "quorum"
    /\ \/ /\ ~NeedsApproval(proposal(t))
          /\ Goto(t, "reserve") /\ UNCHANGED outcome
       \/ /\ NeedsApproval(proposal(t))
          /\ s = <<>> \/ Len(s) < Quorum
          /\ Reply(t, "approval_required")
       \/ /\ NeedsApproval(proposal(t))
          /\ s # <<>> /\ Len(s) >= Quorum
          /\ \/ ~Independent(s) /\ Reply(t, "approval_rejected")
             \/ Independent(s) /\ Goto(t, "validate") /\ UNCHANGED outcome
    /\ Reading /\ UNCHANGED item

MutAcceptable(p, a) == /\ a.proposal_digest = p
                       /\ a \notin expired
                       /\ a.approver # Blank
Acceptable(p, a) == /\ a.approval_id \notin consumed
                    /\ a.proposal_digest = p
                    /\ a \notin expired
                    /\ a.approver # Blank

(* The loops over the approvals, here and in ConsumeApproval. *)
MutMore(t) == item[t] <= Len(approvals(t))
More(t) == item[t] < Len(approvals(t))
MutNextItem(t) == item[t]
NextItem(t) == item[t] + 1

(* One turn of the loop over the approvals; other calls run between turns. *)
ValidateApproval(t) ==
    LET s == approvals(t) IN
    /\ pc[t] = "validate"
    /\ \/ /\ ~Acceptable(proposal(t), s[item[t]])
          /\ Reply(t, "approval_rejected")
          /\ item' = [item EXCEPT ![t] = 1]
       \/ /\ Acceptable(proposal(t), s[item[t]]) /\ More(t)
          /\ item' = [item EXCEPT ![t] = NextItem(t)]
          /\ UNCHANGED <<pc, outcome>>
       \/ /\ Acceptable(proposal(t), s[item[t]]) /\ ~More(t)
          /\ item' = [item EXCEPT ![t] = 1]
          /\ Goto(t, "reserve") /\ UNCHANGED outcome
    /\ Reading

----------------------------------------------------------------------------
(* Holding the reservation *)

MutAfterReservation(t) == IF approvals(t) = <<>> THEN "tool" ELSE "consume"
AfterReservation(t) == IF approvals(t) = <<>> THEN "log_charged" ELSE "consume"

(* The INSERT fails when any row has the proposal_id, whatever its digest. *)
MutCanReserve(p) ==
    ledger[p.proposal_id] # NoRow => ledger[p.proposal_id].proposal_digest # p
CanReserve(p) == ledger[p.proposal_id] = NoRow

Reserve(t) ==
    /\ pc[t] = "reserve"
    /\ \/ /\ UseLedger /\ CanReserve(proposal(t))
          /\ ledger' = [ledger EXCEPT ![id(t)] =
                 [proposal_digest |-> proposal(t), state |-> "reserved",
                  terminal_status |-> "none"]]
          /\ Goto(t, "log_reserved")
       \/ /\ UseLedger /\ ~CanReserve(proposal(t))
          /\ Goto(t, "report") /\ UNCHANGED ledger
       \/ /\ ~UseLedger
          /\ Goto(t, AfterReservation(t)) /\ UNCHANGED ledger
    /\ UNCHANGED <<call, item, outcome, void, consumed, spent, revoked,
                   expired, journal, effects, interrupted>>

(* A second connection reads the state of the row that was in the way. *)
MutReplayStatus(row) == "execution_replay_blocked"
ReplayStatus(row) == IF row.state = "reserved"
                     THEN "execution_in_doubt" ELSE "execution_replay_blocked"

ReportReplay(t) ==
    /\ pc[t] = "report"
    /\ Reply(t, ReplayStatus(ledger[id(t)]))
    /\ Reading /\ UNCHANGED item

OutcomeEvent(status) ==
    CASE status \in {"completed", "verification_failed"} -> "execution_completed"
      [] status = "failed"            -> "execution_failed"
      [] status = "approval_rejected" -> "approval_replay_blocked"

(* Every path that logged an outcome marks the row terminal. *)
MutAfterOutcome(t) ==
    IF outcome[t] = "approval_rejected" THEN "reply" ELSE "complete"
AfterOutcome(t) == "complete"

(* audit.append between two other steps of a call that holds. *)
Journal(t) ==
    LET Log(at, event, next) ==
            /\ pc[t] = at
            /\ journal' = journal \cup {<<event, proposal(t)>>}
            /\ Goto(t, next)
    IN
    /\ \/ Log("log_reserved", "execution_reserved", AfterReservation(t))
       \/ Log("log_accepted", "approval_accepted", "log_charged")
       \/ Log("log_charged", "risk_budget_consumed", "tool")
       \/ Log("log_outcome", OutcomeEvent(outcome[t]), AfterOutcome(t))
    /\ UNCHANGED <<call, item, outcome, void, authority, revoked, expired,
                   effects, interrupted>>

(* consume returns False when the id is already there. *)
MutTaken(a) == FALSE
Taken(a) == a.approval_id \in consumed

(* One INSERT per approval; the first one that is taken ends the call. *)
ConsumeApproval(t) ==
    LET a == approvals(t)[item[t]] IN
    /\ pc[t] = "consume"
    /\ \/ /\ Taken(a)
          /\ outcome' = [outcome EXCEPT ![t] = "approval_rejected"]
          /\ Goto(t, "log_outcome")
          /\ item' = [item EXCEPT ![t] = 1]
          /\ UNCHANGED <<consumed, spent>>
       \/ /\ ~Taken(a)
          /\ consumed' = consumed \cup {a.approval_id}
          /\ spent' = spent \cup {a}
          /\ \/ /\ More(t)
                /\ item' = [item EXCEPT ![t] = NextItem(t)]
                /\ UNCHANGED pc
             \/ /\ ~More(t)
                /\ item' = [item EXCEPT ![t] = 1]
                /\ Goto(t, "log_accepted")
          /\ UNCHANGED outcome
    /\ UNCHANGED <<call, void, ledger, revoked, expired, journal, effects,
                   interrupted>>

(* A handler either takes effect and returns or raises having done nothing. *)
RunTool(t) ==
    /\ pc[t] = "tool"
    /\ \/ /\ effects' = [effects EXCEPT ![proposal(t)] = @ + 1]
          /\ Goto(t, "verify") /\ UNCHANGED outcome
       \/ /\ outcome' = [outcome EXCEPT ![t] = "failed"]
          /\ Goto(t, "log_outcome") /\ UNCHANGED effects
    /\ UNCHANGED <<call, item, void, authority, revoked, expired, journal,
                   interrupted>>

(* tools.verify reads state that other calls change: either answer. *)
Verify(t) ==
    /\ pc[t] = "verify"
    /\ \E status \in {"completed", "verification_failed"} :
            outcome' = [outcome EXCEPT ![t] = status]
    /\ Goto(t, "log_outcome")
    /\ Reading /\ UNCHANGED item

(* _mark_terminal: the UPDATE names the row by proposal_id alone. *)
Complete(t) ==
    /\ pc[t] = "complete"
    /\ \/ /\ UseLedger
          /\ ledger' = [ledger EXCEPT ![id(t)].state = "terminal",
                                      ![id(t)].terminal_status = outcome[t]]
       \/ ~UseLedger /\ UNCHANGED ledger
    /\ Goto(t, "reply")
    /\ UNCHANGED <<call, item, outcome, void, consumed, spent, revoked,
                   expired, journal, effects, interrupted>>

Return(t) ==
    /\ pc[t] = "reply"
    /\ Goto(t, "idle")
    /\ call' = [call EXCEPT ![t] = NoCall]
    /\ outcome' = [outcome EXCEPT ![t] = "none"]
    /\ void' = [void EXCEPT ![t] = FALSE]
    /\ UNCHANGED <<item, authority, revoked, expired, journal, effects,
                   interrupted>>

----------------------------------------------------------------------------
(* Failures and the world outside *)

Held(S) == {id(t) : t \in {u \in S : UseLedger /\ pc[u] \in HoldingSteps}}

(* An exception of SQLite or of the journal leaves execute; nothing undoes *)
(* what the call did.                                                      *)
Raise(t) ==
    /\ pc[t] \in FaultSteps
    /\ Reply(t, "error")
    /\ item' = [item EXCEPT ![t] = 1]
    /\ interrupted' = interrupted \cup Held({t})
    /\ UNCHANGED <<call, void, authority, revoked, expired, journal, effects>>

(* A process dies with the calls S it was serving and is started again. *)
Crash(S) ==
    /\ \E t \in S : pc[t] # "idle"
    /\ pc' = [t \in Threads |-> IF t \in S THEN "idle" ELSE pc[t]]
    /\ call' = [t \in Threads |-> IF t \in S THEN NoCall ELSE call[t]]
    /\ item' = [t \in Threads |-> IF t \in S THEN 1 ELSE item[t]]
    /\ outcome' = [t \in Threads |-> IF t \in S THEN "none" ELSE outcome[t]]
    /\ void' = [t \in Threads |-> IF t \in S THEN FALSE ELSE void[t]]
    /\ interrupted' = interrupted \cup Held(S)
    /\ UNCHANGED <<authority, revoked, expired, journal, effects>>

(* POST /v1/capabilities/revoke, durable in the authority database. *)
Revoke(token) ==
    /\ token \in Revocable \ revoked
    /\ revoked' = revoked \cup {token}
    /\ UNCHANGED <<locals, authority, expired, journal, effects, interrupted>>

Expire(credential) ==
    /\ credential \in Perishable \ expired
    /\ expired' = expired \cup {credential}
    /\ UNCHANGED <<locals, authority, revoked, journal, effects, interrupted>>

Step(t) ==
    \/ Identify(t) \/ Decide(t) \/ Authorize(t) \/ CheckBudget(t)
    \/ CheckQuorum(t) \/ ValidateApproval(t) \/ Reserve(t) \/ ReportReplay(t)
    \/ Journal(t) \/ ConsumeApproval(t) \/ RunTool(t) \/ Verify(t)
    \/ Complete(t) \/ Return(t)

Next ==
    \/ \E t \in Threads : Step(t)
    \/ \E t \in Threads, r \in Requests : Submit(t, r)
    \/ \E t \in Threads : Raise(t)
    \/ \E S \in SUBSET Threads : Crash(S)
    \/ \E token \in Revocable : Revoke(token)
    \/ \E credential \in Perishable : Expire(credential)

Spec == Init /\ [][Next]_vars

(* A thread that runs a call keeps being scheduled; no client owes a call, *)
(* and no failure or expiry has to happen.                                 *)
FairSpec == Spec /\ \A t \in Threads : WF_vars(Step(t))

----------------------------------------------------------------------------
(* Properties *)

Row(p) == ledger[p.proposal_id]

(* Does the ledger hold a row of this very proposal? *)
Recorded(p) == Row(p) # NoRow /\ Row(p).proposal_digest = p

(* The calls that run under the reservation of a proposal_id. *)
Holders(i) ==
    {t \in Threads : UseLedger /\ pc[t] \in HoldingSteps /\ id(t) = i}

(* The variables keep their shapes; a call that runs has a request, and a  *)
(* loop over the approvals stays within them.                              *)
TypeOK ==
    /\ pc \in [Threads -> Steps]
    /\ call \in [Threads -> Requests \cup {NoCall}]
    /\ item \in [Threads -> Nat \ {0}]
    /\ outcome \in [Threads -> Terminal \cup Refusals \cup {"none"}]
    /\ void \in [Threads -> BOOLEAN]
    /\ ledger \in [ProposalIds -> Rows \cup {NoRow}]
    /\ consumed \subseteq {a.approval_id : a \in Approvals}
    /\ spent \subseteq Approvals
    /\ revoked \subseteq Revocable
    /\ expired \subseteq Perishable
    /\ journal \subseteq Events \X Proposals
    /\ effects \in [Proposals -> Nat]
    /\ interrupted \subseteq ProposalIds
    /\ \A t \in Threads :
          /\ pc[t] # "idle" => call[t] \in Requests
          /\ pc[t] \in {"validate", "consume"} =>
                item[t] \in DOMAIN approvals(t)

(* A reserved row belongs to the one live call that inserted it, or to a   *)
(* call that an exception or a crash ended: a retry is told "in doubt"     *)
(* only while the first call runs or after a real failure, and no retry    *)
(* ever takes over a reservation (execution_state.py, docstring of         *)
(* SQLiteExecutionLedger).                                                 *)
InDoubtOnlyAfterFailure ==
    \A i \in ProposalIds :
        LET reserved == ledger[i] # NoRow /\ ledger[i].state = "reserved" IN
        /\ \A t \in Holders(i) : /\ reserved
                                 /\ ledger[i].proposal_digest = proposal(t)
                                 /\ i \notin interrupted
        /\ \A t, u \in Holders(i) : t = u
        /\ reserved => i \in interrupted \/ Holders(i) # {}
        /\ i \in interrupted => reserved

(* Each effect of a proposal that needs approval has been paid for with a  *)
(* full quorum of its own: single-use approvals of exactly this proposal,  *)
(* by different approvers, consumed before the tool ran; and no approval id*)
(* pays twice, for whatever proposals it is presented.                     *)
PaidByQuorum ==
    /\ \A a, b \in spent : a.approval_id = b.approval_id => a = b
    /\ \A p \in Proposals : NeedsApproval(p) /\ effects[p] > 0 =>
           LET own == {a \in spent : a.proposal_digest = p} IN
           /\ Cardinality({a.approval_id : a \in own}) >= Quorum * effects[p]
           /\ Cardinality({a.approver : a \in own} \ {Blank}) >= Quorum

(* Authority is consumed only behind a durable reservation of the proposal *)
(* it was given for: after a crash at any point, consumed approvals leave  *)
(* a row that says so (gateway.py 147-164).                                *)
ReservedBeforeSpent == \A a \in spent : Recorded(a.proposal_digest)

(* The journal runs ahead of the world: no effect without the events that  *)
(* announce it, no terminal row without the event that explains it.        *)
EffectIsJournaled ==
    \A p \in Proposals :
        LET Logged(event) == <<event, p>> \in journal IN
        /\ effects[p] > 0 =>
              /\ UseLedger => Logged("execution_reserved")
              /\ NeedsApproval(p) => Logged("approval_accepted")
              /\ Logged("risk_budget_consumed")
        /\ Recorded(p) /\ Row(p).state = "terminal" =>
              Logged(OutcomeEvent(Row(p).terminal_status))

(* What a client is told agrees with the ledger when it is told: a final   *)
(* status is the recorded one, and a retry called "blocked" met a row that *)
(* will never change.                                                      *)
ReplyMatchesLedger ==
    \A t \in Threads : pc[t] = "reply" =>
        /\ outcome[t] \in {"completed", "verification_failed", "failed"} =>
              Recorded(proposal(t)) /\ Row(proposal(t)).terminal_status = outcome[t]
        /\ outcome[t] = "execution_replay_blocked" =>
              Row(proposal(t)).state = "terminal"
        /\ outcome[t] = "execution_in_doubt" => Row(proposal(t)) # NoRow

(* A request that came in on a credential already revoked, expired or      *)
(* consumed never gets to hold anything, whatever runs beside it and       *)
(* whichever process serves it.                                            *)
StaleAuthorityNeverActs ==
    \A t \in Threads : void[t] => pc[t] \notin HoldingSteps

(* The gateway implements the execution contract: a row of the ledger is   *)
(* the phase of the proposal whose digest it carries.                      *)
Phase == [p \in Proposals |->
            IF ~Recorded(p) THEN "none"
            ELSE IF Row(p).state = "reserved" THEN "reserved"
            ELSE Row(p).terminal_status]

Contract == INSTANCE ExecutionContract WITH phase <- Phase

ImplementsContract == Contract!Spec

(* At most one effect for a proposal_id, over every proposal carrying it.  *)
AtMostOneEffect == Contract!AtMostOneEffect

(* Every call comes to an end: no loop over approvals, no lost step.       *)
CallsReturn == \A t \in Threads : pc[t] # "idle" ~> pc[t] = "idle"

(* A reservation gets its outcome unless its call was ended by a failure.  *)
ReservationsSettle ==
    \A i \in ProposalIds :
        ledger[i] # NoRow ~> \/ i \in interrupted
                             \/ ledger[i] # NoRow /\ ledger[i].state = "terminal"

=============================================================================
