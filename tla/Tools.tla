-------------------------------- MODULE Tools --------------------------------
(***************************************************************************)
(* The reference tools of src/trust_gateway/tools.py, as the tail of       *)
(* TrustGateway.execute drives them (gateway.py 176-193): execute, then    *)
(* taints and verify, in each of several threads over one ToolRegistry.    *)
(* The registry has no lock.  Each read or change of its notes, services   *)
(* and fail_next is one step of the interpreter; what is between two of    *)
(* them is where another thread may run.                                   *)
(*                                                                         *)
(* Notes are the texts appended, so two equal notes cannot be told apart;  *)
(* overtaken remembers, for the properties, who appended between.          *)
(***************************************************************************)
EXTENDS Naturals, Sequences

CONSTANTS Threads, Texts,
          InitialServices,    \* service name -> state, as the registry starts
          UnknownService,     \* a name that is not among them
          MaxNotes, MaxArms   \* bounds: appends let in, failures injected

VARIABLES notes, services, fail_next,
          pc, call, output,
          status,      \* what execute returned to the thread's caller
          before,      \* history: notes when the thread's output was computed
          overtaken,   \* history: others that appended since the thread did
          arms

vars == <<notes, services, fail_next, pc, call, output, status, before,
          overtaken, arms>>

Services == DOMAIN InitialServices

ASSUME ServicesAssumption == UnknownService \notin Services

Calls == [action : {"append"}, text : Texts]
         \cup [action : {"restart"}, service : Services \cup {UnknownService}]
         \cup {[action |-> "read"], [action |-> "unknown"]}

Nothing == [none |-> TRUE]
Outputs == [index : Nat] \cup [notes : Seq(Texts), count : Nat]
           \cup [service : Services, state : {"running"}, simulated : {TRUE}]
           \cup {Nothing}

Steps == {"idle", "flag", "clear", "dispatch", "index", "count", "verify"}
Statuses == {"none", "completed", "verification_failed", "failed"}

Init == /\ notes = <<>> /\ services = InitialServices /\ fail_next = FALSE
        /\ pc = [t \in Threads |-> "idle"]
        /\ call = [t \in Threads |-> [action |-> "unknown"]]
        /\ output = [t \in Threads |-> Nothing]
        /\ status = [t \in Threads |-> "none"]
        /\ before = [t \in Threads |-> <<>>]
        /\ overtaken = [t \in Threads |-> {}]
        /\ arms = 0

Goto(t, step) == pc' = [pc EXCEPT ![t] = step]

(* The gateway reaches the tool; an append is let in while there is room.  *)
Call(t, c) ==
    /\ pc[t] = "idle"
    /\ c.action = "append" => Len(notes) < MaxNotes
    /\ call' = [call EXCEPT ![t] = c]
    /\ output' = [output EXCEPT ![t] = Nothing]
    /\ status' = [status EXCEPT ![t] = "none"]
    /\ Goto(t, "flag")
    /\ UNCHANGED <<notes, services, fail_next, before, overtaken, arms>>

(* A test or scenario driver sets fail_next while calls run. *)
ArmFailure ==
    /\ arms < MaxArms
    /\ fail_next' = TRUE /\ arms' = arms + 1
    /\ UNCHANGED <<notes, services, pc, call, output, status, before, overtaken>>

(* execute looks at fail_next in one step and clears it in the next. *)
CheckFlag(t) ==
    /\ pc[t] = "flag"
    /\ Goto(t, IF fail_next THEN "clear" ELSE "dispatch")
    /\ UNCHANGED <<notes, services, fail_next, call, output, status, before,
                   overtaken, arms>>

Failed(t) == /\ status' = [status EXCEPT ![t] = "failed"]
             /\ Goto(t, "idle")

ClearFlag(t) ==
    /\ pc[t] = "clear"
    /\ fail_next' = FALSE
    /\ Failed(t)
    /\ UNCHANGED <<notes, services, call, output, before, overtaken, arms>>

(* No handler, or a service the registry does not have: KeyError. *)
MutRejects(c) == c.action = "unknown"
Rejects(c) == \/ c.action = "unknown"
              \/ c.action = "restart" /\ c.service \notin DOMAIN services

Reject(t) ==
    /\ pc[t] = "dispatch" /\ Rejects(call[t])
    /\ Failed(t)
    /\ UNCHANGED <<notes, services, fail_next, call, output, before, overtaken, arms>>

(* _notes_append: the list grows, then its length is read again. *)
MutStored(text) == <<text>> \o notes
Stored(text) == Append(notes, text)

AppendNote(t) ==
    /\ pc[t] = "dispatch" /\ call[t].action = "append"
    /\ notes' = Stored(call[t].text)
    /\ before' = [before EXCEPT ![t] = notes]
    /\ overtaken' = [u \in Threads |->
          IF u = t THEN {} ELSE IF pc[u] = "idle" THEN overtaken[u] ELSE overtaken[u] \cup {t}]
    /\ Goto(t, "index")
    /\ UNCHANGED <<services, fail_next, call, output, status, arms>>

MutIndex == Len(notes)
Index == Len(notes) - 1

TakeIndex(t) ==
    /\ pc[t] = "index"
    /\ output' = [output EXCEPT ![t] = [index |-> Index]]
    /\ Goto(t, "verify")
    /\ UNCHANGED <<notes, services, fail_next, call, status, before, overtaken, arms>>

(* _notes_read: a copy of the list, then the length of the list. *)
MutCopy == IF notes = <<>> THEN notes ELSE Tail(notes)
Copy == notes

CopyNotes(t) ==
    /\ pc[t] = "dispatch" /\ call[t].action = "read"
    /\ output' = [output EXCEPT ![t] = [notes |-> Copy, count |-> 0]]
    /\ before' = [before EXCEPT ![t] = notes]
    /\ overtaken' = [overtaken EXCEPT ![t] = {}]
    /\ Goto(t, "count")
    /\ UNCHANGED <<notes, services, fail_next, call, status, arms>>

CountNotes(t) ==
    /\ pc[t] = "count"
    /\ output' = [output EXCEPT ![t].count = Len(notes)]
    /\ Goto(t, "verify")
    /\ UNCHANGED <<notes, services, fail_next, call, status, before, overtaken, arms>>

RestartService(t) ==
    /\ pc[t] = "dispatch" /\ call[t].action = "restart" /\ ~Rejects(call[t])
    /\ services' = [services EXCEPT ![call[t].service] = "running"]
    /\ output' = [output EXCEPT ![t] =
          [service |-> call[t].service, state |-> "running", simulated |-> TRUE]]
    /\ Goto(t, "verify")
    /\ UNCHANGED <<notes, fail_next, call, status, before, overtaken, arms>>

(* ToolRegistry.verify. *)
Confirms(c, out) ==
    CASE c.action = "read" -> out.count = Len(notes)
      [] c.action = "append" -> notes # <<>> /\ notes[Len(notes)] = c.text
      [] OTHER -> services[c.service] = "running" /\ out.state = "running"

Verify(t) ==
    /\ pc[t] = "verify"
    /\ status' = [status EXCEPT ![t] = IF Confirms(call[t], output[t])
                                       THEN "completed" ELSE "verification_failed"]
    /\ Goto(t, "idle")
    /\ UNCHANGED <<notes, services, fail_next, call, output, before, overtaken, arms>>

Step(t) == \/ CheckFlag(t) \/ ClearFlag(t) \/ Reject(t)
           \/ AppendNote(t) \/ TakeIndex(t) \/ CopyNotes(t) \/ CountNotes(t)
           \/ RestartService(t) \/ Verify(t)

Next == \/ ArmFailure
        \/ \E t \in Threads : Step(t) \/ \E c \in Calls : Call(t, c)

Spec == Init /\ [][Next]_vars

----------------------------------------------------------------------------
(* Properties *)

(* Type correctness: the registry's state and, per thread, its call, its   *)
(* output and its status; a tool never names a service there is not        *)
(* (tools.py 53-54).                                                       *)
TypeOK ==
    /\ notes \in Seq(Texts) /\ fail_next \in BOOLEAN /\ arms \in Nat
    /\ DOMAIN services = Services
    /\ pc \in [Threads -> Steps] /\ call \in [Threads -> Calls]
    /\ output \in [Threads -> Outputs] /\ status \in [Threads -> Statuses]
    /\ before \in [Threads -> Seq(Texts)]
    /\ overtaken \in [Threads -> SUBSET Threads]

Did(t, action) == call[t].action = action /\ output[t] # Nothing

(* verify looks at the last note and at the present length, which another  *)
(* thread may have changed since (tools.py 36-39): an effect that did      *)
(* happen is reported as unverified, but only if another call appended in  *)
(* between, and a restart never is.                                        *)
UnverifiedOnlyIfOvertaken ==
    \A t \in Threads : status[t] = "verification_failed" =>
        call[t].action # "restart" /\ overtaken[t] # {}

(* The index an append reports is computed after the note is in (tools.py  *)
(* 49-50): it is the place of that note, or of a later one if another call *)
(* appended in between; the note itself stays where it was put.            *)
IndexExactUnlessRaced ==
    \A t \in Threads : Did(t, "append") =>
        LET place == Len(before[t]) IN
        /\ notes[place + 1] = call[t].text
        /\ output[t].index >= place
        /\ output[t].index > place => overtaken[t] # {}

(* A read is verified by its count, not by its notes (tools.py 37): what a *)
(* completed read returned is a prefix of the notes, and misses some of    *)
(* those it counted only if another call appended after the copy.          *)
VerifiedReadMissesOnlyRaces ==
    \A t \in Threads : Did(t, "read") /\ status[t] = "completed" =>
        LET got == output[t].notes IN
        /\ got = SubSeq(notes, 1, Len(got))
        /\ output[t].count \in Len(got)..Len(notes)
        /\ output[t].count > Len(got) => overtaken[t] # {}

=============================================================================
