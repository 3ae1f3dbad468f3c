----------------------------- MODULE ToolsProofs -----------------------------
(***************************************************************************)
(* Proofs about Tools for every set of threads, texts and services: what a *)
(* verification, an index and a verified read may get wrong, they get      *)
(* wrong only because another thread appended in between.                  *)
(***************************************************************************)
EXTENDS Tools, SequenceTheorems, TLAPS

(* Where an append stands: its note is in its place for good, at the end   *)
(* unless it was overtaken, and its index is that place or later.          *)
AppendOK(t) ==
    call[t].action = "append" /\ (pc[t] = "index" \/ output[t] # Nothing) =>
        LET place == Len(before[t]) IN
        /\ place < Len(notes) /\ notes[place + 1] = call[t].text
        /\ pc[t] # "idle" /\ overtaken[t] = {} => Len(notes) = place + 1
        /\ output[t] # Nothing =>
              /\ output[t].index \in Nat /\ output[t].index >= place
              /\ output[t].index > place => overtaken[t] # {}

(* Where a read stands: it copied the notes of then, a prefix of those of  *)
(* now, and they are the same while nobody appended.                       *)
ReadOK(t) ==
    call[t].action = "read" /\ output[t] # Nothing =>
        LET copied == Len(before[t]) IN
        /\ output[t] \in [notes : Seq(Texts), count : Nat] /\ output[t].notes = before[t]
        /\ copied <= Len(notes) /\ \A k \in 1..copied : before[t][k] = notes[k]
        /\ pc[t] # "idle" /\ overtaken[t] = {} => Len(notes) = copied
        /\ pc[t] # "count" =>
              /\ output[t].count \in copied..Len(notes)
              /\ output[t].count > copied => overtaken[t] # {}

(* A service that was restarted runs. *)
RestartOK(t) ==
    call[t].action = "restart" /\ output[t] # Nothing =>
        /\ call[t].service \in Services /\ services[call[t].service] = "running"
        /\ output[t].state = "running"

(* The order of the steps of a call. *)
StepsOK(t) ==
    /\ pc[t] \in {"flag", "clear", "dispatch", "index"} => output[t] = Nothing
    /\ pc[t] # "idle" => status[t] = "none"
    /\ pc[t] = "index" => call[t].action = "append"
    /\ pc[t] = "count" => call[t].action = "read" /\ output[t] # Nothing
    /\ pc[t] = "verify" => call[t].action \in {"append", "read", "restart"}
                           /\ output[t] # Nothing
    /\ status[t] = "verification_failed" =>
          call[t].action # "restart" /\ overtaken[t] # {}

ThreadOK(t) == StepsOK(t) /\ AppendOK(t) /\ ReadOK(t) /\ RestartOK(t)

Inv == TypeOK /\ \A t \in Threads : ThreadOK(t)

----------------------------------------------------------------------------
(* What outputs and calls are made of *)

(* No output is mistaken for the absence of one. *)
LEMMA OutputsAreSomething ==
    /\ \A n : [index |-> n] # Nothing
    /\ \A s, n : [notes |-> s, count |-> n] # Nothing
    /\ \A s, w, b : [service |-> s, state |-> w, simulated |-> b] # Nothing
<1>1. DOMAIN Nothing = {"none"}
  BY DEF Nothing
<1>2. \A n : "index" \in DOMAIN [index |-> n]
  OBVIOUS
<1>3. \A s, n : "notes" \in DOMAIN [notes |-> s, count |-> n]
  OBVIOUS
<1>4. \A s, w, b : "service" \in DOMAIN [service |-> s, state |-> w, simulated |-> b]
  OBVIOUS
<1> QED BY <1>1, <1>2, <1>3, <1>4

(* Calls by their action. *)
LEMMA CallTypes ==
    ASSUME NEW c \in Calls
    PROVE  /\ c.action \in {"append", "restart", "read", "unknown"}
           /\ c.action = "append" => c.text \in Texts
           /\ c.action = "restart" => c.service \in Services \cup {UnknownService}
BY DEF Calls

----------------------------------------------------------------------------
(* The other threads *)

(* A step that leaves a thread and the notes alone, and stops no service,  *)
(* leaves the invariant of that thread alone.                              *)
LEMMA BystanderOK ==
    ASSUME NEW u \in Threads, ThreadOK(u),
           pc'[u] = pc[u], call'[u] = call[u], output'[u] = output[u],
           status'[u] = status[u], before'[u] = before[u],
           overtaken'[u] = overtaken[u], notes' = notes,
           \A s \in Services : services[s] = "running" => services'[s] = "running"
    PROVE  ThreadOK(u)'
<1>1. StepsOK(u)'
  BY DEF ThreadOK, StepsOK
<1>2. AppendOK(u)'
  BY DEF ThreadOK, AppendOK
<1>3. ReadOK(u)'
  BY DEF ThreadOK, ReadOK
<1>4. RestartOK(u)'
  BY DEF ThreadOK, RestartOK
<1> QED BY <1>1, <1>2, <1>3, <1>4 DEF ThreadOK

(* One more note at the end leaves the others where they are. *)
LEMMA NotesStay ==
    ASSUME NEW s \in Seq(Texts), NEW x \in Texts
    PROVE  /\ Append(s, x) \in Seq(Texts) /\ Len(Append(s, x)) = Len(s) + 1
           /\ \A k \in 1..Len(s) : Append(s, x)[k] = s[k]
           /\ Append(s, x)[Len(s) + 1] = x
           /\ Len(s) \in Nat
BY AppendProperties, LenProperties

(* An append of another thread overtakes the threads whose calls run. *)
LEMMA OvertakenOK ==
    ASSUME TypeOK, NEW t \in Threads, NEW u \in Threads, u # t, ThreadOK(u),
           NEW x \in Texts, notes' = Append(notes, x), services' = services,
           pc'[u] = pc[u], call'[u] = call[u], output'[u] = output[u],
           status'[u] = status[u], before'[u] = before[u],
           overtaken'[u] = IF pc[u] = "idle" THEN overtaken[u] ELSE overtaken[u] \cup {t}
    PROVE  ThreadOK(u)'
<1>1. /\ Len(notes') = Len(notes) + 1 /\ \A k \in 1..Len(notes) : notes'[k] = notes[k]
      /\ Len(notes) \in Nat /\ Len(before[u]) \in Nat /\ before'[u] = before[u]
  BY NotesStay, LenProperties DEF TypeOK
<1>2. /\ overtaken[u] # {} => overtaken'[u] # {}
      /\ pc[u] # "idle" => overtaken'[u] # {}
  OBVIOUS
<1>3. StepsOK(u)'
  BY <1>2 DEF ThreadOK, StepsOK
<1>4. AppendOK(u)'
  <2>1. SUFFICES ASSUME call[u].action = "append", pc[u] = "index" \/ output[u] # Nothing
                 PROVE  AppendOK(u)'
    BY DEF AppendOK
  <2>2. Len(before[u]) < Len(notes) /\ notes[Len(before[u]) + 1] = call[u].text
    BY <2>1 DEF ThreadOK, AppendOK
  <2>3. Len(before[u]) < Len(notes') /\ notes'[Len(before[u]) + 1] = call[u].text
    BY <1>1, <2>2
  <2> QED BY <1>1, <1>2, <2>1, <2>3 DEF ThreadOK, AppendOK
<1>5. ReadOK(u)'
  <2>1. SUFFICES ASSUME call[u].action = "read", output[u] # Nothing
                 PROVE  ReadOK(u)'
    BY DEF ReadOK
  <2>2. /\ Len(before[u]) <= Len(notes)
        /\ \A k \in 1..Len(before[u]) : before[u][k] = notes[k]
    BY <2>1 DEF ThreadOK, ReadOK
  <2>3. /\ Len(before[u]) <= Len(notes')
        /\ \A k \in 1..Len(before[u]) : before[u][k] = notes'[k]
    BY <1>1, <2>2
  <2>4. /\ output[u] \in [notes : Seq(Texts), count : Nat] /\ output[u].notes = before[u]
        /\ pc[u] # "count" => /\ output[u].count \in Len(before[u])..Len(notes')
                              /\ output[u].count > Len(before[u]) => overtaken'[u] # {}
    BY <1>1, <1>2, <2>1 DEF ThreadOK, ReadOK
  <2> QED BY <1>2, <2>3, <2>4 DEF ReadOK
<1>6. RestartOK(u)'
  BY DEF ThreadOK, RestartOK
<1> QED BY <1>3, <1>4, <1>5, <1>6 DEF ThreadOK
----------------------------------------------------------------------------
(* Type correctness *)

LEMMA InitInv == Init => Inv
<1> SUFFICES ASSUME Init PROVE Inv
  OBVIOUS
<1>1. TypeOK
  BY EmptySeq DEF Init, TypeOK, Calls, Outputs, Steps, Statuses, Services
<1>2. ASSUME NEW t \in Threads PROVE ThreadOK(t)
  <2>1. /\ pc[t] = "idle" /\ call[t].action = "unknown"
        /\ output[t] = Nothing /\ status[t] = "none"
    BY DEF Init
  <2> QED BY <2>1 DEF ThreadOK, StepsOK, AppendOK, ReadOK, RestartOK
<1> QED BY <1>1, <1>2 DEF Inv

LEMMA StepTypeOK == Inv /\ [Next]_vars => TypeOK'
<1> SUFFICES ASSUME Inv, [Next]_vars PROVE TypeOK'
  OBVIOUS
<1> USE DEF Inv, TypeOK
<1>1. CASE UNCHANGED vars
  BY <1>1 DEF vars
<1>2. CASE ArmFailure
  BY <1>2 DEF ArmFailure
<1>3. ASSUME NEW t \in Threads, NEW c \in Calls, Call(t, c) PROVE TypeOK'
  BY <1>3 DEF Call, Goto, Steps, Statuses, Outputs
<1>4. ASSUME NEW t \in Threads, CheckFlag(t) PROVE TypeOK'
  BY <1>4 DEF CheckFlag, Goto, Steps
<1>5. ASSUME NEW t \in Threads, ClearFlag(t) PROVE TypeOK'
  BY <1>5 DEF ClearFlag, Failed, Goto, Steps, Statuses
<1>6. ASSUME NEW t \in Threads, Reject(t) PROVE TypeOK'
  BY <1>6 DEF Reject, Failed, Goto, Steps, Statuses
<1>7. ASSUME NEW t \in Threads, AppendNote(t) PROVE TypeOK'
  <2>1. notes' \in Seq(Texts)
    BY <1>7, CallTypes, AppendProperties DEF AppendNote, Stored
  <2> QED BY <1>7, <2>1 DEF AppendNote, Goto, Steps
<1>8. ASSUME NEW t \in Threads, TakeIndex(t) PROVE TypeOK'
  <2>1. Index \in Nat
    BY <1>8, LenProperties DEF TakeIndex, Index, ThreadOK, StepsOK, AppendOK
  <2> QED BY <1>8, <2>1 DEF TakeIndex, Goto, Steps, Outputs
<1>9. ASSUME NEW t \in Threads, CopyNotes(t) PROVE TypeOK'
  BY <1>9 DEF CopyNotes, Copy, Goto, Steps, Outputs
<1>10. ASSUME NEW t \in Threads, CountNotes(t) PROVE TypeOK'
  <2>1. output[t] \in [notes : Seq(Texts), count : Nat]
    BY <1>10 DEF CountNotes, ThreadOK, StepsOK, ReadOK
  <2>2. output'[t] = [output[t] EXCEPT !.count = Len(notes)] /\ Len(notes) \in Nat
    BY <1>10, LenProperties DEF CountNotes
  <2>3. output'[t] \in Outputs
    BY <2>1, <2>2 DEF Outputs
  <2> QED BY <1>10, <2>3 DEF CountNotes, Goto, Steps
<1>11. ASSUME NEW t \in Threads, RestartService(t) PROVE TypeOK'
  BY <1>11, CallTypes DEF RestartService, Rejects, Goto, Steps, Outputs
<1>12. ASSUME NEW t \in Threads, Verify(t) PROVE TypeOK'
  BY <1>12 DEF Verify, Goto, Steps, Statuses
<1> QED BY <1>1, <1>2, <1>3, <1>4, <1>5, <1>6, <1>7, <1>8, <1>9, <1>10, <1>11, <1>12
        DEF Next, Step
----------------------------------------------------------------------------
(* The threads' invariant *)

(* The steps that change neither notes nor services concern one thread.    *)
LEMMA QuietOK ==
    ASSUME Inv, NEW t \in Threads, ThreadOK(t)', UNCHANGED <<notes, services>>,
           \A u \in Threads \ {t} :
               /\ pc'[u] = pc[u] /\ call'[u] = call[u] /\ output'[u] = output[u]
               /\ status'[u] = status[u] /\ before'[u] = before[u]
               /\ overtaken'[u] = overtaken[u]
    PROVE  \A u \in Threads : ThreadOK(u)'
<1> TAKE u \in Threads
<1>1. CASE u = t
  BY <1>1
<1>2. CASE u # t
  BY <1>2, BystanderOK DEF Inv
<1> QED BY <1>1, <1>2

(* A call that begins, that fails, or that finds no failure injected.      *)
LEMMA BeginningsOK ==
    ASSUME Inv, NEW t \in Threads,
           \/ \E c \in Calls : Call(t, c)
           \/ CheckFlag(t) \/ ClearFlag(t) \/ Reject(t)
    PROVE  \A u \in Threads : ThreadOK(u)'
<1> USE DEF Inv, TypeOK, Goto
<1>1. ASSUME NEW c \in Calls, Call(t, c) PROVE \A u \in Threads : ThreadOK(u)'
  <2>1. ThreadOK(t)'
    BY <1>1 DEF Call, ThreadOK, StepsOK, AppendOK, ReadOK, RestartOK
  <2> QED BY <1>1, <2>1, QuietOK DEF Call
<1>2. CASE CheckFlag(t)
  <2>1. ThreadOK(t)'
    BY <1>2 DEF CheckFlag, ThreadOK, StepsOK, AppendOK, ReadOK, RestartOK
  <2> QED BY <1>2, <2>1, QuietOK DEF CheckFlag
<1>3. CASE ClearFlag(t)
  <2>1. ThreadOK(t)'
    BY <1>3 DEF ClearFlag, Failed, ThreadOK, StepsOK, AppendOK, ReadOK, RestartOK
  <2> QED BY <1>3, <2>1, QuietOK DEF ClearFlag, Failed
<1>4. CASE Reject(t)
  <2>1. ThreadOK(t)'
    BY <1>4 DEF Reject, Failed, ThreadOK, StepsOK, AppendOK, ReadOK, RestartOK
  <2> QED BY <1>4, <2>1, QuietOK DEF Reject, Failed
<1> QED BY <1>1, <1>2, <1>3, <1>4

(* _notes_append: the note goes in, and overtakes whoever runs. *)
LEMMA AppendNoteOK ==
    ASSUME Inv, NEW t \in Threads, AppendNote(t)
    PROVE  \A u \in Threads : ThreadOK(u)'
<1> USE DEF Inv
<1>1. /\ call[t].text \in Texts /\ notes' = Append(notes, call[t].text)
      /\ before'[t] = notes /\ pc'[t] = "index" /\ overtaken'[t] = {}
      /\ pc[t] = "dispatch" /\ output[t] = Nothing /\ status[t] = "none"
      /\ call[t].action = "append"
      /\ UNCHANGED <<services, call, output, status>>
  BY CallTypes DEF AppendNote, Stored, Goto, TypeOK, ThreadOK, StepsOK
<1>2. ASSUME NEW u \in Threads, u # t PROVE ThreadOK(u)'
  <2>1. /\ pc'[u] = pc[u] /\ before'[u] = before[u]
        /\ overtaken'[u] = IF pc[u] = "idle" THEN overtaken[u] ELSE overtaken[u] \cup {t}
    BY <1>2 DEF AppendNote, Goto, TypeOK
  <2>2. /\ call'[u] = call[u] /\ output'[u] = output[u] /\ status'[u] = status[u]
    BY <1>1
  <2>3. ThreadOK(u)
    OBVIOUS
  <2> QED BY <1>1, <1>2, <2>1, <2>2, <2>3, OvertakenOK
<1>3. ThreadOK(t)'
  <2>1. /\ Len(before'[t]) < Len(notes') /\ Len(notes') = Len(before'[t]) + 1
        /\ notes'[Len(before'[t]) + 1] = call'[t].text
    BY <1>1, NotesStay DEF TypeOK
  <2>2. AppendOK(t)'
    BY <1>1, <2>1 DEF AppendOK
  <2> QED BY <1>1, <2>2 DEF ThreadOK, StepsOK, ReadOK, RestartOK
<1> QED BY <1>2, <1>3

(* _notes_append: the length is read for the index. *)
LEMMA TakeIndexOK ==
    ASSUME Inv, NEW t \in Threads, TakeIndex(t)
    PROVE  \A u \in Threads : ThreadOK(u)'
<1> USE DEF Inv
<1>1. /\ output'[t] = [index |-> Len(notes) - 1] /\ pc'[t] = "verify" /\ pc[t] = "index"
      /\ call[t].action = "append" /\ status[t] = "none"
      /\ UNCHANGED <<notes, services, call, status, before, overtaken>>
  BY DEF TakeIndex, Index, Goto, TypeOK, ThreadOK, StepsOK
<1>2. output'[t] # Nothing
  BY <1>1, OutputsAreSomething
<1>3. AppendOK(t)'
  <2>1. /\ Len(before[t]) < Len(notes) /\ notes[Len(before[t]) + 1] = call[t].text
        /\ overtaken[t] = {} => Len(notes) = Len(before[t]) + 1
        /\ Len(before[t]) \in Nat /\ Len(notes) \in Nat
    BY <1>1, LenProperties DEF TypeOK, ThreadOK, AppendOK
  <2> QED BY <1>1, <2>1 DEF AppendOK
<1>4. ThreadOK(t)'
  BY <1>1, <1>2, <1>3 DEF ThreadOK, StepsOK, ReadOK, RestartOK
<1> QED BY <1>4, QuietOK DEF TakeIndex, Goto, TypeOK
(* _notes_read: the copy. *)
LEMMA CopyNotesOK ==
    ASSUME Inv, NEW t \in Threads, CopyNotes(t)
    PROVE  \A u \in Threads : ThreadOK(u)'
<1> USE DEF Inv
<1>1. /\ output'[t] = [notes |-> notes, count |-> 0] /\ before'[t] = notes
      /\ pc'[t] = "count" /\ overtaken'[t] = {} /\ notes \in Seq(Texts)
      /\ call[t].action = "read" /\ status[t] = "none" /\ pc[t] = "dispatch"
      /\ UNCHANGED <<notes, services, call, status>>
  BY DEF CopyNotes, Copy, Goto, TypeOK, ThreadOK, StepsOK
<1>2. output'[t] # Nothing
  BY <1>1, OutputsAreSomething
<1>3. ReadOK(t)'
  <2>1. /\ output'[t] \in [notes : Seq(Texts), count : Nat] /\ output'[t].notes = before'[t]
        /\ Len(notes) \in Nat
    BY <1>1, LenProperties
  <2> QED BY <1>1, <2>1 DEF ReadOK
<1>4. ThreadOK(t)'
  BY <1>1, <1>2, <1>3 DEF ThreadOK, StepsOK, AppendOK, RestartOK
<1> QED BY <1>4, QuietOK DEF CopyNotes, Goto, TypeOK

(* _notes_read: the count. *)
LEMMA CountNotesOK ==
    ASSUME Inv, NEW t \in Threads, CountNotes(t)
    PROVE  \A u \in Threads : ThreadOK(u)'
<1> USE DEF Inv
<1>1. /\ output'[t] = [output[t] EXCEPT !.count = Len(notes)]
      /\ pc'[t] = "verify" /\ pc[t] = "count"
      /\ call[t].action = "read" /\ status[t] = "none" /\ output[t] # Nothing
      /\ UNCHANGED <<notes, services, call, status, before, overtaken>>
  BY DEF CountNotes, Goto, TypeOK, ThreadOK, StepsOK
<1>2. /\ output[t] \in [notes : Seq(Texts), count : Nat] /\ output[t].notes = before[t]
      /\ Len(before[t]) <= Len(notes)
      /\ \A k \in 1..Len(before[t]) : before[t][k] = notes[k]
      /\ overtaken[t] = {} => Len(notes) = Len(before[t])
      /\ Len(before[t]) \in Nat /\ Len(notes) \in Nat
  BY <1>1, LenProperties DEF TypeOK, ThreadOK, ReadOK
<1>3. output'[t] = [notes |-> before[t], count |-> Len(notes)]
  BY <1>1, <1>2
<1>4. output'[t] # Nothing
  BY <1>3, OutputsAreSomething
<1>5. ReadOK(t)'
  <2>1. output'[t] \in [notes : Seq(Texts), count : Nat]
    BY <1>2, <1>3 DEF TypeOK
  <2>2. output'[t].notes = before[t] /\ output'[t].count = Len(notes)
    BY <1>3
  <2> QED BY <1>1, <1>2, <2>1, <2>2 DEF ReadOK
<1>6. ThreadOK(t)'
  BY <1>1, <1>4, <1>5 DEF ThreadOK, StepsOK, AppendOK, RestartOK
<1> QED BY <1>6, QuietOK DEF CountNotes, Goto, TypeOK

(* _service_restart: nothing else ever stops a service. *)
LEMMA RestartServiceOK ==
    ASSUME Inv, NEW t \in Threads, RestartService(t)
    PROVE  \A u \in Threads : ThreadOK(u)'
<1> USE DEF Inv
<1>1. /\ output'[t] = [service |-> call[t].service, state |-> "running", simulated |-> TRUE]
      /\ services' = [services EXCEPT ![call[t].service] = "running"]
      /\ call[t].service \in Services
      /\ pc'[t] = "verify" /\ pc[t] = "dispatch"
      /\ call[t].action = "restart" /\ status[t] = "none"
      /\ UNCHANGED <<notes, call, status, before, overtaken>>
  BY DEF RestartService, Rejects, Goto, TypeOK, ThreadOK, StepsOK
<1>2. /\ services'[call[t].service] = "running"
      /\ \A s \in Services : services[s] = "running" => services'[s] = "running"
  BY <1>1 DEF TypeOK
<1>3. output'[t] # Nothing
  BY <1>1, OutputsAreSomething
<1>4. ThreadOK(t)'
  BY <1>1, <1>2, <1>3 DEF ThreadOK, StepsOK, AppendOK, ReadOK, RestartOK
<1>5. ASSUME NEW u \in Threads, u # t PROVE ThreadOK(u)'
  BY <1>1, <1>2, <1>5, BystanderOK DEF RestartService, Goto, TypeOK
<1> QED BY <1>4, <1>5

(* verify: what it denies, another thread's append has hidden from it.     *)
LEMMA VerifyOK ==
    ASSUME Inv, NEW t \in Threads, Verify(t)
    PROVE  \A u \in Threads : ThreadOK(u)'
<1> USE DEF Inv
<1>1. /\ pc[t] = "verify" /\ pc'[t] = "idle" /\ output[t] # Nothing
      /\ call[t].action \in {"append", "read", "restart"}
      /\ UNCHANGED <<notes, services, call, output, before, overtaken>>
      /\ status'[t] = IF Confirms(call[t], output[t])
                      THEN "completed" ELSE "verification_failed"
  BY DEF Verify, Goto, TypeOK, ThreadOK, StepsOK
<1>2. /\ AppendOK(t) /\ ReadOK(t) /\ RestartOK(t)
      /\ Len(notes) \in Nat /\ Len(before[t]) \in Nat /\ notes \in Seq(Texts)
  BY LenProperties DEF TypeOK, ThreadOK
<1>3. call[t].action = "restart" => Confirms(call[t], output[t])
  BY <1>1, <1>2 DEF RestartOK, Confirms
<1>4. ASSUME call[t].action = "append", overtaken[t] = {}
      PROVE  Confirms(call[t], output[t])
  <2>1. Len(notes) = Len(before[t]) + 1 /\ notes[Len(before[t]) + 1] = call[t].text
    BY <1>1, <1>2, <1>4 DEF AppendOK
  <2>2. notes # <<>>
    BY <1>2, <2>1, EmptySeq
  <2> QED BY <1>2, <1>4, <2>1, <2>2 DEF Confirms
<1>5. ASSUME call[t].action = "read", overtaken[t] = {}
      PROVE  Confirms(call[t], output[t])
  <2>1. output[t].count = Len(notes)
    BY <1>1, <1>2, <1>5 DEF ReadOK
  <2> QED BY <1>5, <2>1 DEF Confirms
<1>6. StepsOK(t)'
  BY <1>1, <1>3, <1>4, <1>5 DEF StepsOK
<1>7. AppendOK(t)' /\ ReadOK(t)' /\ RestartOK(t)'
  BY <1>1, <1>2 DEF AppendOK, ReadOK, RestartOK
<1>8. ThreadOK(t)'
  BY <1>6, <1>7 DEF ThreadOK
<1> QED BY <1>8, QuietOK DEF Verify, Goto, TypeOK

----------------------------------------------------------------------------
(* Theorems *)

LEMMA StepInv == Inv /\ [Next]_vars => Inv'
<1> SUFFICES ASSUME Inv, [Next]_vars PROVE \A t \in Threads : ThreadOK(t)'
  BY StepTypeOK DEF Inv
<1>1. CASE UNCHANGED vars \/ ArmFailure
  BY <1>1, BystanderOK DEF vars, ArmFailure, Inv
<1>2. ASSUME NEW t \in Threads, NEW c \in Calls, Call(t, c)
      PROVE  \A u \in Threads : ThreadOK(u)'
  BY <1>2, BeginningsOK
<1>3. ASSUME NEW t \in Threads, Step(t) PROVE \A u \in Threads : ThreadOK(u)'
  BY <1>3, BeginningsOK, AppendNoteOK, TakeIndexOK, CopyNotesOK, CountNotesOK,
     RestartServiceOK, VerifyOK DEF Step
<1> QED BY <1>1, <1>2, <1>3 DEF Next

(* The strengthened invariant holds throughout. *)
THEOREM ToolsInv == Spec => []Inv
BY InitInv, StepInv, PTL DEF Spec

(* The registry's state and the calls have their types. *)
THEOREM ToolsTypeCorrect == Spec => []TypeOK
BY ToolsInv, PTL DEF Inv

(* A verification denies only an effect that another append overtook.      *)
THEOREM VerificationDeniesRaces == Spec => []UnverifiedOnlyIfOvertaken
<1>1. Inv => UnverifiedOnlyIfOvertaken
  BY DEF Inv, ThreadOK, StepsOK, UnverifiedOnlyIfOvertaken
<1> QED BY <1>1, ToolsInv, PTL

(* An appended note stays in its place, and its index is of that place or  *)
(* of a later note of another call.                                        *)
THEOREM IndexIsThePlace == Spec => []IndexExactUnlessRaced
<1>1. Inv => IndexExactUnlessRaced
  BY DEF Inv, ThreadOK, AppendOK, Did, IndexExactUnlessRaced
<1> QED BY <1>1, ToolsInv, PTL

(* What a completed read returned is a prefix of the notes, short of the   *)
(* count only by notes that others appended.                               *)
THEOREM ReadIsAPrefix == Spec => []VerifiedReadMissesOnlyRaces
<1>1. ASSUME Inv, NEW t \in Threads, Did(t, "read"), status[t] = "completed"
      PROVE  LET got == output[t].notes IN
             /\ got = SubSeq(notes, 1, Len(got))
             /\ output[t].count \in Len(got)..Len(notes)
             /\ output[t].count > Len(got) => overtaken[t] # {}
  <2>1. /\ pc[t] = "idle" /\ ReadOK(t) /\ output[t] # Nothing /\ call[t].action = "read"
        /\ notes \in Seq(Texts) /\ before[t] \in Seq(Texts)
    BY <1>1 DEF Inv, TypeOK, ThreadOK, StepsOK, Did
  <2>2. /\ output[t].notes = before[t] /\ Len(before[t]) <= Len(notes)
        /\ \A k \in 1..Len(before[t]) : before[t][k] = notes[k]
        /\ output[t].count \in Len(before[t])..Len(notes)
        /\ output[t].count > Len(before[t]) => overtaken[t] # {}
    BY <2>1 DEF ReadOK
  <2>3. before[t] = SubSeq(notes, 1, Len(before[t]))
    BY <2>1, <2>2, SubSeqProperties, LenProperties, SeqEqual
  <2> QED BY <2>2, <2>3
<1>2. Inv => VerifiedReadMissesOnlyRaces
  BY <1>1 DEF VerifiedReadMissesOnlyRaces
<1> QED BY <1>2, ToolsInv, PTL

----------------------------------------------------------------------------
(* One call at a time *)

(* Only another thread overtakes a call. *)
OvertakenByOthers == \A t \in Threads : overtaken[t] \subseteq Threads \ {t}

LEMMA NextOvertaken == Inv /\ OvertakenByOthers /\ [Next]_vars => OvertakenByOthers'
<1> SUFFICES ASSUME Inv, OvertakenByOthers, [Next]_vars
             PROVE  OvertakenByOthers'
  OBVIOUS
<1>1. CASE UNCHANGED overtaken
  BY <1>1 DEF OvertakenByOthers
<1>2. ASSUME NEW t \in Threads, AppendNote(t)
      PROVE  OvertakenByOthers'
  <2>1. \A u \in Threads : overtaken'[u] =
           IF u = t THEN {} ELSE IF pc[u] = "idle" THEN overtaken[u] ELSE overtaken[u] \cup {t}
    BY <1>2 DEF AppendNote
  <2> QED BY <2>1 DEF OvertakenByOthers
<1>3. ASSUME NEW t \in Threads, CopyNotes(t)
      PROVE  OvertakenByOthers'
  <2>1. \A u \in Threads : overtaken'[u] = {} \/ overtaken'[u] = overtaken[u]
    BY <1>3 DEF CopyNotes, Inv, TypeOK
  <2> QED BY <2>1 DEF OvertakenByOthers
<1>4. ASSUME NEW t \in Threads,
             \/ CheckFlag(t) \/ ClearFlag(t) \/ Reject(t) \/ TakeIndex(t) \/ CountNotes(t)
             \/ RestartService(t) \/ Verify(t) \/ \E c \in Calls : Call(t, c)
      PROVE  UNCHANGED overtaken
  BY <1>4 DEF CheckFlag, ClearFlag, Reject, TakeIndex, CountNotes, RestartService, Verify, Call
<1>5. CASE ArmFailure \/ UNCHANGED vars
  BY <1>1, <1>5 DEF ArmFailure, vars
<1> QED BY <1>1, <1>2, <1>3, <1>4, <1>5 DEF Next, Step

(* What the tools promise to one caller at a time: no effect goes          *)
(* unverified, an append reports its own place and a completed read has    *)
(* every note it counts.                                                   *)
SoloIsExact ==
    \A t \in Threads :
        /\ status[t] # "verification_failed"
        /\ Did(t, "append") => output[t].index = Len(before[t])
        /\ Did(t, "read") /\ status[t] = "completed" =>
              output[t].count = Len(output[t].notes)

(* One caller at a time gets exact answers from tools.py, whatever calls it*)
(* makes and whatever failures are injected.                               *)
THEOREM SoloCallsAreExact ==
    ASSUME \A t, u \in Threads : t = u
    PROVE  Spec => []SoloIsExact
<1>1. Init => OvertakenByOthers
  BY DEF Init, OvertakenByOthers
<1>2. Inv /\ OvertakenByOthers => SoloIsExact
  <2> SUFFICES ASSUME Inv, OvertakenByOthers, NEW t \in Threads
               PROVE  /\ status[t] # "verification_failed"
                      /\ Did(t, "append") => output[t].index = Len(before[t])
                      /\ Did(t, "read") /\ status[t] = "completed" =>
                            output[t].count = Len(output[t].notes)
    BY DEF SoloIsExact
  <2>1. overtaken[t] = {}
    BY DEF OvertakenByOthers
  <2>2. ThreadOK(t) /\ Len(notes) \in Nat /\ Len(before[t]) \in Nat
    BY LenProperties DEF Inv, TypeOK
  <2>3. status[t] # "verification_failed"
    BY <2>1, <2>2 DEF ThreadOK, StepsOK
  <2>4. Did(t, "append") => output[t].index = Len(before[t])
    BY <2>1, <2>2 DEF ThreadOK, AppendOK, Did
  <2>5. ASSUME Did(t, "read"), status[t] = "completed"
        PROVE  output[t].count = Len(output[t].notes)
    <3>1. pc[t] # "count"
      BY <2>2, <2>5 DEF ThreadOK, StepsOK
    <3>2. /\ output[t].notes = before[t] /\ output[t].count \in Len(before[t])..Len(notes)
          /\ ~(output[t].count > Len(before[t]))
      BY <2>1, <2>2, <2>5, <3>1 DEF ThreadOK, ReadOK, Did
    <3> QED BY <2>2, <3>2
  <2> QED BY <2>3, <2>4, <2>5
<1> QED BY <1>1, <1>2, ToolsInv, NextOvertaken, PTL DEF Spec

=============================================================================
