---------------------------- MODULE AuditJournal ----------------------------
(***************************************************************************)
(* The hash-chained journal of src/trust_gateway/audit.py.  append reads   *)
(* the hash of the last line, builds its event on it and writes one line   *)
(* with a file handle of its own; nothing locks the file between the two.  *)
(* A write cut short (a kill, a full disk) leaves an unreadable line or a  *)
(* line without its newline, and what is written next lands on that line.  *)
(* Edit and Swap are changes made behind the program's back, the cases of  *)
(* tests/test_audit.py and docs/THREAT_MODEL.md, "Audit tampering".        *)
(*                                                                         *)
(* SHA-256 is ideal: the hash of an event is the sequence of the payloads  *)
(* it was built on, so two hashes agree only if all below them does.       *)
(***************************************************************************)
EXTENDS Naturals, Sequences, FiniteSets

CONSTANTS Writers,        \* threads and processes that append
          Payloads,       \* timestamp, event_type and payload together
          Garbage,        \* a line that json.loads rejects
          MaxLines,       \* no append starts on a longer journal
          MaxCuts, MaxEdits

VARIABLES lines,          \* the file
          bare,           \* its last line has no newline yet
          pc, tail, body, \* per writer: the hash it read, the payload it has
          acknowledged,   \* history: how many appends have returned
          cuts, edits     \* history: how often the file was damaged

writers == <<pc, tail, body>>
vars == <<lines, bare, writers, acknowledged, cuts, edits>>

Hashes == Seq(Payloads)
Lines == [previous_hash : Hashes, payload : Payloads, event_hash : Hashes]

ASSUME GarbageAssumption == Garbage \notin Payloads /\ Garbage \notin Lines

GENESIS == <<>>

Hash(previous_hash, payload) == Append(previous_hash, payload)

MutEvent(previous_hash, payload) ==
    [previous_hash |-> previous_hash, payload |-> payload,
     event_hash |-> Hash(GENESIS, payload)]
Event(previous_hash, payload) ==
    [previous_hash |-> previous_hash, payload |-> payload,
     event_hash |-> Hash(previous_hash, payload)]

(* The hash a line is expected to name: of line k - 1, or GENESIS. *)
HashBefore(file, k) == IF k = 1 THEN GENESIS ELSE file[k - 1].event_hash

(* verify() returns True: every line can be read, names the hash of the    *)
(* line before it and carries the hash of what it says.                    *)
MutIntact(file) ==
    \A k \in 1..Len(file) : /\ file[k] # Garbage
                            /\ file[k].previous_hash = HashBefore(file, k)
MutIntactEnd(file) ==
    file # <<>> => /\ file[Len(file)] # Garbage
                   /\ file[Len(file)].event_hash =
                        Hash(file[Len(file)].previous_hash, file[Len(file)].payload)
Intact(file) ==
    \A k \in 1..Len(file) :
        /\ file[k] # Garbage
        /\ file[k].previous_hash = HashBefore(file, k)
        /\ file[k].event_hash = Hash(file[k].previous_hash, file[k].payload)

Init ==
    /\ lines = <<>> /\ bare = FALSE
    /\ pc = [w \in Writers |-> "idle"]
    /\ tail = [w \in Writers |-> GENESIS]
    /\ body = [w \in Writers |-> Garbage]
    /\ acknowledged = 0 /\ cuts = 0 /\ edits = 0

(* _last_hash; when the last line cannot be read, append raises here. *)
LastHash(file) == IF file = <<>> THEN GENESIS ELSE file[Len(file)].event_hash

Readable(file) == file # <<>> => file[Len(file)] # Garbage

ReadTail(w, payload) ==
    /\ pc[w] = "idle" /\ Len(lines) < MaxLines
    /\ Readable(lines)
    /\ pc' = [pc EXCEPT ![w] = "write"]
    /\ tail' = [tail EXCEPT ![w] = LastHash(lines)]
    /\ body' = [body EXCEPT ![w] = payload]
    /\ UNCHANGED <<lines, bare, acknowledged, cuts, edits>>

(* The file after `line' is written at its end. *)
MutWritten(line) == <<line>>
Written(line) == IF bare THEN [lines EXCEPT ![Len(lines)] = Garbage]
                 ELSE Append(lines, line)

Rest(w) == /\ pc' = [pc EXCEPT ![w] = "idle"]
           /\ tail' = [tail EXCEPT ![w] = GENESIS]
           /\ body' = [body EXCEPT ![w] = Garbage]

Write(w) ==
    /\ pc[w] = "write"
    /\ lines' = Written(Event(tail[w], body[w]))
    /\ bare' = FALSE
    /\ Rest(w)
    /\ acknowledged' = acknowledged + 1
    /\ UNCHANGED <<cuts, edits>>

(* The writer fails in the write: after part of the line, or after all of  *)
(* it but the newline.                                                     *)
WriteCutShort(w) ==
    /\ pc[w] = "write" /\ cuts < MaxCuts
    /\ \E line \in {Garbage, Event(tail[w], body[w])} : lines' = Written(line)
    /\ bare' = TRUE
    /\ Rest(w)
    /\ cuts' = cuts + 1
    /\ UNCHANGED <<acknowledged, edits>>

(* The writer dies before it wrote anything. *)
Abandon(w) ==
    /\ pc[w] = "write"
    /\ Rest(w)
    /\ UNCHANGED <<lines, bare, acknowledged, cuts, edits>>

Tampering == /\ edits < MaxEdits
             /\ edits' = edits + 1
             /\ UNCHANGED <<bare, writers, acknowledged, cuts>>

(* Someone rewrites what one event says. *)
Edit(k, payload) ==
    /\ k \in 1..Len(lines) /\ lines[k] # Garbage
    /\ payload # lines[k].payload
    /\ lines' = [lines EXCEPT ![k].payload = payload]
    /\ Tampering

(* Someone exchanges two lines that differ. *)
Swap(j, k) ==
    /\ j \in 1..Len(lines) /\ k \in 1..Len(lines)
    /\ lines[j] # lines[k]
    /\ lines' = [lines EXCEPT ![j] = lines[k], ![k] = lines[j]]
    /\ Tampering

Next ==
    \/ \E w \in Writers, payload \in Payloads : ReadTail(w, payload)
    \/ \E w \in Writers : Write(w) \/ WriteCutShort(w) \/ Abandon(w)
    \/ \E k \in 1..Len(lines), payload \in Payloads : Edit(k, payload)
    \/ \E j, k \in 1..Len(lines) : Swap(j, k)

Spec == Init /\ [][Next]_vars

----------------------------------------------------------------------------
(* Properties *)

(* A file nobody damaged verifies: what test_audit.py asserts of a journal *)
(* that was only appended to.                                              *)
NoFalseAlarm == edits = 0 /\ cuts = 0 => Intact(lines)

(* The journal of racing writers never alarms for another reason than that *)
(* two of them built on the same event: the fork is in the file to be seen.*)
OnlyForksAlarm ==
    edits = 0 /\ cuts = 0 /\ ~Intact(lines) =>
        \E j, k \in 1..Len(lines) :
            j # k /\ lines[j].previous_hash = lines[k].previous_hash

(* Rewriting an event or exchanging two lines of a sound journal is        *)
(* detected at once (docs/THREAT_MODEL.md, "Audit tampering").             *)
TamperingShows ==
    [][edits' # edits /\ Intact(lines) => ~Intact(lines')]_vars

(* No append ever makes a broken journal verify again: damage found once   *)
(* stays found until someone changes the file.                             *)
DamageStays == [][edits' = edits /\ ~Intact(lines) => ~Intact(lines')]_vars

(* As long as no write is cut short, every append that returned has its    *)
(* line in the file: racing writers fork the chain and lose no event.      *)
NothingLost ==
    cuts = 0 => Cardinality({k \in 1..Len(lines) : lines[k] # Garbage}) = acknowledged

=============================================================================
