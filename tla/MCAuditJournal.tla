--------------------------- MODULE MCAuditJournal ---------------------------
(***************************************************************************)
(* Instances of AuditJournal for TLC: two writers that may race, and       *)
(* payloads enough for two events to differ.                               *)
(***************************************************************************)
EXTENDS AuditJournal, TLC

CONSTANTS w1, w2, x, y

TwoWriters == {w1, w2}
MCPayloads == {x, y}

=============================================================================
