------------------------------- MODULE MCTools -------------------------------
(***************************************************************************)
(* Two threads, three notes of two texts, a service that runs and one that *)
(* does not, one injected failure.                                         *)
(***************************************************************************)
EXTENDS Tools, TLC

CONSTANTS t1, t2, x, y

MCThreads == {t1, t2}
MCTexts == {x, y}
MCServices == ("demo" :> "running") @@ ("spare" :> "stopped")

Symmetry == Permutations(MCThreads) \cup Permutations(MCTexts)

=============================================================================
