---------------------------- MODULE MCMCPClient ----------------------------
(***************************************************************************)
(* Two threads and three requests: enough for a stalled allocation to      *)
(* bring back an id that an earlier, finished request had.                 *)
(***************************************************************************)
EXTENDS MCPClient, TLC

CONSTANTS t1, t2

MCModes == {"trusted", "malicious_metadata", "injected_output", "exfiltration",
            "schema_swap", "impersonator"}
MCThreads == {t1, t2}
Symmetry == Permutations(MCThreads)

=============================================================================
