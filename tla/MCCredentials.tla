---------------------------- MODULE MCCredentials ----------------------------
(***************************************************************************)
(* Two ticks to the second; ttls of half a second and of a second and a    *)
(* half; a leeway of one second, and an issuer whose clock is behind by    *)
(* half a second, right, or ahead by more than the leeway.                 *)
(***************************************************************************)
EXTENDS Credentials, TLC

CONSTANTS t1, t2, agent, stranger, here, old, new

MCThreads == {t1, t2}
MCAgents == {agent, stranger}
MCAudiences == {here}
MCSecrets == {old, new}
MCLives == {1, 3}
MCSkews == {-1, 0, 5}

Symmetry == Permutations(MCThreads) \cup Permutations(MCAgents)
            \cup Permutations(MCSecrets)

=============================================================================
