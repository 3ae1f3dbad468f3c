--------------------------- MODULE MCPolicyBundle ---------------------------
(***************************************************************************)
(* A strict and a lax policy, two key ids, a secret and the one it was     *)
(* rotated to, and a signer whose clock is right or two ticks ahead.       *)
(***************************************************************************)
EXTENDS PolicyBundle, TLC

CONSTANTS strict, lax, k1, k2, s1, s2

MCPolicies == {strict, lax}
MCKeyIds == {k1, k2}
MCSecrets == {s1, s2}
MCKeyrings == {k1 :> s1, k1 :> s2}
MCSkews == {0, 2}

Symmetry == Permutations(MCPolicies)

=============================================================================
