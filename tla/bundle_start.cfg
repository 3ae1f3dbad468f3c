CONSTANTS
    strict = strict  lax = lax  k1 = k1  k2 = k2  s1 = s1  s2 = s2
    Policies <- MCPolicies
    KeyIds <- MCKeyIds
    Secrets <- MCSecrets
    Keyrings <- MCKeyrings
    NoVerifier = NoVerifier  NoProvenance = NoProvenance
    Idle = Idle  Down = Down  Undecided = Undecided
    Skews <- MCSkews
    MaxTime = 2
    MaxSigned = 1
SPECIFICATION Spec
SYMMETRY Symmetry
INVARIANTS DecidedAsSigned RequiredMeansSigned StartsIffGenuine
