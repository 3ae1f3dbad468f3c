CONSTANTS
    t1 = t1  t2 = t2  agent = agent  stranger = stranger
    here = here  old = old  new = new
    Threads <- MCThreads
    Agents <- MCAgents
    Audiences <- MCAudiences
    Secrets <- MCSecrets
    Audience = here
    Second = 2
    Leeway = 2
    Lives <- MCLives
    Skews <- MCSkews
    MaxTime = 7
    MaxTokens = 1
    MaxRestarts = 1
SPECIFICATION Spec
SYMMETRY Symmetry
CHECK_DEADLOCK FALSE
INVARIANTS RevokedNeverAccepted RevocationLeavesTrace ExpiryIsOnTime WindowIsBounded
