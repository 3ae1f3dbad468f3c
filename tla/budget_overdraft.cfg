CONSTANTS
    t1 = t1  t2 = t2  a1 = a1  a2 = a2  NoJob = NoJob  NoList = NoList
    Threads <- TwoThreads
    Agents <- OneAgent
    Lists <- MCLists
    Limit = 3
    Window = 2
    Costs <- HighCosts
    MaxTime = 2
    MaxCalls = 2
SPECIFICATION Spec
CHECK_DEADLOCK FALSE
INVARIANT GrantsWithinLimit
