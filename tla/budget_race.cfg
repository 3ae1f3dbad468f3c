CONSTANTS
    t1 = t1  t2 = t2  a1 = a1  a2 = a2  NoJob = NoJob  NoList = NoList
    Threads <- TwoThreads
    Agents <- TwoAgents
    Lists <- MCLists
    Limit = 2
    Window = 2
    Costs <- MCCosts
    MaxTime = 3
    MaxCalls = 3
SPECIFICATION Spec
CHECK_DEADLOCK FALSE
VIEW View
SYMMETRY Symmetry
INVARIANTS TypeOK SoloWithinLimit NeverOvercharged RefusedOnlyWhenFull
