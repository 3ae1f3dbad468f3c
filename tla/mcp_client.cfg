CONSTANTS
    t1 = t1  t2 = t2  Nothing = Nothing
    Threads <- MCThreads
    Modes <- MCModes
    MaxRequests = 3
SPECIFICATION Spec
SYMMETRY Symmetry
CHECK_DEADLOCK FALSE
INVARIANTS OwnAnswerUnlessRaced LabCasesHold
