CONSTANTS
    t1 = t1  t2 = t2  x = x  y = y
    Threads <- MCThreads
    Texts <- MCTexts
    InitialServices <- MCServices
    UnknownService = "other"
    MaxNotes = 3
    MaxArms = 1
SPECIFICATION Spec
SYMMETRY Symmetry
INVARIANTS TypeOK UnverifiedOnlyIfOvertaken IndexExactUnlessRaced VerifiedReadMissesOnlyRaces
