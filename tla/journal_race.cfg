CONSTANTS
    w1 = w1  w2 = w2  x = x  y = y  Garbage = Garbage
    Writers <- TwoWriters
    Payloads <- MCPayloads
    MaxLines = 4
    MaxCuts = 1
    MaxEdits = 2
SPECIFICATION Spec
CHECK_DEADLOCK FALSE
INVARIANTS OnlyForksAlarm NothingLost
PROPERTIES TamperingShows DamageStays
