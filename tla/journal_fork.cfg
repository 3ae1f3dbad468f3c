CONSTANTS
    w1 = w1  w2 = w2  x = x  y = y  Garbage = Garbage
    Writers <- TwoWriters
    Payloads <- MCPayloads
    MaxLines = 3
    MaxCuts = 0
    MaxEdits = 0
SPECIFICATION Spec
CHECK_DEADLOCK FALSE
INVARIANT NoFalseAlarm
