SPECIFICATION Spec
CONSTANTS
    w1 = w1  w2 = w2
    Write <- OneWrite
    NoData = NoData
    MaxChanges = 1
    MaxFaults = 0
    MaxMoves = 0
INVARIANTS EditsAreAccepted
CHECK_DEADLOCK FALSE
