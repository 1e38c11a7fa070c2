SPECIFICATION FairSpec
CONSTANTS
    w1 = w1  w2 = w2
    Write <- TwoWrites
    NoData = NoData
    MaxChanges = 2
    MaxFaults = 1
    MaxMoves = 1
INVARIANTS PanelsTypeOK WritesAreCovered
PROPERTIES NeverOlder WritesShow PollingCatchesUp
CHECK_DEADLOCK FALSE
