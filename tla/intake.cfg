SPECIFICATION FairSpec
CONSTANTS
    i1 = i1  i2 = i2  s1 = s1
    Delivery <- TwoDeliveries
    Schedule <- OneSchedule
    MaxSlots = 2
    MaxEnds = 2
INVARIANTS IntakeTypeOK NoneForgotten RepeatsAreInterruptions SlotsRunOnce
PROPERTIES ImplementsPromise AcceptedSettles
CHECK_DEADLOCK FALSE
