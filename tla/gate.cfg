SPECIFICATION FairSpec
CONSTANTS
    t1 = t1  t2 = t2  b1 = b1  b2 = b2
    Tab <- TwoTabs
    Browser <- TwoBrowsers
    MaxSessions = 2
    MaxLoads = 1
    MaxFaults = 1
INVARIANTS GateTypeOK
PROPERTIES LogoutIsLocal LoginLeadsToShell FormComesBack
CHECK_DEADLOCK FALSE
