SPECIFICATION FairSpec
CONSTANTS
    p1 = p1  p2 = p2  u1 = u1  u2 = u2  w1 = w1  w2 = w2
    NoProject = NoProject
    Project <- OneProject
    User <- OneUser
    Worker <- TwoWorkers
    Step <- NoSteps
    BuildStep <- NoSteps
    Priority <- FlatPriority
    MaxDeployments = 2
    MaxRequired = 1
    MaxFaults = 0
PROPERTIES ApprovedIsTaken CancellingSettles
CHECK_DEADLOCK FALSE
