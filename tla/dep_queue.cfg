SPECIFICATION Spec
CONSTANTS
    p1 = p1  p2 = p2  u1 = u1  u2 = u2  w1 = w1  w2 = w2
    NoProject = NoProject
    Project <- TwoProjects
    User <- OneUser
    Worker <- TwoWorkers
    Step <- NoSteps
    BuildStep <- NoSteps
    Priority <- FlatPriority
    MaxDeployments = 3
    MaxRequired = 0
    MaxFaults = 1
SYMMETRY Symmetry
INVARIANTS TypeOK OneActivePerProject LocksMatchRows ExecutionIsExclusive NoOrphan
PROPERTIES ImplementsQueue
CHECK_DEADLOCK FALSE
