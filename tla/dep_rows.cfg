SPECIFICATION Spec
CONSTANTS
    p1 = p1  p2 = p2  u1 = u1  u2 = u2  w1 = w1  w2 = w2
    NoProject = NoProject
    Project <- OneProject
    User <- TwoUsers
    Worker <- OneWorker
    Step <- BuildOnly
    BuildStep <- NoSteps
    Priority <- TwoPriorities
    MaxDeployments = 2
    MaxRequired = 2
    MaxFaults = 0
SYMMETRY Symmetry
INVARIANTS ApprovalGate RollbackSourceKept
CHECK_DEADLOCK FALSE
