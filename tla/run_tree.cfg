SPECIFICATION RunnerSpec
CONSTANTS
    p1 = p1  p2 = p2  u1 = u1  u2 = u2  w1 = w1  w2 = w2
    NoProject = NoProject
    Project <- OneProject
    User <- NoUser
    Worker <- OneWorker
    Step <- BuildOnly
    BuildStep <- BuildOnly
    Priority <- FlatPriority
    MaxDeployments = 1
    MaxRequired = 0
    MaxFaults = 0
    SavesArtifacts = FALSE
INVARIANTS CancelledTreeIsGone
CHECK_DEADLOCK FALSE
