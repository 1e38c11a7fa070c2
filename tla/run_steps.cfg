SPECIFICATION FairRunnerSpec
CONSTANTS
    p1 = p1  p2 = p2  u1 = u1  u2 = u2  w1 = w1  w2 = w2
    NoProject = NoProject
    Project <- OneProject
    User <- NoUser
    Worker <- OneWorker
    Step <- BuildDeploy
    BuildStep <- BuildOnly
    Priority <- FlatPriority
    MaxDeployments = 1
    MaxRequired = 0
    MaxFaults = 1
    SavesArtifacts = TRUE
INVARIANTS RunnerTypeOK StepsInOrder OnlyFailuresLeaveProcess
PROPERTIES ImplementsService RunsEnd
CHECK_DEADLOCK FALSE
