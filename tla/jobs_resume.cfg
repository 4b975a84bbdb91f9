SPECIFICATION Spec
CONSTANTS
    NumJobs = 2
    NumStages = 2
    Workers = {w1}
    Clients = {c1}
    LeaseLen = 2
    HeartbeatEvery = 1
    MaxAttempts = 1
    MaxFaults = 2
    RowLocks = FALSE
    TimelyHeartbeats = TRUE
    ControlPlane = {"resume"}
    NoOwner = NoOwner
    LocalWorker = LocalWorker
INVARIANT EnteredStageIsNew
