SPECIFICATION FairSpec
CONSTANTS
    NumJobs = 1
    NumStages = 1
    Workers = {w1}
    Clients = {c1}
    LeaseLen = 2
    HeartbeatEvery = 1
    MaxAttempts = 0
    MaxFaults = 0
    RowLocks = TRUE
    TimelyHeartbeats = TRUE
    ControlPlane = {"cancel"}
    NoOwner = NoOwner
    LocalWorker = LocalWorker
PROPERTY CancelEndsTerminal
