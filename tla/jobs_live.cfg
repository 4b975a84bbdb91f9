SPECIFICATION ProgressSpec
CONSTANTS
    NumJobs = 1
    NumStages = 1
    Workers = {w1, w2}
    Clients = {c1}
    LeaseLen = 1
    HeartbeatEvery = 1
    MaxAttempts = 1
    MaxFaults = 1
    RowLocks = FALSE
    TimelyHeartbeats = TRUE
    ControlPlane = {"cancel"}
    NoOwner = NoOwner
    LocalWorker = LocalWorker
PROPERTIES QueuedEventuallyRests RunsDrain CancelLands
