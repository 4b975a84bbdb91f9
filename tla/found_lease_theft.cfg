SPECIFICATION Spec
CONSTANTS
    NumJobs = 1
    NumStages = 2
    Workers = {w1, w2}
    Clients = {c1}
    LeaseLen = 3
    HeartbeatEvery = 1
    MaxAttempts = 0
    MaxFaults = 0
    RowLocks = TRUE
    TimelyHeartbeats = TRUE
    ControlPlane = {}
    NoOwner = NoOwner
    LocalWorker = LocalWorker
PROPERTY HeartbeatProtectsLease
