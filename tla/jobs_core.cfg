SPECIFICATION Spec
CONSTANTS
    NumJobs = 1
    NumStages = 2
    Workers = {w1, w2}
    Clients = {c1}
    LeaseLen = 1
    HeartbeatEvery = 1
    MaxAttempts = 0
    MaxFaults = 1
    RowLocks = TRUE
    TimelyHeartbeats = FALSE
    ControlPlane = {"cancel", "run"}
    NoOwner = NoOwner
    LocalWorker = LocalWorker
SYMMETRY WorkerSymmetry
INVARIANTS TypeOK SucceededComplete CheckpointPrefix SeenCancelNeverSucceeds RunsMatchStore
PROPERTIES CancelSticky KeepsContract
