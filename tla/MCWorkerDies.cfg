\* One process, one call that raises.
SPECIFICATION ServiceSpec
CONSTANTS
    TaskId = {t1}
    WorkerId = {w1, w2}
    OwnerId = {alice}
    NoWorker = NoWorker
    NoTask = NoTask
    Process = {p1}
    Draw <- AnyId
    Jobs = {"submit"}
    MaxItems = 1
    RetentionSeconds = 9
    TombstoneSeconds = 9
    LeaseSeconds = 1
    MaxTime = 1
    Faulty = {p1}
    MaxFaults = 1
    FailBefore = 1
    Stops = FALSE
SYMMETRY Identities
INVARIANTS
    WorkerRunsUntilShutdown
