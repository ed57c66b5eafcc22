\* Two processes: retention runs on one while the other reads results.
SPECIFICATION ServiceSpec
CONSTANTS
    TaskId = {t1}
    WorkerId = {w1, w2}
    OwnerId = {alice}
    NoWorker = NoWorker
    NoTask = NoTask
    Process = {p1, p2}
    Draw <- AnyId
    Jobs = {"submit", "results"}
    MaxItems = 1
    RetentionSeconds = 1
    TombstoneSeconds = 1
    LeaseSeconds = 1
    MaxTime = 2
    Faulty = {p1, p2}
    MaxFaults = 0
    FailBefore = 0
    Stops = FALSE
SYMMETRY Identities
INVARIANTS
    ResultsAreWhole
