\* Two processes, two tasks: which worker takes, holds and works on which. One call
\* may raise; no process restarts.
SPECIFICATION ServiceSpec
CONSTANTS
    TaskId = {t1, t2}
    WorkerId = {w1, w2}
    OwnerId = {alice}
    NoWorker = NoWorker
    NoTask = NoTask
    Process = {p1, p2}
    Draw <- AnyId
    Jobs = {"submit"}
    MaxItems = 1
    RetentionSeconds = 2
    TombstoneSeconds = 1
    LeaseSeconds = 1
    MaxTime = 2
    Faulty = {p1, p2}
    MaxFaults = 1
    FailBefore = 1
    Stops = FALSE
SYMMETRY Identities
INVARIANTS
    LeaseIsBeingWorked
    SummaryMatchesItems
PROPERTIES
    ClaimsInOrder
    OnlyHolderWrites
    UsesRepository
