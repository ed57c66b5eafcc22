\* One process and a client that submits and asks, through crashes, shutdowns, a
\* call that raises, expiry (at 1 second of age) and deletion (at 2).
SPECIFICATION ServiceSpec
CONSTANTS
    TaskId = {t1}
    WorkerId = {w1, w2}
    OwnerId = {alice}
    NoWorker = NoWorker
    NoTask = NoTask
    Process = {p1}
    Draw <- AnyId
    Jobs = {"submit", "status", "results", "summary"}
    MaxItems = 2
    RetentionSeconds = 1
    TombstoneSeconds = 1
    LeaseSeconds = 1
    MaxTime = 3
    Faulty = {p1}
    MaxFaults = 1
    FailBefore = 2
    Stops = TRUE
SYMMETRY Identities
INVARIANTS
    ServiceTypeOK
    ResultsAreWhole
    SummaryMatchesItems
PROPERTIES
    AnswersAdvance
