\* Two processes work on one task of up to two items and answer its client, with
\* takeovers (lease 1), a crash and restart at time 0, and expiry.
SPECIFICATION ServiceSpec
CONSTANTS
    TaskId = {t1}
    WorkerId = {w1, w2, w3}
    OwnerId = {alice}
    NoWorker = NoWorker
    NoTask = NoTask
    Process = {p1, p2}
    Draw <- AnyId
    Jobs = {"submit", "status"}
    MaxItems = 2
    RetentionSeconds = 2
    TombstoneSeconds = 9
    LeaseSeconds = 1
    MaxTime = 2
    Faulty = {p1, p2}
    MaxFaults = 0
    FailBefore = 1
    Stops = FALSE
SYMMETRY Identities
INVARIANTS
    ItemAwaitsItsHolder
    LostLeaseIsHarmless
PROPERTIES
    LeaseNeverShrinks
    AnswersAdvance
