\* Two processes that may be stopped at any time and crash at time 0, when also one
\* call may raise; leases of 1 expire within the run and retention does not.
SPECIFICATION FairServiceSpec
CONSTANTS
    TaskId = {t1}
    WorkerId = {w1, w2, w3}
    OwnerId = {alice}
    NoWorker = NoWorker
    NoTask = NoTask
    Process = {p1, p2}
    Draw <- OneId
    Jobs = {"submit"}
    MaxItems = 2
    RetentionSeconds = 9
    TombstoneSeconds = 9
    LeaseSeconds = 1
    MaxTime = 1
    Faulty = {p1}
    MaxFaults = 1
    FailBefore = 1
    Stops = TRUE
INVARIANTS
    LeaseIsBeingWorked
PROPERTIES
    EveryTaskEnds
    ShutdownCompletes
