\* One task of up to three items, two workers, timestamps up to the whole age of
\* the task: queued at 0 or later, leases of 1, expiry at 3, deletion at 4.
\* Texts have two instants to the second.
SPECIFICATION Spec
CONSTANTS
    TaskId = {t1}
    WorkerId = {w1, w2}
    OwnerId = {alice}
    NoWorker = NoWorker
    MaxItems = 3
    RetentionSeconds = 3
    TombstoneSeconds = 1
    LeaseSeconds = 1
    MaxTime = 4
    Radix = 2
    SecondDigits = 3
    FractionDigits = 1
SYMMETRY Identities
INVARIANTS
    TypeOK
    CountersMatchItems
    StatusIsTruthful
    LeaseMatchesStatus
    ErasureIsComplete
    RecordsLoad
    TimesCompareAsText
PROPERTIES
    TerminalIsFinal
    NothingLostEarly
    LeaseTakenOnlyExpired
    ImplementsLifecycle
