\* Two processes that register and activate versions of two models at once, of two
\* contents; statements and commits may fail, processes crash anywhere, and versions
\* go beyond the largest integer.
SPECIFICATION StoreSpec
CONSTANTS
    Process = {p1, p2}
    Name = {m1, m2}
    Digest = {d1, d2}
    NoProcess = NoProcess
    NoName = NoName
    NoDigest = NoDigest
    Requested = {1}
    MaxInt = 2
    MaxRegistrations = 4
    MaxActivations = 2
    MayFail = TRUE
    MayRaise = TRUE
    MayCrash = TRUE
SYMMETRY Alike
INVARIANTS
    StoreTypeOK
    CatalogIsWhole
    ActiveIsLastActivated
    AnswersOwnVersion
    LostOnlyToCleanup
    OrphansAreStray
    UploadsAccountedFor
PROPERTIES
    AutoNeverRefused
    ImplementsCatalog
