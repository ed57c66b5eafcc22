\* One process, no crash, no failing disk; the largest version is registered and
\* then one more.
SPECIFICATION StoreSpec
CONSTANTS
    Process = {p1}
    Name = {m1}
    Digest = {d1, d2}
    NoProcess = NoProcess
    NoName = NoName
    NoDigest = NoDigest
    Requested = {3}
    MaxInt = 3
    MaxRegistrations = 2
    MaxActivations = 0
    MayFail = FALSE
    MayRaise = FALSE
    MayCrash = FALSE
SYMMETRY Alike
INVARIANTS
    NoOrphans
