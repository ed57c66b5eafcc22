\* Two processes register the same content; one of them is refused.
SPECIFICATION StoreSpec
CONSTANTS
    Process = {p1, p2}
    Name = {m1, m2}
    Digest = {d1, d2}
    NoProcess = NoProcess
    NoName = NoName
    NoDigest = NoDigest
    Requested = {1}
    MaxInt = 9
    MaxRegistrations = 3
    MaxActivations = 0
    MayFail = FALSE
    MayRaise = FALSE
    MayCrash = FALSE
SYMMETRY Alike
INVARIANTS
    ArtifactsPresent
