SPECIFICATION Spec
CONSTANTS
    r1 = r1
    xa = xa
    xb = xb
    k1 = k1
    k2 = k2
    c1 = c1
    c2 = c2
    Null = Null
    Repos <- OneRepo
    Extractors <- OneExtractor
    Workers <- OneWorker
    Commits <- OneCommit
    MaxObservation = 2
    MaxClaims = 2
    MaxTime = 3
    MaxLag = 0
    LeaseDurations = {1}
    FailureClasses = {"runner"}
    BaseBackoff = 1
    HeadCommit <- Heads
    Clean <- AllClean
INVARIANTS
    ExpiredClaimReleasable
CHECK_DEADLOCK FALSE
