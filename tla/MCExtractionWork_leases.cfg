SPECIFICATION Spec
CONSTANTS
    r1 = r1
    xa = xa
    xb = xb
    k1 = k1
    k2 = k2
    c1 = c1
    c2 = c2
    Null = Null
    Repos <- OneRepo
    Extractors <- OneExtractor
    Workers <- TwoWorkers
    Commits <- OneCommit
    MaxObservation = 1
    MaxClaims = 2
    MaxTime = 3
    MaxLag = 1
    LeaseDurations = {1, 2}
    FailureClasses = {"runner"}
    BaseBackoff = 1
    HeadCommit <- Heads
    Clean <- AllClean
INVARIANTS
    LeaseRespected
PROPERTIES
    ClaimNeverReturns
CHECK_DEADLOCK FALSE
