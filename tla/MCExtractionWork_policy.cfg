SPECIFICATION Spec
CONSTANTS
    r1 = r1
    xa = xa
    xb = xb
    k1 = k1
    k2 = k2
    c1 = c1
    c2 = c2
    Null = Null
    Repos <- OneRepo
    Extractors <- OneExtractor
    Workers <- OneWorker
    Commits <- OneCommit
    MaxObservation = 1
    MaxClaims = 3
    MaxTime = 4
    MaxLag = 0
    LeaseDurations = {2}
    FailureClasses = {"runner", "deterministic", "unclassified"}
    BaseBackoff = 1
    HeadCommit <- Heads
    Clean <- AllClean
INVARIANTS
    AuditReplays
    ReleasedOnce
    PolicyObserved
CONSTRAINT NothingExtracted
CHECK_DEADLOCK FALSE
