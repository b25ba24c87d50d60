SPECIFICATION FairSpec
CONSTANTS
    Calls = {p1, p2}
    Requests = {e1, e2}
    ClaimOf <- TheFirst
    MaxClaims = 2
    MaxBeats = 1
INVARIANTS
    OneExtractor
    SuccessIsDurable
PROPERTIES
    EveryCallReturns
CHECK_DEADLOCK FALSE
