SPECIFICATION FairSpec
CONSTANTS
    s1 = s1
    s2 = s2
    t1 = t1
    t2 = t2
    Operator = Operator
    Idle = Idle
    Streams <- TwoStreams
    MaxObservation <- Lopsided
    MaxClaims = 1
    Ticks <- OneTick
    Limit = 1
PROPERTIES
    LostClaimsReleased
    DueDecisionsConsumed
CHECK_DEADLOCK FALSE
