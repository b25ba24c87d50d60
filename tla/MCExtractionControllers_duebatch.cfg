SPECIFICATION Spec
CONSTANTS
    s1 = s1
    s2 = s2
    t1 = t1
    t2 = t2
    Operator = Operator
    Idle = Idle
    Streams <- OneStream
    MaxObservation <- Lopsided
    MaxClaims = 1
    Ticks <- OneTick
    Limit = 2
INVARIANTS
    DueBatchConsumable
CHECK_DEADLOCK FALSE
