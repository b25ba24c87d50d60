SPECIFICATION Spec
CONSTANTS
    s1 = s1
    s2 = s2
    t1 = t1
    t2 = t2
    Operator = Operator
    Idle = Idle
    Streams <- OneStream
    MaxObservation <- Lopsided
    MaxClaims = 2
    Ticks <- TwoTicks
    Limit = 2
PROPERTIES
    StaleSnapshotHarmless
CONSTRAINT FewReleases
SYMMETRY TickSymmetry
CHECK_DEADLOCK FALSE
