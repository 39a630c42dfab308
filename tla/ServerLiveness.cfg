SPECIFICATION FairSpec
CONSTANTS
    Workers = {w1, w2}
    Observations = {o1, o2}
    Policies = {p1}
    TimestepOf <- MCTimestepOf
    MustGo <- MCMustGo
    Similar <- MCSimilar
    MaxResets = 1
    Logging = FALSE
    Seeded = FALSE
    NoObs = NoObs
    NoPolicy = NoPolicy
    Free = Free
    None = None
    o1 = o1
    o2 = o2
    o3 = o3
CHECK_DEADLOCK FALSE
PROPERTIES
    CancelledCallEnds
    LockReleased
    StopDrains
