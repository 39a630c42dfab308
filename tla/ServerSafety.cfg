SPECIFICATION Spec
CONSTANTS
    Workers = {w1, w2, w3}
    Observations = {o1, o2}
    Policies = {p1, p2}
    TimestepOf <- MCTimestepOf
    MustGo <- MCMustGo
    Similar <- MCSimilar
    MaxResets = 2
    Logging = TRUE
    Seeded = TRUE
    NoObs = NoObs
    NoPolicy = NoPolicy
    Free = Free
    None = None
    o1 = o1
    o2 = o2
    o3 = o3
SYMMETRY WorkerSymmetry
CHECK_DEADLOCK FALSE
INVARIANTS
    TypeOK
    OnePlace
    NewestWins
    DeliveredFromOwnSession
    LogIdentifiesChunks
    SeedsNotReused
PROPERTIES
    ImplementsMailbox
