SPECIFICATION Spec
CONSTANTS
    None = None
    r1 = r1
    r2 = r2
    v1 = v1
    scorer = scorer
    server = server
    bench = bench
    Runners = {r1, r2}
    Variants = {v1}
    Loaders = {scorer}
    Scorer = scorer
    Trained = 1
    FirstExports = {1}
    MaxClock = 2
    MaxTroubles = 2
SYMMETRY RunnerSymmetry
INVARIANTS
    FloorMeasured
    ComparedWhatFloorMeasured
    FloorFirst
CHECK_DEADLOCK FALSE
