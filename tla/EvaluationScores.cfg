SPECIFICATION Spec
CONSTANTS
    None = None
    r1 = r1
    r2 = r2
    v1 = v1
    scorer = scorer
    server = server
    bench = bench
    Runners = {r1}
    Variants = {v1}
    Loaders = {scorer, server, bench}
    Scorer = scorer
    Trained = 1
    FirstExports = {0}
    MaxClock = 1
    MaxTroubles = 1
INVARIANT
    ScoredAsValidated
CHECK_DEADLOCK FALSE
