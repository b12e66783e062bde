SPECIFICATION Spec
CONSTANTS
    Workers = {w1, w2}
    Results = {r1, r2}
    Drain = drain
    MayCrash = TRUE
    MaxFetched = 1
INVARIANT HeldHasHolder
