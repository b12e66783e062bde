SPECIFICATION Spec
CONSTANTS
    Workers = {w1, w2}
    Results = {r1, r2}
    Drain = drain
    MayCrash = TRUE
    MaxFetched = 2
INVARIANTS
    MutualExclusion
    SubmittedAtMostOnce
