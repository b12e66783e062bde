SPECIFICATION FairSpec
CONSTANTS
    Workers = {w1, w2, w3}
    Results = {r1, r2}
    Drain = drain
    MayCrash = FALSE
    MaxFetched = 2
INVARIANTS
    LockInv
    MutualExclusion
    HeldHasHolder
PROPERTIES
    ImplementsQueue
    LockReleased
