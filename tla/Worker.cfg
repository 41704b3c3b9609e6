SPECIFICATION FairSpec
CONSTANTS
    Mounts = {m1, m2}
    Conns = {c1, c2}
    MaxRequests = 1
    Served = 3
    MayStall = TRUE
INVARIANTS TypeOK ServedWithinLifespan
PROPERTIES WorkerEnds StartupEnds
CHECK_DEADLOCK FALSE
