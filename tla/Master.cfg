SPECIFICATION FairSpec
CONSTANTS
    Workers = 3
    Signals = 3
    UseReloader = TRUE
    MayRefuse = TRUE
    MayFail = TRUE
INVARIANTS TypeOK ExitCodeKept NoneLeftBehind
PROPERTY ShutdownEnds
CHECK_DEADLOCK FALSE
