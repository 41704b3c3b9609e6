SPECIFICATION Spec
CONSTANTS
    Workers = 2
    Signals = 1
    UseReloader = FALSE
    MayRefuse = FALSE
    MayFail = FALSE
PROPERTY DrainsInFull
CHECK_DEADLOCK FALSE
