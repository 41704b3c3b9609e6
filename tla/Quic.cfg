SPECIFICATION FairSpec
CONSTANTS
    Streams = {s1}
    Timers = {t1, t2}
    Cids = {c0, c1}
    Original = c0
    Reader = reader
    None = none
    MaxEvents = 4
INVARIANTS TypeOK TimerArmed
PROPERTIES Forgotten ResetTold
CHECK_DEADLOCK FALSE
