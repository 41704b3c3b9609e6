\* every event, with a chunk a stream: pushes, quitting, resets, loss, shutdown, the request limit
CONSTANTS
    NoStream = NoStream
    s1 = s1
    s2 = s2
    Streams = {s1, s2}
    Promised = {s2}
    Entries = {"direct"}
    Upgraded = s1
    Refused = {}
    Quitters = {s1}
    High = 1
    MaxBody = 1
    MaxWindow = 1
    MaxRequests = 1
    MayAdjust = FALSE
    MayClose = TRUE
    MayTerminate = TRUE
CHECK_DEADLOCK FALSE
SPECIFICATION Spec
INVARIANTS TypeOK NotIdleWhileServing IdleOnceAnswered
