\* the request of an h2c upgrade is refused
CONSTANTS
    NoStream = NoStream
    s1 = s1
    s2 = s2
    Streams = {s1, s2}
    Promised = {}
    Entries = {"upgrade"}
    Upgraded = s2
    Refused = {s2}
    Quitters = {}
    High = 2
    MaxBody = 2
    MaxWindow = 1
    MaxRequests = 9
    MayAdjust = FALSE
    MayClose = FALSE
    MayTerminate = FALSE
CHECK_DEADLOCK FALSE
SPECIFICATION FairSpec
PROPERTY RefusalEnds
