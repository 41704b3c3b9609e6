\* graceful shutdown with a response in flight
CONSTANTS
    NoStream = NoStream
    s1 = s1
    s2 = s2
    Streams = {s1, s2}
    Promised = {}
    Entries = {"direct"}
    Upgraded = s1
    Refused = {}
    Quitters = {}
    High = 2
    MaxBody = 1
    MaxWindow = 1
    MaxRequests = 9
    MayAdjust = FALSE
    MayClose = FALSE
    MayTerminate = TRUE
CHECK_DEADLOCK FALSE
SPECIFICATION Spec
PROPERTY GoawayAfterResponses
