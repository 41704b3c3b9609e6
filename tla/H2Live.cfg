\* a served and a refused request on a connection that stays up
CONSTANTS
    NoStream = NoStream
    s1 = s1
    s2 = s2
    Streams = {s1, s2}
    Promised = {s2}
    Entries = {"direct", "prior", "upgrade"}
    Upgraded = s1
    Refused = {s2}
    Quitters = {}
    High = 2
    MaxBody = 2
    MaxWindow = 1
    MaxRequests = 9
    MayAdjust = TRUE
    MayClose = FALSE
    MayTerminate = FALSE
CHECK_DEADLOCK FALSE
SPECIFICATION FairSpec
INVARIANTS EndStreamAfterBody TreeAgrees
PROPERTIES BuffersUsed PushReleased ResponseEnds SendStateTidied
