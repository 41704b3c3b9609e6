\* every event
CONSTANTS
    MaxInput = 2
    MaxQueue = 1
    KeepAlive = 2
    MayRefuse = TRUE
    MayQuit = TRUE
    MayLeave = TRUE
    MayTerminate = TRUE
CHECK_DEADLOCK FALSE
SPECIFICATION FairSpec
INVARIANTS TypeOK AppNeverBroken FreshMeansNoStream ToldOnce
PROPERTIES PausedResumes ReaderEnds
