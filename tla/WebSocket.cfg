SPECIFICATION FairSpec
CONSTANTS
    MaxFrames = 2
    MaxHeld = 1
    MaxQueue = 1
    Pings = TRUE
    ReadsAlong = TRUE
    MayDrop = TRUE
INVARIANTS TypeOK ToldOnce AnsweredOnce MessagesWhole
PROPERTIES PeerEnds
CHECK_DEADLOCK FALSE
