SPECIFICATION FairSpec
CONSTANTS
    Size = 6
    HeaderLen = 2
    DataLens <- MCDataLens
    ScratchLens <- MCScratchLens
    MaxPos = 8
INVARIANTS ReadsIntact RoomHeldBack
PROPERTIES ImplementsOrderedLog SubmittedIsDelivered
CHECK_DEADLOCK FALSE
