CONSTANTS
    Ids = {i1, i2, i3}
    NoId = NoId
    MaxAttempts = 3
CHECK_DEADLOCK FALSE
SPECIFICATION FairSpec
INVARIANTS
    SharedIsUploaded
    SuccessIsShared
    NoOrphans
    SharedOnce
PROPERTIES
    SendEnds
