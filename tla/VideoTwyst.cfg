CONSTANTS
    t1 = t1
    none = none
    Twysts = {t1}
    NoTwyst = none
    Lengths <- MCLengths
    MinLen = 2
    MaxLen = 4
    Cell = 2
    Drags <- MCDrags
    MaxVideos = 2
    MaxEdits = 2
CHECK_DEADLOCK FALSE
SPECIFICATION Spec
INVARIANTS
    EditsThisSession
    RepliesAreRight
