CONSTANTS
    Twysts = {1, 2, 3}
    Feeds <- ServerFeeds
    Bunch = 2
    MaxPages = 2
CHECK_DEADLOCK FALSE
SPECIFICATION Spec
INVARIANTS
    ListIsSorted
    NoGap
    NoGhost
    NoBadUpdate
