CONSTANTS
    Twysts = {t1}
    Pairs <- OwnAndFriend
    MaxReplies = 2
    FrameCount <- MCFrameCount
    Movies <- MCMovies
    MaxRequests = 2
SPECIFICATION Spec
INVARIANTS
    NotifiedIsComplete
    NumberingHolds
    RepliesPresent
PROPERTIES
    NoReplyLost
