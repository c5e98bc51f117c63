CONSTANTS
    Twysts = {t1}
    Pairs <- Own
    MaxReplies = 3
    FrameCount <- MCFrameCount
    Movies <- MCMovies
    MaxRequests = 2
SPECIFICATION Spec
PROPERTIES
    CheckFindsAllReplies
