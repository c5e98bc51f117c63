CONSTANTS
    Twysts = {t1}
    Pairs <- Own
    MaxReplies = 2
    FrameCount <- MCFrameCount
    Movies <- MCMovies
    MaxRequests = 2
SPECIFICATION Spec
PROPERTIES
    DeleteRemovesFolder
