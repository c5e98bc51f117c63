CONSTANTS
    Twysts = {t1,t2}
    Pairs <- Own
    MaxReplies = 1
    FrameCount <- MCFrameCount
    Movies <- MCMovies
    MaxRequests = 2
SPECIFICATION FairSpec
INVARIANTS
    SingleFlight
    NotifiedIsSaved
PROPERTIES
    KeepsContract
    EveryoneIsAnswered
