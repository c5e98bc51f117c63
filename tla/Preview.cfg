CONSTANTS
    t1 = t1
    p1 = p1
    Twysts = {t1}
    Previews = {p1}
    Of <- MCOf
    Pair <- MCFriends
    MaxFrames = 2
    Movies <- MCMovies
    MaxNotices = 1
    MaxIndex = 2
CHECK_DEADLOCK FALSE
SPECIFICATION FairSpec
INVARIANTS
    
    ShownHasFrames
PROPERTIES
    PlaybackLoops
    LoadMoreEnds
