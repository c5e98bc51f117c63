CONSTANTS
    MaxPhotos = 2
    Filters = {0, 1}
    Kinds = {"comment", "filter", "draw", "blur", "save", "trash", "finish"}
    IsSaveVideo = TRUE
    MaxEdits = 3
    MaxLoads = 1
CHECK_DEADLOCK FALSE
SPECIFICATION Spec
INVARIANTS
    MarksStay
    FinalIsCurrent
    ReplySentOnce
    EffectsAreFlagged
    SavedIsInAlbum
    NoCrash
