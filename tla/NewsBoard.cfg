CONSTANTS
    Twysts = {t}
    Friends = {f}
    Me = me
    Types = {"Like", "unlike", "comment", "deletecomment"}
    FetchLimit = 2
    DeleteLimit = 1
    MaxChecks = 2
    MaxEvents = 3
    MaxReads = 1
    MaxRestarts = 1
    MaxTogether = 4
CHECK_DEADLOCK FALSE
SPECIFICATION Spec
INVARIANTS
    BoardAgrees
    TimerGoesOn
    NoRevival
    ReadWasTapped
    BadgeMissesNothing
