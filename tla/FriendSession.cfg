CONSTANTS
    Users = {anna, carl}
    People = {bob}
    NoUser = NoUser
    Before <- MCBefore
    MaxEvents = 4
    MaxLogins = 2
SYMMETRY UserSymmetry
CHECK_DEADLOCK FALSE
SPECIFICATION Spec
INVARIANTS
    ListsAreCurrent
    OwnLists
    NoCrash
