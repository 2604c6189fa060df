SPECIFICATION FairSpec
CONSTANTS
    Moves = {m1, m2}
    Uploads = {}
    Effects = {}
    Fights = {}
    None = none
    Mine = {m1}
    MaxLosses = 1
INVARIANTS
    TypeOK
    InSync
PROPERTIES
    ScreenCatchesUp
CHECK_DEADLOCK FALSE
