SPECIFICATION Spec
CONSTANTS
    Moves = {m1, m2}
    Uploads = {u}
    Effects = {e}
    Fights = {f}
    None = none
INVARIANTS
    StoreTypeOK
PROPERTIES
    KeptUnlessCombat
CHECK_DEADLOCK FALSE
