SPECIFICATION Spec
CONSTANTS
    s1 = s1
    s2 = s2
    k1 = k1
    t1 = t1
    t2 = t2
    Sessions = {s1, s2}
    Sockets = {k1}
    Tasks = {t1, t2}
    Timer = timer
    None = none
    MaxPlay = 2
    MaxTime = 1
SYMMETRY Symmetry
INVARIANTS
    TypeOK
PROPERTIES
    SwitchIsConfirmed
    CleanupKeepsRenewed
CHECK_DEADLOCK FALSE
