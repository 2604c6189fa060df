SPECIFICATION Spec
CONSTANTS
    u1 = u1
    u2 = u2
    t1 = t1
    t2 = t2
    Users = {u1, u2}
    Tasks = {t1, t2}
    None = none
    MaxSeats = 2
    MaxPlay = 1
SYMMETRY Symmetry
INVARIANTS
    TypeOK
    AdmissionsFit
PROPERTIES
    NobodyJoinsOngoingPlay
CHECK_DEADLOCK FALSE
