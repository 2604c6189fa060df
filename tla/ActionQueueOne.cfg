SPECIFICATION Spec
CONSTANTS
    Processes = {p1}
    Requests = {r1, r2}
    MaxActions = 2
    MaxLogs = 1
    MaxCrashes = 0
SYMMETRY Symmetry
INVARIANTS
    TypeOK
    AppliedOnceIfCompleted
    EffectsInOrder
    PendingIsAttended
PROPERTIES
    FinishedPlayTakesNoEffect
    KeepsPromise
CHECK_DEADLOCK FALSE
