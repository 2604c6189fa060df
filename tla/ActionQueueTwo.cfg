SPECIFICATION FairSpec
CONSTANTS
    Processes = {p1, p2}
    Requests = {r1}
    MaxActions = 2
    MaxLogs = 0
    MaxCrashes = 1
INVARIANTS
    ClaimedByOne
    AppliedOnceIfCompleted
PROPERTIES
    KeepsPromise
    QueuedIsDecided
CHECK_DEADLOCK FALSE
