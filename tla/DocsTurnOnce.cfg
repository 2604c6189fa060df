SPECIFICATION Spec
CONSTANTS
    Size = 2
    Monsters = {}
    Requests = {r1, r2}
    Timer = timer
    MaxTurn = 4
    MaxWounds = 0
    MaxSteps = 1
PROPERTIES
    TurnIsPassedOnce
CHECK_DEADLOCK FALSE
