SPECIFICATION FairSpec
CONSTANTS
    Size = 2
    Monsters <- SecondIsMonster
    Requests = {r1}
    Timer = timer
    MaxTurn = 1
    MaxWounds = 1
    MaxSteps = 2
INVARIANTS
    TypeOK
    OneMonsterLoop
    EndedHasNoTurn
    LoopPassesMonstersOnly
PROPERTIES
    LoopEnds
CHECK_DEADLOCK FALSE
