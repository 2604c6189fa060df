SPECIFICATION Spec
CONSTANTS
    c1 = c1
    Callers = {c1}
    Ticks = {}
    MaxPlays = 2
    MaxVersion = 2
    MaxReschedules = 1
INVARIANTS
    OpenPlayIsCurrent
