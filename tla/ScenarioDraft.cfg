SPECIFICATION FairSpec
CONSTANTS
    Pages = {p1, p2}
    Edits = {x1}
    MaxCalls = 2
    MaxPresses = 1
    MaxLoads = 2
    MaxLosses = 1
    MaxReviews = 1
    None = none
INVARIANTS
    TypeOK
    SavedMeansSaved
    PublishesWhatIsShown
PROPERTIES
    EditsAreKept
    SavedOrTold
CHECK_DEADLOCK FALSE
