SPECIFICATION FairSpec
CONSTANTS
    c1 = c1
    t1 = t1
    Callers = {c1}
    Ticks = {t1}
    MaxPlays = 2
    MaxVersion = 2
    MaxReschedules = 2
INVARIANTS
    TypeOK
    EarlierPlaysEnded
    ActivityMatchesCurrentPlay
    CurrentPlayHasNotEnded
    RecruitingIsNotPlaying
PROPERTIES
    ActsOnWhatItSaw
    VersionCountsEveryMove
    KeepsPromise
    DueLobbyOpens
