SPECIFICATION FairSpec
CONSTANTS
    None = None
    OmitsEmptyLists = TRUE
    Instances = {c1}
    MaxUid = 1
    Tasks = {t1}
    Specs <- PlainAndPage
    Sources <- PageAndList
    Published <- SteadyPair
    Silent <- ListOnly
    UserNetpols <- NoNetpols
    UserEdits = {}
    Faults = {}
    MayCrash = FALSE
    RecordedReasons = {}
CHECK_DEADLOCK FALSE
PROPERTIES UpdatesReachReconcile
