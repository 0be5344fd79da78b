SPECIFICATION FairSpec
CONSTANTS
    None = None
    OmitsEmptyLists = TRUE
    Instances = {c1}
    MaxUid = 1
    Tasks = {t1}
    Specs <- JustPlain
    Sources <- ListOnly
    Published <- SteadyList
    Silent <- NoSources
    UserNetpols <- NoNetpols
    UserEdits = {}
    Faults = {}
    MayCrash = FALSE
    RecordedReasons = {}
CHECK_DEADLOCK FALSE
PROPERTIES ScheduleGovernsResync
