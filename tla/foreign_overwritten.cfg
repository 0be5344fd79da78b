SPECIFICATION Spec
CONSTANTS
    None = None
    OmitsEmptyLists = TRUE
    Instances = {c1}
    MaxUid = 1
    Tasks = {t1}
    Specs <- JustPlain
    Sources <- ListOnly
    Published <- SteadyList
    Silent <- NoSources
    UserNetpols <- OneUserNetpol
    UserEdits = {"create", "delete"}
    Faults = {}
    MayCrash = FALSE
    RecordedReasons = {}
CHECK_DEADLOCK FALSE
PROPERTIES ForeignIsNeverTouched
