SPECIFICATION FairSpec
CONSTANTS
    None = None
    OmitsEmptyLists = TRUE
    Instances = {c1}
    MaxUid = 2
    Tasks = {t1}
    Specs <- JustPlain
    Sources <- ListOnly
    Published <- FlakyList
    Silent <- NoSources
    UserNetpols <- OneUserNetpol
    UserEdits = {"create", "delete", "rewrite"}
    Faults = {"apply"}
    MayCrash = TRUE
    RecordedReasons = {}
CHECK_DEADLOCK FALSE
PROPERTIES Converges
