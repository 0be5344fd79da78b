SPECIFICATION Spec
CONSTANTS
    None = None
    OmitsEmptyLists = TRUE
    Instances = {old, new}
    MaxUid = 1
    Tasks = {t1}
    Specs <- JustPlain
    Sources <- ListOnly
    Published <- SteadyList
    Silent <- NoSources
    UserNetpols <- OneUserNetpol
    UserEdits = {"create"}
    Faults = {}
    MayCrash = TRUE
    RecordedReasons = {}
SYMMETRY Symmetry
CHECK_DEADLOCK FALSE
INVARIANTS NeverForgotten
PROPERTIES TouchesOnlyChecked ImplementsContract RestIsKept
