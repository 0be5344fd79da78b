SPECIFICATION Spec
CONSTANTS
    None = None
    OmitsEmptyLists = TRUE
    Instances = {c1}
    MaxUid = 2
    Tasks = {t1}
    Specs <- PlainAndEgress
    Sources <- ListOnly
    Published <- FlakyList
    Silent <- NoSources
    UserNetpols <- NoNetpols
    UserEdits = {}
    Faults = {"fetch", "get", "apply", "status", "event", "cleanupDelete", "cleanupEvent", "read", "patch", "report", "collision"}
    MayCrash = TRUE
    RecordedReasons = {}
CHECK_DEADLOCK FALSE
INVARIANTS TypeOK NeverForgotten SuccessIsInForce
PROPERTIES WritesWholeSource TouchesOnlyChecked ForeignIsNeverTouched
