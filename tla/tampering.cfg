SPECIFICATION Spec
CONSTANTS
    None = None
    OmitsEmptyLists = TRUE
    Instances = {c1}
    MaxUid = 2
    Tasks = {t1}
    Specs <- JustPlain
    Sources <- ListOnly
    Published <- FlakyList
    Silent <- NoSources
    UserNetpols <- ForeignNetpols
    UserEdits = {"create", "delete", "strip"}
    Faults = {"cleanupDelete", "collision"}
    MayCrash = FALSE
    RecordedReasons = {"ManagedPolicyCollision"}
CHECK_DEADLOCK FALSE
INVARIANTS NeverForgotten CollisionIsWarned
PROPERTIES TouchesOnlyChecked ImplementsContract
