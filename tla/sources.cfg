SPECIFICATION Spec
CONSTANTS
    None = None
    OmitsEmptyLists = TRUE
    Instances = {c1}
    MaxUid = 1
    Tasks = {t1}
    Specs <- PointerAndBroken
    Sources <- AllAddresses
    Published <- ListBehindPage
    Silent <- NoSources
    UserNetpols <- NoNetpols
    UserEdits = {"annotate"}
    Faults = {"pointer"}
    MayCrash = FALSE
    RecordedReasons = {}
CHECK_DEADLOCK FALSE
INVARIANTS NeverForgotten IInv
PROPERTIES WritesWholeSource ReapplyChangesNothing
