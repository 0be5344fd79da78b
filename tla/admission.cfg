SPECIFICATION Spec
CONSTANTS
    None = None
    OmitsEmptyLists = TRUE
    CandidateSpecs <- Candidates
    CidrLists <- Lists
CHECK_DEADLOCK FALSE
INVARIANTS TranslationNeverFails NeverAllowsAll DirectionsAreComplete RulesAreComplete
