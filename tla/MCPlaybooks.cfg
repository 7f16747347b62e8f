SPECIFICATION Spec
CONSTANTS
    None = None
    Unreadable = Unreadable
    NoReport = NoReport
    Documents <- MCDocuments
    Facts <- MCFacts
CHECK_DEADLOCK FALSE
INVARIANTS
    MeaningKept
    SettledIsLoadable
    DryRunAgrees
