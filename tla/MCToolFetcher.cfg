SPECIFICATION Spec
CONSTANTS
    p1 = p1
    p2 = p2
    Procs = {p1, p2}
    Nobody = Nobody
    MaxCalls = 2
    OfflineProcs = {}
    Archived = TRUE
    HasCosign = TRUE
    RequireCosign = FALSE
CHECK_DEADLOCK FALSE
INVARIANTS
    TypeOK
    ServedIsVerified
    EventsMatchOutcome
    NoLiveFileSwept
    PartialsSwept
PROPERTIES
    InstalledOnce
    CallsAnswered
    ImplementsCache
