SPECIFICATION Spec
CONSTANTS
    None = None
    Catalogue <- MCCatalogue
    Declarations <- Written
    Pinnable <- Compared
    Providers = {"cve", "owners"}
    Sources = {"cve", "metadata"}
    Optional = {"metadata"}
    Severities = {"critical", "high"}
    Counts = {0, 1}
    MaxRules = 3
    MaxPinned = 2
INVARIANTS
    TypeOK
    LastWordWins
    BindingActivates
    HeadlineTellsGate
    GateExplained
    OrderImmaterial
    PinHolds
