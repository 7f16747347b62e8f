SPECIFICATION Spec
CONSTANTS
    None = None
    Catalogue <- MCCatalogue
    Declarations <- Compared
    Pinnable = {}
    Providers = {"cve", "owners"}
    Sources = {"cve", "metadata"}
    Optional = {"metadata"}
    Severities = {"critical", "high"}
    Counts = {0, 1}
    MaxRules = 1
    MaxPinned = 0
INVARIANTS
    EvaluateFollowsPlaybook
