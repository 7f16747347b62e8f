SPECIFICATION Spec
CONSTANTS
    cve = cve
    sbom = sbom
    oci = oci
    NoCaller = NoCaller
    Callers = {cve, sbom, oci}
    Cve = cve
    Sbom = sbom
    Failures = {"tool", "unexpected"}
    MaxWorkers = 2
    CallbackRaises = TRUE
    MaxInterrupts = 0
CHECK_DEADLOCK FALSE
INVARIANTS
    TypeOK
    NoLayoutLeft
    AllAccountedFor
