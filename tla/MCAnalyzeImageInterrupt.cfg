SPECIFICATION Spec
CONSTANTS
    cve = cve
    sbom = sbom
    oci = oci
    NoCaller = NoCaller
    Callers = {cve, sbom, oci}
    Cve = cve
    Sbom = sbom
    Failures = {"tool"}
    MaxWorkers = 3
    CallbackRaises = FALSE
    MaxInterrupts = 1
CHECK_DEADLOCK FALSE
INVARIANTS
    ReaderHasLayout
PROPERTIES
    ExportedOnce
    RunEnds
    ImplementsRun
