SPECIFICATION Spec
CONSTANTS
    good = good
    bad = bad
    cve = cve
    sbom = sbom
    project = project
    ticket = ticket
    strict = strict
    lax = lax
    Metadata = metadata
    Tag = tag
    Cwd = cwd
    DryRun = dryrun
    None = none
    Stub = stub
    Empty = empty
    Torn = torn
    Digests = {good, bad}
    Vulnerable = {bad}
    Analyzers = {cve, sbom}
    Fields = {project, ticket}
    Required = {project}
    Playbooks = {strict, lax}
    DefaultPlaybook = strict
    FailOpen = {sbom}
    Watches <- MCWatches
    Procs = {p}
    Commands <- OneByOne
    MaxStarts = 2
    MaxPushes = 1
    MaxKills = 1
CHECK_DEADLOCK FALSE
INVARIANTS
    TypeOK
    GateHolds
    ReportBeforeExit
PROPERTIES
    MalformedCallOutranks
    OthersKept
    CommandsEnd
