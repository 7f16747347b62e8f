SPECIFICATION Spec
CONSTANTS
    None = None
    Hub = Hub
    Half = Half
    Anonymous = Anonymous
    Dotted = {"reg.io", "docker.io"}
    HubAliases <- MCHubAliases
    Pairs = {"good", "bad"}
    Invocations <- MCInvocations
    Services <- MCServices
    MaxCalls = 2
    MaxFaults = 1
CHECK_DEADLOCK FALSE
INVARIANTS
    CheckTellsTheTruth
    ReferrersTold
