SPECIFICATION GatesSpec
CONSTANTS
    Rules = {r1, r2}
    Images = {i1, i2}
    Modes = {"enforce", "audit"}
    FailOpen = {TRUE, FALSE}
    Kinds = {"Pod", "Namespace"}
    MaxContainers = 2
    ci = ci
    dev = dev
    d1 = d1
    d2 = d2
    sbom = sbom
    Keys = {ci, dev}
    Digests = {d1, d2}
    Predicates = {sbom, agentAction}
    AgentAction = agentAction
    Procs = {p1, p2}
    Commands <- PipelineCommands
    VerifyGates <- PipelineGates
    NoFile = NoFile
    Unreadable = Unreadable
    NoCommand = NoCommand
    MaxRuns = 3
    MaxFaults = 1
    Callers = {h1, h2}
    Policies <- ServePolicies
    Messages <- DaemonMessages
INVARIANTS
    ErrorsFailClosed
    OneDeniedImageDenies
    FlattenIsConservative
    PassIsVouchedFor
    BundleIsKept
PROPERTIES
    DecidesAsWritten
