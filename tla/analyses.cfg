SPECIFICATION AnalysesSpec
CONSTANTS
    Principals <- Subjects
    Admin = clusterAdmin
    Node = nodeRoot
    Rules <- AllRules
    Roster <- Bindings
    MaxBindings = 3
    Schemes = {"semver", "generic", "deb", "rpm", "apk", "pep440", "maven"}
    MaxLen = 3
    Paths <- Names
    Dirs <- Opaque
    MaxLayers = 3
    MaxEntries = 4
    Exports <- ClusterExports
    Invocations <- Flags
    MaxFiles = 2
    MaxDepth = 6
    MaxGrown = 2
    Data = {"x", "y"}
    MaxLogged = 5
    MaxReopens = 1
    MaxFailures = 1
    MaxForged = 4
    Assessments = {"network", "compliance", "hardening", "vulnerabilities"}
    Observable <- Flows
    FlowWorkloads <- Descriptors
    IDs <- FlowIDs
    HostOrder <- Hosts
    PortOrder <- Ports
    Internal = {"10.1", "imds"}
    Metadata = {"imds"}
    ModelHosts = {"api"}
    ModelLike = {"x.api"}
    Given <- Options
    MaxFlows = 3
    Windows <- Recordings
    FailOn = 4
    Below <- Subdomains
    DockerEvidence <- DockerHosts
    ClusterEvidence <- Clusters
    Scans <- ModuleRuns
    Books <- WaiverBooks
    Packs <- Frameworks
    Day = 2
    MaxTime = 4
    Specs <- WorkloadSpecs
    Syscalls = {"open", "connect", "execve"}
    Bootstrap = {"execve"}
    Exceptions <- ControlExceptions
    LastDay = 2
    Feeds <- TwoRecords
    SBOMs <- Inventories
    Postures <- ScanPostures
    CVEs = {"CVE-1", "CVE-2"}
    Spelling <- FeedNames
    MaxComponents = 2
INVARIANTS
    CompareIsOrder
    PathsAreExact
    HopsAreReported
    TreeIsOverlay
    RulesMeanWhatTheySay
    InclusionIsExact
    CaptureDecides
    PassIsEarned
    BundleIsSound
    NoRecordIsLost
CHECK_DEADLOCK FALSE
