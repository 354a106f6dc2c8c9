SPECIFICATION PostureSpec
CONSTANTS
    Assessments = {"vulnerabilities"}
    Observable <- Flows
    FlowWorkloads <- Descriptors
    IDs <- FlowIDs
    HostOrder <- Hosts
    PortOrder <- Ports
    Internal = {"10.1", "imds"}
    Metadata = {"imds"}
    ModelHosts = {"api"}
    ModelLike = {"x.api"}
    Given <- Options
    MaxFlows = 3
    Windows <- Recordings
    FailOn = 4
    Below <- Subdomains
    DockerEvidence <- DockerHosts
    ClusterEvidence <- Clusters
    Scans <- ModuleRuns
    Books <- WaiverBooks
    Packs <- Frameworks
    Day = 2
    MaxTime = 4
    Specs <- WorkloadSpecs
    Syscalls = {"open", "connect", "execve"}
    Bootstrap = {"execve"}
    Exceptions <- ControlExceptions
    LastDay = 2
    Feeds <- TwoRecords
    SBOMs <- Inventories
    Postures <- ScanPostures
    CVEs = {"CVE-1", "CVE-2"}
    Spelling <- FeedNames
    MaxComponents = 2
INVARIANT
    FixIsAnUpgrade
CHECK_DEADLOCK FALSE
