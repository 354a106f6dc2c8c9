SPECIFICATION ProcessesSpec
CONSTANTS
    Issues = {"secret", "cve"}
    ModuleOf <- Finder
    NModules = 2
    Advised = {"cve"}
    ImageTargets = {TRUE, FALSE}
    Connectors = {1}
    Counts = {0, 2}
    MaxChanges = 1
    MaxErrors = 1
    CVEs = {1, 2}
    Daemon = daemon
    OneShots = {cron}
    Interval = 2
    Slack = 2
    FirstWindow = 0
    PageSize = 1
    MaxPages = 0
    MaxWindow = 9
    Lag = 1
    MaxFetch = 1
    Horizon = 5
    MaxFaults = 1
    SharedCVEs = {1}
    SharedHorizon = 2
    Directories <- Dirs
    Builtin <- Builtins
    ResponseSize = 2
    Cap = 3
    MaxOutput = 4
INVARIANTS
    DeltasAddUp
    FailureIsIsolated
    DatabaseIsWhole
    NoModifiedCVESlips
    FindingsAreWhole
PROPERTIES
    SeesChange
    ProcessesEnd
