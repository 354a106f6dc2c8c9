SPECIFICATION Spec
CONSTANTS
    Inventory <- ShopInventory
    Baseline <- ShopBaseline
    EgressAllowActive = FALSE
    IntelFeedLoaded = TRUE
    EnableAnomaly = FALSE
    EnableAgentRuntime = FALSE
    Catalog <- ResponseCatalog
    MaxEvents = 2
    MaxLives = 2
    Pids = {1, 2}
    WindowSize = 0
    Forensics = FALSE
    Exceptions = {}
    Policy <- Enforce
    Sinks = {1, 2}
INVARIANTS
    DestructionGated
    RecordsReachAll
