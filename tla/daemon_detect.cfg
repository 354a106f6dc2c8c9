SPECIFICATION Spec
CONSTANTS
    Inventory <- ShopInventory
    Baseline <- ShopBaseline
    EgressAllowActive = TRUE
    IntelFeedLoaded = TRUE
    EnableAnomaly = TRUE
    EnableAgentRuntime = TRUE
    Catalog <- MixedCatalog
    MaxEvents = 3
    MaxLives = 1
    Pids = {}
    WindowSize = 2
    Forensics = TRUE
    Exceptions <- JobException
    Policy <- Unarmed
    Sinks = {}
INVARIANTS
    RingHoldsRecentWindow
    DriftReportedOnce
PROPERTIES
    DetectionsSettle
    LedgerSpec
