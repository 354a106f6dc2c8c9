SPECIFICATION BackendsSpec
CONSTANTS
    Clients = {c1, c2}
    IDs = {i1, i2}
    Scans = {s1, s2}
    NoScan = NoScan
    Oversized = {}
    MaxFaults = 2
    Bundles = {b1, b2}
    Foreign = {f1, f2}
    APIs = {TRUE, FALSE}
    Bearers = {TRUE, FALSE}
    NoBundle = NoBundle
    MaxRequestFaults = 2
    Sessions = {a1, a2}
    Inbound <- Messages
    Estate <- Images
    NameOrder <- Ordered
    MaxMessages = 3
    MaxTime = 2
    MaxAgentFaults = 1
INVARIANTS
    AckedIsServed
    BundlesAreFound
    PersistIsAudited
    BlastRadiusIsLatest
PROPERTIES
    InventorySpec
    WriteOnce
