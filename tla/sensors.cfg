SPECIFICATION SensorsSpec
CONSTANTS
    MaxRecords = 3
    RingCap = 1
    ChanCap = 1
    Armed = TRUE
    Pids = {1, 2}
    Exes = {"sh", "app"}
    Interval = 1
    MaxRuns = 2
    MaxMissed = 1
    Cgroups = {g1, g2}
    Containers = {k1, k2}
    MaxEvents = 3
    MaxChanges = 3
INVARIANTS
    AttributionIsSteady
    ConnectionFollowsExec
PROPERTIES
    RunEnds
    SteadyProcessReported
    FeedSpec
