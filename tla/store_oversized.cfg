SPECIFICATION Spec
CONSTANTS
    Clients = {c1}
    IDs = {i1}
    Scans = {s1, s2}
    NoScan = NoScan
    Oversized = {s1}
    MaxFaults = 1
INVARIANTS
    OneRecordNeverBlocksTheRest
