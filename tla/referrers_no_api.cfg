SPECIFICATION Spec
CONSTANTS
    Bundles = {b1}
    Foreign = {}
    APIs = {FALSE}
    Bearers = {FALSE}
    NoBundle = NoBundle
    MaxFaults = 0
INVARIANTS
    NilMeansNone
