SPECIFICATION Spec
CONSTANTS
    Rules = {r1, r2}
    Images = {i1, i2}
    Modes = {"enforce", "audit"}
    FailOpen = {TRUE, FALSE}
INVARIANTS
    CleanDenyIsNeverAdmitted
