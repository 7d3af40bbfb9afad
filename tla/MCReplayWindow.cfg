SPECIFICATION Spec
CONSTANTS
    Objects = {1, 2, 3, 4, 5}
    Scenarios <- Completed
    FracUnits = 10
    KeyMaxLen = 3
    DateOf <- February
    FromTime <- JanuaryFrom
    Fetch = 2
    StrayInts = {0}
    MaxFailures = 0
INVARIANTS
    EverythingReplayed
