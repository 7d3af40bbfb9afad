SPECIFICATION Spec
CONSTANTS
    Objects = {1, 2, 3, 4, 5}
    Scenarios <- OneScenario
    FracUnits = 10
    KeyMaxLen = 3
    DateOf <- January
    FromTime <- JanuaryFrom
    Fetch = 2
    StrayInts = {0}
    MaxFailures = 0
INVARIANTS
    PayloadRestored
