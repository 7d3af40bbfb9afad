SPECIFICATION FairSpec
CONSTANTS
    Objects = {1, 2, 3, 4, 5}
    Scenarios <- AllScenarios
    FracUnits = 10
    KeyMaxLen = 3
    DateOf <- January
    FromTime <- JanuaryFrom
    Fetch = 2
    StrayInts = {0}
    MaxFailures = 2
INVARIANTS
    TypeOK
    DeliveredInOrder
    EverythingReplayed
    OnlyAskedFor
    DeliveredOnce
    HeadersRestored
    FirstPayloadRestored
PROPERTIES
    ReplayEnds
