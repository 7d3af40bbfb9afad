\* Two endless topics, every way to set the memory limit and to lack one.
SPECIFICATION FairSpec
CONSTANTS
    t1 = t1
    t2 = t2
    Topics = {t1, t2}
    PayloadLens = {1}
    HeaderSize = 1
    BundleLimit = 3
    BundleSize = 3
    WaitTime = 1
    MemTestEvery = 2
    SystemLimits = {0, 42}
    MemPercents <- MCMemPercents
    ResidentSizes = {1, 6}
    Prefetch = 1
    MaxAge = 3
INVARIANTS
    TypeOK
    MemoryBounded
    StashFits
    AgeBounded
PROPERTIES
    BuffersDrain
