\* PUTs may fail; one process, no disruption.
SPECIFICATION Spec
CONSTANTS
    c1 = c1
    c2 = c2
    t1 = t1
    t2 = t2
    NoTopic = NoTopic
    Consumers = {c1}
    Topics = {t1}
    Partitions = {1}
    TopicOf <- OneTopic
    LogEnd = 2
    PayloadLen <- UnitPayload
    BundleLimit = 2
    BundleSize = 5
    MemTestEvery = 0
    MaxDisruptions = 0
    S3Reliable = FALSE
    OffsetReset = "earliest"
INVARIANTS
    CommittedIsStored
