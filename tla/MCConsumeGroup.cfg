\* Two processes of one group compete for a partition whose even records are empty,
\* with three crashes, interrupting rebalances or lost commits.
SPECIFICATION Spec
CONSTANTS
    c1 = c1
    c2 = c2
    t1 = t1
    t2 = t2
    NoTopic = NoTopic
    Consumers = {c1, c2}
    Topics = {t1}
    Partitions = {1}
    TopicOf <- OneTopic
    LogEnd = 2
    PayloadLen <- SomeEmpty
    BundleLimit = 2
    BundleSize = 5
    MemTestEvery = 0
    MaxDisruptions = 3
    S3Reliable = TRUE
    OffsetReset = "latest"
SYMMETRY Symmetry
INVARIANTS
    CommittedIsSettled
    NothingSkipped
    NoWrapperOutlivesConsumer
    CommittedIsStored
    SafetyInv
PROPERTIES
    ImplementsBackup
