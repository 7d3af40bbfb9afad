\* Two processes, two topics of one partition each, payload lengths 0, 1 and 2, no
\* disruption: only memory restarts, signals and rebalances that find every buffer empty.
\* The count limit and the size limit are reached in every order.
SPECIFICATION Spec
CONSTANTS
    c1 = c1
    c2 = c2
    t1 = t1
    t2 = t2
    NoTopic = NoTopic
    Consumers = {c1, c2}
    Topics = {t1, t2}
    Partitions = {1, 2}
    TopicOf <- TwoTopics
    LogEnd = 3
    PayloadLen <- GrowingPayload
    BundleLimit = 3
    BundleSize = 2
    MemTestEvery = 0
    MaxDisruptions = 0
    S3Reliable = TRUE
    OffsetReset = "latest"
SYMMETRY Symmetry
INVARIANTS
    TypeOK
    SizesCoverBuffer
    BundleWithinLimits
    OnlyUnreadPassed
PROPERTIES
    NoDuplicateUndisturbed
    CommitsAdvance
