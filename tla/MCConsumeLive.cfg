\* One process, a log of one bundle and a tail, a negative batchsize (binsize is the
\* only limit), memory restarts, a disruption, signals: under fairness everything
\* produced is settled or passed over and what is settled is committed in the end.
SPECIFICATION FairSpec
CONSTANTS
    c1 = c1
    c2 = c2
    t1 = t1
    t2 = t2
    NoTopic = NoTopic
    Consumers = {c1}
    Topics = {t1}
    Partitions = {1}
    TopicOf <- OneTopic
    LogEnd = 3
    PayloadLen <- UnitPayload
    BundleLimit <- NegativeLimit
    BundleSize = 2
    MemTestEvery = 2
    MaxDisruptions = 1
    S3Reliable = FALSE
    OffsetReset = "latest"
PROPERTIES
    EverythingIsSettled
    CommitsCatchUp
    SigtermStops
