SPECIFICATION FairSpec
CONSTANTS
    orders = orders
    logs = logs
    audit = audit
    test1 = test1
    offsets = offsets
    testAll = testAll
    Topics = {orders, logs, audit, test1, offsets}
    Internal = {offsets}
    Configured = {orders}
    Excluded = {testAll}
    Matches <- MCMatches
    AutoDiscover = TRUE
    Interval = 1
    MemTestEvery = 2
    AtFirst = {offsets}
    MaxRestarts = 2
    MaxFailures = 1
INVARIANTS
    TypeOK
    SubscribedAllowed
PROPERTIES
    SubscriptionGrows
    NewTopicsSubscribed
