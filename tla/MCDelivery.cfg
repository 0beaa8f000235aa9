SPECIFICATION DeliverySpec
CONSTANTS
    e1 = e1
    e2 = e2
    w1 = w1
    w2 = w2
    Events <- TwoEvents
    Workers <- TwoWorkers
    Handles <- AllHandleAll
    Lease = 2
    BaseDelay = 1
    MaxRetryDelay = 3
    MaxAttempts = 2
    MaxFaults = 2
    i1 = i1
    i2 = i2
    d1 = d1
    d2 = d2
    x1 = x1
    x2 = x2
    r1 = r1
    r2 = r2
    r3 = r3
    Ids <- TwoIds
    Digests <- TwoDigests
    Results <- TwoResults
    Requests <- ThreeRequests
    MaxDeliveries = 4
    MaxCrashes = 1
    Repos = {"a", "b"}
    MaxEvents = 2
    MaxConnects = 2
    InOrder = TRUE
SYMMETRY Interchangeable
INVARIANTS
    RowsConsistent
    OneHolder
    ReceiptsConsistent
PROPERTIES
    AtLeastOnce
    ExactlyOnce
    WebhooksFollow
CHECK_DEADLOCK FALSE
