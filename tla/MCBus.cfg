SPECIFICATION FairSpec
CONSTANTS
    orders = orders
    wal_sync = wal_sync
    NoTopic = NoTopic
    Backends = {"crossfire"}
    Topic = {orders, wal_sync}
    System = {wal_sync}
    Cap = 1
    InboxCap = 1
    Batch = 1
    Hops = 1
    MaxMsg = 2
    MaxChan = 3
    MaxWorker = 2
    MaxCalls = 1
    MaxAtOnce = 2
CHECK_DEADLOCK FALSE
INVARIANTS TypeOK Accounted RightTopic OneReader OnlyDelCrosses
 
