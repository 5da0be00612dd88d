SPECIFICATION Spec
CONSTANTS
    orders = orders
    wal_sync = wal_sync
    NoTopic = NoTopic
    Backends = {"flume", "mpmc"}
    Topic = {orders, wal_sync}
    System = {wal_sync}
    Cap = 2
    InboxCap = 1
    Batch = 2
    Hops = 1
    MaxMsg = 2
    MaxChan = 3
    MaxWorker = 2
    MaxCalls = 1
    MaxAtOnce = 1
CHECK_DEADLOCK FALSE
INVARIANTS Accounted 
