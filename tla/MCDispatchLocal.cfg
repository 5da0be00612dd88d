SPECIFICATION Spec
CONSTANTS
    n1 = n1
    n2 = n2
    a1 = a1
    a2 = a2
    b1 = b1
    i1 = i1
    i2 = i2
    i3 = i3
    NoWorker = NoWorker
    NoMsg = NoMsg
    Node = {n1}
    Worker = {a1, a2}
    Home <- OneNodeHome
    Boot = {a1}
    Id = {i1, i2}
    Targets <- ToA2
    Repeated = {i1}
    Times <- Twice
    CountMod = 4
    MaxHops = 1
    RetryLimits = {2}
    QueueCap = 2
    InboxCap = 1
    MaxCrashes = 0
    MaxFaults = 0
CHECK_DEADLOCK FALSE
INVARIANTS TypeOK OneCopy CacheFresh HandledExactly
PROPERTY ImplementsDelivery
