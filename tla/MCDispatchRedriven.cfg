SPECIFICATION Spec
CONSTANTS
    n1 = n1
    n2 = n2
    a1 = a1
    a2 = a2
    b1 = b1
    i1 = i1
    i2 = i2
    i3 = i3
    NoWorker = NoWorker
    NoMsg = NoMsg
    Node = {n1}
    Worker = {a1}
    Home <- LoneHome
    Boot = {a1}
    Id = {i1}
    Targets <- Untargeted
    Repeated = {}
    Times <- NoTimes
    CountMod = 4
    MaxHops = 1
    RetryLimits = {1}
    QueueCap = 4
    InboxCap = 1
    MaxCrashes = 1
    MaxFaults = 0
CHECK_DEADLOCK FALSE
INVARIANT HalfProcessedRedriven
