SPECIFICATION FairSpec
CONSTANTS
    n1 = n1
    n2 = n2
    a1 = a1
    a2 = a2
    b1 = b1
    i1 = i1
    i2 = i2
    i3 = i3
    NoWorker = NoWorker
    NoMsg = NoMsg
    Node = {n1, n2}
    Worker = {a1, b1}
    Home <- TwoNodeHome
    Boot = {a1, b1}
    Id = {i1}
    Targets <- ToB1
    Repeated = {}
    Times <- NoTimes
    CountMod = 4
    MaxHops = 1
    RetryLimits = {2}
    QueueCap = 6
    InboxCap = 1
    MaxCrashes = 1
    MaxFaults = 1
CHECK_DEADLOCK FALSE
INVARIANTS NoLoss  TargetHonoured AttemptsBounded
PROPERTY Settles
