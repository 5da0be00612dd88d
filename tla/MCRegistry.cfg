SPECIFICATION FairSpec
CONSTANTS
    h = h
    n1 = n1
    a = a
    b = b
    Node = {h, n1}
    Host = h
    Worker = {a}
    Stale = 2
    Every = 2
    MaxFaults = 1
    MaxRestarts = 1
    MaxBack = 1
CHECK_DEADLOCK FALSE
INVARIANTS TypeOK Persisted NoLiveEviction
PROPERTIES GhostsFade 
