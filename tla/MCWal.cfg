SPECIFICATION FairSpec
CONSTANTS
    m1 = m1
    m2 = m2
    host = host
    peer = peer
    nomsg = nomsg
    Msg = {m1}
    Backends = {"Memory", "Persistent", "Redis"}
    Main = host
    Peer = {peer}
    NoMsg = nomsg
    MaxTries = 2
    MaxCrashes = 1
    MaxFaults = 1
    MaxCopies = 2
CHECK_DEADLOCK FALSE
INVARIANTS FiredOnce NotEarly DelayPaired DoneNotReplayed
PROPERTIES DelayFires
