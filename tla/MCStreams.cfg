SPECIFICATION FairSpec
CONSTANTS
    n1 = n1
    n2 = n2
    Node = {n1, n2}
    MaxMsg = 2
    Batch = 2
    MaxLen = 2
    MaxEntries = 3
    MaxFaults = 1
CHECK_DEADLOCK FALSE
INVARIANTS NothingSkipped NoExtraCopies 
PROPERTIES AllDelivered
