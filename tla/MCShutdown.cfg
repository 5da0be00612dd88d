SPECIFICATION FairSpec
CONSTANTS
    w1 = w1
    s1 = s1
    main = main
    NoWorker = NoWorker
    Worker = {w1, s1}
    Caller = {s1, main}
    Commands = {"TwoStage", "Graceful", "Force", "Timeout", "StateBasedIdle", "Batched", "BatchedZero"}
CHECK_DEADLOCK FALSE
INVARIANT TypeOK FinishedClean  CleanupKillsNothing
PROPERTY StrategyEnds
