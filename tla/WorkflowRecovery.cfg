SPECIFICATION Spec
CONSTANTS
    t1 = t1
    t2 = t2
    t3 = t3
    w1 = w1
    w2 = w2
    Tasks = {t1, t2, t3}
    Workers = {w1, w2}
    KindOf <- TwoTargets
    MaxAttempts = 2
    TargetConcurrency = 1
    Concurrent = FALSE
    MaxRefreshes = 0
    MaxResolves = 0
    MaxPauses = 0
    MaxFaults = 0
    MaxActs = 0
    MaxStale = 0
    NoRun = NoRun
    NoWorker = NoWorker
SYMMETRY WorkerSymmetry
INVARIANTS
    QueueSound FanOutBounded
CHECK_DEADLOCK FALSE
