SPECIFICATION LiveSpec
CONSTANTS
    t1 = t1
    t2 = t2
    t3 = t3
    w1 = w1
    w2 = w2
    Tasks = {t2, t3}
    Workers = {w1, w2}
    KindOf <- OneOfEach
    MaxAttempts = 1
    TargetConcurrency = 1
    Concurrent = FALSE
    MaxRefreshes = 1
    MaxResolves = 1
    MaxPauses = 1
    MaxFaults = 1
    MaxActs = 1
    MaxStale = 1
    NoRun = NoRun
    NoWorker = NoWorker
PROPERTIES
    TaskSettles CompletedIsFinal
CHECK_DEADLOCK FALSE
