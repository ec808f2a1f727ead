SPECIFICATION PipelineSpec
CONSTANTS
    a1 = a1
    a2 = a2
    a3 = a3
    s1 = s1
    s2 = s2
    w1 = w1
    w2 = w2
    Tasks = {a1, a2, s1}
    Workers = {w1, w2}
    KindOf <- AgentsAndSends
    MaxAttempts = 1
    TargetConcurrency = 1
    Concurrent = FALSE
    MaxRefreshes = 0
    MaxResolves = 2
    MaxPauses = 1
    MaxFaults = 1
    MaxPrepares = 1
    MaxModes = 2
    MaxLosses = 1
    MaxDrafts = 2
    MaxActs = 2
    MaxStale = 1
    NoRun = NoRun
    NoWorker = NoWorker
SYMMETRY WorkerSymmetry
INVARIANTS
    PipelineAlive PipelineSound
PROPERTIES
    UncertainSendHeld
CHECK_DEADLOCK FALSE
