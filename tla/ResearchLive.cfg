SPECIFICATION ShadowLiveSpec
CONSTANTS
    c1 = c1
    c2 = c2
    c3 = c3
    Scope <- Scopes
    Targets = {1, 2}
    Candidates = {}
    Initiative = FALSE
    TotalTime = 2
    CandidateGoal = 1
    Retain = 1
    LeaseTime = 1
    MaxLeases = 0
    MaxParallel = 3
    Required = 0
    MaxAttempts = 1
    Overrun = 0
    Workers = {w1}
    Exclusive = TRUE
    Requests = {r1}
    MaxPlans = 2
    MaxPauses = 1
    MaxResolves = 1
    MaxReopens = 0
    MaxFaults = 0
PROPERTIES
    ResearchEnds
CHECK_DEADLOCK FALSE
