SPECIFICATION ShadowSpec
CONSTANTS
    c1 = c1
    c2 = c2
    c3 = c3
    Scope <- Scopes
    Targets = {1, 2}
    Candidates = {c1, c2}
    Initiative = TRUE
    TotalTime = 5
    CandidateGoal = 2
    Retain = 1
    LeaseTime = 4
    MaxLeases = 2
    MaxParallel = 3
    Required = 1
    MaxAttempts = 1
    Overrun = 1
    Workers = {w1}
    Exclusive = TRUE
    Requests = {r1}
    MaxPlans = 1
    MaxPauses = 0
    MaxResolves = 0
    MaxReopens = 0
    MaxFaults = 1
INVARIANTS
    TimeAccounted ShadowAgrees
PROPERTIES
    FollowsTopology TraceConnected
CHECK_DEADLOCK FALSE
