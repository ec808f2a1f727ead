\* Two onboarding runs and builder sessions over what they approve.
SPECIFICATION Spec
CONSTANTS
    OnboardingRuns = {r1, r2}
    r1 = r1
    r2 = r2
    Claims = {"c1"}
    Wordings = {"w1", "w2"}
    Outputs <- MCOutputs
    MaxLedgers = 3
    MaxSpans = 1
    Blocks = {"c1", "b2"}
    ForeignKeys = TRUE
    Torn = FALSE
    MaxDocuments = 3
    MaxSessions = 3
    MaxRevision = 2
    MaxRows = 4
INVARIANTS
    ApprovalsSound
    WordingApproved
PROPERTIES
    LedgerImmutable
    ApprovedImmutable
    ApprovedLastIsLatest
SYMMETRY RunSymmetry
CHECK_DEADLOCK FALSE
