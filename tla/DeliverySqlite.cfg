SPECIFICATION Spec
CONSTANTS
    i1 = i1
    i2 = i2
    i3 = i3
    Intents = {i1, i2, i3}
    Batches = {b1, b2}
    RecipientOf <- MCRecipientOf
    CompanyOf <- MCCompanyOf
    Policies <- TwoPolicies
    RepeatRecipient <- MCForbids
    RepeatCompany <- MCAllows
    DailyLimit = 1
    WeeklyLimit = 1
    DayTicks = 0
    WeekTicks = 1
    DedupeTicks = 2
    Serialised = TRUE
    MaxItems = 1
    MaxTime = 2
    MaxCrashes = 1
    NoRow = NoRow
SYMMETRY BatchSymmetry
INVARIANTS
    ContactOnce LimitsRespected UncertainNotRetried LedgerAgrees
CHECK_DEADLOCK FALSE
