SPECIFICATION LiveSpec
CONSTANTS
    i1 = i1
    i2 = i2
    i3 = i3
    Intents = {i1, i2}
    Batches = {b1, b2}
    RecipientOf <- MCRecipientOf
    CompanyOf <- MCCompanyOf
    Policies <- OnePolicy
    RepeatRecipient <- MCForbids
    RepeatCompany <- MCForbids
    DailyLimit = 2
    WeeklyLimit = 2
    DayTicks = 0
    WeekTicks = 0
    DedupeTicks = 0
    Serialised = FALSE
    MaxItems = 2
    MaxTime = 0
    MaxCrashes = 0
    NoRow = NoRow
INVARIANTS
    TypeOK ReservationsExclusive AcceptedIsTerminal
PROPERTIES
    BatchEnds
CHECK_DEADLOCK FALSE
