\* One chat, its buttons, and two Pi processes, one after the other.
SPECIFICATION Spec
CONSTANTS
    Kinds = {"onboarding", "builder"}
    Repairs = 1
    Races = {}
    MaxTurns = 3
    MaxProcesses = 2
    MaxQueue = 1
    MaxButtons = 1
INVARIANTS
    ProcessesOwned
    OwnReply
    ImportAfterTurn
PROPERTIES
    WaitingEnds
CHECK_DEADLOCK FALSE
