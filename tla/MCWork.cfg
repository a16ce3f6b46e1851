SPECIFICATION Spec
CONSTANTS
    NTasks = 2
    MaxRuns = 3
    Best = 2
    ReselectCap = 1
    MaxDrafts = 2
    None = None
    Cards <- MCCards
INVARIANTS
    WorkTypeOK
    DoneIsDurable
    DoneIsGood
    DoneHasWork
    ClaimsReturned
    NothingBeforeApproval
    PastExecute
    WinnerIsBest
    WinnerDidAll
    SplitOnce
PROPERTIES
    PushKeepsWork
    ParkSavesWork
CHECK_DEADLOCK FALSE
