SPECIFICATION Spec
CONSTANTS
    NTasks = 2
    MaxRuns = 3
    Best = 2
    ReselectCap = 1
    MaxDrafts = 2
    None = None
    Cards <- MCStale
PROPERTIES
    ParkSavesAllWork
CHECK_DEADLOCK FALSE
