SPECIFICATION Spec
CONSTANTS
    AttemptsCap = 3
    MaxReviewAttemptsCap = 3
    MaxVerifyRedCredit = 3
    ServerCeiling = 4
    HasVerify = TRUE
    Modes = {"auto", "human"}
    Bars = {FALSE}
    Mob = TRUE
    Faults = {"push", "turns", "operator"}
    MaxCommits = 4
    MaxRuns = 2
INVARIANTS
    NothingUnseen
