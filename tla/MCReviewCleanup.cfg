SPECIFICATION Spec
CONSTANTS
    AttemptsCap = 2
    MaxReviewAttemptsCap = 3
    MaxVerifyRedCredit = 3
    ServerCeiling = 4
    HasVerify = TRUE
    Modes = {"auto"}
    Bars = {TRUE, FALSE}
    Mob = FALSE
    Faults = {"push"}
    MaxCommits = 3
    MaxRuns = 1
INVARIANT CleanupIsProven
