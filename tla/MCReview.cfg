SPECIFICATION Spec
CONSTANTS
    AttemptsCap = 2
    MaxReviewAttemptsCap = 3
    MaxVerifyRedCredit = 3
    ServerCeiling = 4
    HasVerify = TRUE
    Modes = {"auto"}
    Bars = {TRUE, FALSE}
    Mob = FALSE
    Faults = {"time", "stop", "head", "card", "reset", "lease", "push", "verify", "turns", "crash", "operator"}
    MaxCommits = 4
    MaxRuns = 2
INVARIANTS
    ReviewTypeOK
    ApprovedIsProven
    OneChargePerFix
    RoundMirrorsCounter
    NoRefusal
PROPERTIES
    DiscardsOneFix
