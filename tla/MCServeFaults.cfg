SPECIFICATION Spec
CONSTANTS
    r1 = r1
    r2 = r2
    r3 = r3
    c1 = c1
    c2 = c2
    s1 = s1
    Runs = {r1, r2}
    Cards = {c1}
    Stops = {}
    CardOf <- MCCardOf
    Callers <- MCCallers
    CallerCard <- MCCallerCard
    MaxConcurrent = 1
    NoRun = NoRun
    Faults = {"start", "remove", "timeout", "payload", "provision", "callback"}
    IdleTimeout = TRUE
INVARIANTS
    ServeTypeOK
    OwnCredentials
    NothingLeft
SYMMETRY MCSymmetry
