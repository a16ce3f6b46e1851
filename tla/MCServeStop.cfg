SPECIFICATION Spec
CONSTANTS
    r1 = r1
    r2 = r2
    r3 = r3
    c1 = c1
    c2 = c2
    s1 = s1
    Runs = {r1, r2}
    Cards = {c1}
    Stops = {s1}
    CardOf <- MCCardOf
    Callers <- MCCallers
    CallerCard <- MCCallerCard
    MaxConcurrent = 1
    NoRun = NoRun
    Faults = {"remove", "caller", "payload", "provision", "callback", "start"}
    IdleTimeout = FALSE
INVARIANTS
    StopIsFinal
SYMMETRY MCSymmetry
