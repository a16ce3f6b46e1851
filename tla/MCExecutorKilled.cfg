SPECIFICATION ExecutorSpec
CONSTANTS
    r1 = r1
    r2 = r2
    r3 = r3
    c1 = c1
    c2 = c2
    k1 = k1
    Runs = {r1, r2}
    Cards = {c1}
    CardOf <- MCCardOfPair
    Callers = {k1}
    CallerCard <- MCCallerCard
    MaxConcurrent = 1
    NoRun = NoRun
    Faults = {"caller"}
    IdleTimeout = FALSE
INVARIANTS
    KilledWasKilled
