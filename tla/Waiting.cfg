SPECIFICATION MCSpec
CONSTANTS
    None = None
    Threads <- MCThreads
    MaxRuns = 2
    MaxAttempts = 2
    PreviewAttempts = 3
    MaxFaults = 1
    t1 = t1
    c1 = c1
    c2 = c2
    c3 = c3
    s1 = s1
    s2 = s2
    e1 = e1
    e2 = e2
    e3 = e3
    NoEntry = NoEntry
    q1 = q1
    q2 = q2
    h1 = h1
INVARIANTS NoBlindReplay
PROPERTIES EveryWakeUpTries EveryWaiterLeaves EveryRequestFinishes
CHECK_DEADLOCK FALSE
