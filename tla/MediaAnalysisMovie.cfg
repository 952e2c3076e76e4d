\* One movie request, no faults: the coordinator takes the run before its handler does.
SPECIFICATION Spec
CONSTANTS
    None = None
    t1 = t1
    t2 = t2
    Threads <- MCOneThread
    MaxRuns = 1
    MaxAttempts = 2
    PreviewAttempts = 3
    MaxFaults = 0
INVARIANTS MovieSubmittedOnce
CHECK_DEADLOCK FALSE
