\* A request cancelled between its admission and its submission.
SPECIFICATION FairSpec
CONSTANTS
    None = None
    Requests = {q1}
    Threads = {t1}
    Reservation = 2
    Limit = 3
    Cost = 1
    Priced = {q1}
    Faults = {"stop"}
    MaxFaults = 1
PROPERTIES CancellingAdvances
CHECK_DEADLOCK FALSE
