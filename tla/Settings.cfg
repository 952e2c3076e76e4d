\* Two handlers at a time, which may be interrupted once.
SPECIFICATION MCSpec
CONSTANTS
    None = None
    NONE = None
    Pages = {o1}
    Shells = {s1}
    Declared = {p1}
    Builtin = p2
    Models = {m1}
    Settings = {on}
    MaxWrites = 3
    MaxStops = 1
    Requests = {q1, q2}
    Threads = {t1, t2}
    Reservation = 2
    Limit = 3
    Cost = 1
    Priced = {q1, q2}
    Faults = {"stop", "error", "disabled"}
    MaxFaults = 1
INVARIANTS SubmittedOnce BudgetRespected Accounted
PROPERTIES EachWriteIsOneEdit UncontestedCancelPreventsResult
SYMMETRY Symmetry
CHECK_DEADLOCK FALSE
