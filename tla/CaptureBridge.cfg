SPECIFICATION Spec
CONSTANTS
    Requests = {q1, q2}
    Managers = {m1, m2}
    Runners = {r1, r2}
    None = None
    MaxFaults = 1
INVARIANTS CopyIsJournal SentOnce OpenIsReviewed
PROPERTIES EndsAreFinal
SYMMETRY Symmetry
CHECK_DEADLOCK FALSE
