\* One upload of a good or a bad file and one stop of the service.
SPECIFICATION ShutdownSpec
CONSTANTS
    Working = {"validation"}
    Contents = {"good", "bad"}
    MaxStops = 1
INVARIANTS StopIsNoVerdict
CHECK_DEADLOCK FALSE
