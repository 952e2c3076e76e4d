\* Two uploads of the same bytes, until a start after which nothing fails.
SPECIFICATION CalmingSpec
CONSTANTS
    Sessions = {s1, s2}
    Values = {bytes}
    None = None
    Content <- MCContent
    Silent = {s2}
    Faults = {"stop", "error"}
PROPERTIES EveryUploadSettles ImplementsLifecycle
CHECK_DEADLOCK FALSE
