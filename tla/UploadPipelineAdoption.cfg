\* One stop is enough to publish a name that was never made durable.
SPECIFICATION Spec
CONSTANTS
    Sessions = {s1}
    Values = {bytes}
    None = None
    Content <- MCContent
    Silent = {}
    Faults = {"stop"}
INVARIANTS PublishedIsDurable
CHECK_DEADLOCK FALSE
