\* Two uploads of the same bytes, one of which is never asked, with every fault.
SPECIFICATION Spec
CONSTANTS
    Sessions = {s1, s2}
    Values = {bytes}
    None = None
    Content <- MCContent
    Silent = {s2}
    Faults = {"error", "stop", "power", "damage"}
INVARIANTS BytesKept OneCanonical DuplicateOfSomething CatalogedIsClean
CHECK_DEADLOCK FALSE
