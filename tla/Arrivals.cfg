SPECIFICATION MCSpec
CONSTANTS
    Coroutines = {c1, c2, c3}
    Sessions = {s1, s2}
    Entries = {e1, e2, e3}
    NoEntry = NoEntry
    Requests = {r1, r2}
    Payloads = {a, b}
    Declared = 2
    MaxPatch = 2
    None = None
    s1 = s1
    MaxClaims = 2
    Operators = {op}
    Requesters = {viewer}
    Videos = {v1}
    ActiveLimit = 1
    GlobalLimit = 2
    PrivateLimit = 1
    MaxFaults = 2
    MaxPosts = 2
    PostRequesters = {viewer}
    Posts = {p1}
    MaxAssets = 2
    ActivePostLimit = 1
    GlobalPostLimit = 2
    MaxTroubles = 2
    Working = {"validation", "youtube"}
    Contents = {"good", "bad", "slow", "noisy"}
    MaxStops = 1
INVARIANTS MutualExclusion AcknowledgedBytesKept SuccessHasMedia LibraryIsAccounted RunLeavesNothing
PROPERTIES NothingAfterTheEnd ResumesAfterFaults OnlyOwnOrPublished EveryAcquisitionEnds LifespanEnds
CHECK_DEADLOCK FALSE
