SPECIFICATION MCSpec
CONSTANTS
    None = None
    Rotten = Rotten
    MinKeep = 1
    KeepAuto = 1
    MaxAttempts = 3
    MaxCopies = 1
    MaxPulls = 1
    MaxVersion = 2
    MaxFaults = 2
    MaxBack = 1
    Uploads = {u1, u2}
    Files = {f1}
    Size = 1
    Main = {m1, m2}
    Side = {d1}
    Missing = Missing
    MaxGen = 4
    MaxLosses = 1
    Operators = {o1, o2}
    Releases = {r0, r1, r2, r3}
    First = r0
    Compatible = {r0, r1, r2}
    Sound = {r0, r1, r3}
    Providers = {p1, p2}
    Versions = {v1, v2}
    FirstProvider = p1
    FirstVersion = v1
    Nothing = Nothing
    MaxCommands = 2
    MaxBreaks = 2
INVARIANTS ReadinessIsHonest CopiesAreProved ReportsAreTrue
PROPERTIES FloorIsKept KeysAllOrNothing FencedAfterCancel
CHECK_DEADLOCK FALSE
