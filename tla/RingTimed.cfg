CONSTANTS
    r1 = r1
    r2 = r2
    r3 = r3
    NoReq = NoReq
    Reqs = {r1, r2}
    Size <- MCSizeTwo
    Sync = {r2}
    Timed = {r2}
    Batch = {}
    RngSz = 3
    Mode = "poll"
    Stops = TRUE
    Expires = TRUE
    MaxStarts = 2
    CountMod = 8
SPECIFICATION Spec
CHECK_DEADLOCK FALSE
INVARIANTS
    RingAccounting
PROPERTIES
    DescriptorsKept
