CONSTANTS
    r1 = r1
    r2 = r2
    r3 = r3
    NoReq = NoReq
    Reqs = {r1, r2}
    Size <- MCSizeTwo
    Sync = {r1}
    Timed = {}
    Batch = {}
    RngSz = 3
    Mode = "direct"
    Stops = TRUE
    Expires = TRUE
    MaxStarts = 1
    CountMod = 8
SPECIFICATION Spec
CHECK_DEADLOCK FALSE
PROPERTIES
    RequestsEnd
