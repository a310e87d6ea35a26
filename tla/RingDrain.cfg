CONSTANTS
    r1 = r1
    r2 = r2
    r3 = r3
    NoReq = NoReq
    Reqs = {r1, r2, r3}
    Size <- MCSize
    Sync = {r1}
    Timed = {}
    Batch = {r3}
    RngSz = 3
    Mode = "auto"
    Stops = TRUE
    Expires = FALSE
    MaxStarts = 1
    CountMod = 8
SPECIFICATION Spec
CHECK_DEADLOCK FALSE
INVARIANTS
    FetchesMappedPages
    BytesReportedAreMoved
