CONSTANTS
    r1 = r1
    r2 = r2
    noreq = noreq
    NoReq = noreq
    RngSz = 4
    RngSzCmpt = 3
    BufSz = 2
    PerPage = 2
    Lens <- MCLens
    Reqs = {r1, r2}
    Count <- MCCount
    Timed = {r1}
    Handler = {TRUE, FALSE}
    Refuses = FALSE
    UddEn = TRUE
    Faults = TRUE
    AllocFails = FALSE
    Budgets = {0, 1}
    MaxPkts = 4
CHECK_DEADLOCK FALSE
SPECIFICATION FairSpec
INVARIANTS TypeOK BuffersAccounted PacketFits DataInOrder NobodyWaitsOnData BuffersApart
PROPERTY PacketsAreReceived
