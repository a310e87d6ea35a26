CONSTANTS
    Pf = pf
    v1 = v1
    v2 = v2
    r1 = r1
    r2 = r2
    r3 = r3
    None = None
    Vfs = {v1, v2}
    Reqs = {r1, r2, r3}
    PfReqs = {r1, r2}
    Byes = {r3}
    Vf <- MCVfSplit
    Op <- MCOpSame
    Timed = {r1}
    Late = TRUE
    Reused = TRUE
    Prompt = FALSE
    Polls = {pf}
    Retries = 2
SPECIFICATION FairSpec
CHECK_DEADLOCK FALSE
INVARIANTS
    TypeOK
    ListedOnce

    
