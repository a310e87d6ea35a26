CONSTANTS
    Pf = pf
    v1 = v1
    v2 = v2
    r1 = r1
    r2 = r2
    r3 = r3
    None = None
    Vfs = {v1}
    Reqs = {r1, r2, r3}
    PfReqs = {}
    Byes = {}
    Vf <- MCVfOne
    Op <- MCOpSame
    Timed = {}
    Late = FALSE
    Reused = FALSE
    Prompt = TRUE
    Polls = {}
    Retries = 2
SPECIFICATION FairSpec
CHECK_DEADLOCK FALSE
INVARIANTS
    OwnAnswer
    InOrder
    
PROPERTIES
    Answered
