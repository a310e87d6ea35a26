CONSTANTS
    f1 = f1
    f2 = f2
    f3 = f3
    NoFunc = NoFunc
    Funcs = {f1, f2}
    QTypes = {"h2c", "c2h"}
    QBase = 0
    TotalQ = 3
    ReqQmax = {0, 1, 2}
    ReqQbase <- MCQbases
    AllocMayFail = TRUE
    CountMod = 4
SPECIFICATION Spec
INVARIANTS
    QueueHasOneOwner
    ActiveWithinRange
PROPERTIES
    RangeKeptWhileActive
    LockIsReleased
