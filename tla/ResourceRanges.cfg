CONSTANTS
    f1 = f1
    f2 = f2
    f3 = f3
    NoFunc = NoFunc
    Funcs = {f1, f2, f3}
    QTypes = {}
    QBase = 0
    TotalQ = 5
    ReqQmax = {0, 1, 2, 3, 5}
    ReqQbase <- MCQbases
    AllocMayFail = FALSE
    CountMod = 2
SPECIFICATION Spec
SYMMETRY FuncSymmetry
INVARIANTS
    NoQueueLost
PROPERTIES
    FailedUpdateKeepsRange
    RefusedOnlyWhenFull
