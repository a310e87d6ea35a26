CONSTANTS
    v1 = v1
    v2 = v2
    v3 = v3
    Vfs = {v1, v2, v3}
    NumVfs = 3
    NoFunc = NoFunc
    CountMod = 256
    Hasty = FALSE
    Calm = TRUE
    Timing = "full"
    MaxResets = 2
    MaxQueued = 1
SPECIFICATION Spec
CHECK_DEADLOCK FALSE
INVARIANTS
    CountIsExact
    EveryOneHasASlot
    ResetReachesAll
PROPERTIES
    BackOnline
