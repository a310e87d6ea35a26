CONSTANTS
    v1 = v1
    v2 = v2
    v3 = v3
    Vfs = {v1}
    NumVfs = 1
    NoFunc = NoFunc
    CountMod = 4
    Hasty = TRUE
    Calm = FALSE
    Timing = "any"
    MaxResets = 2
    MaxQueued = 1
SPECIFICATION Spec
CHECK_DEADLOCK FALSE
INVARIANTS
    TypeOK
PROPERTIES
    WaitsEnd
