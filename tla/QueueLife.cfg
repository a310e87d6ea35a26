CONSTANTS
    QMax = 2
    AnyIdx = FALSE
    Patient = TRUE
    MayFail = {"prog"}
    Tidy = TRUE
SPECIFICATION Spec
INVARIANTS
    PairsAgree
    CountsExact
    NothingLeaks
    QueueIsReachable
    HandleIsLive
