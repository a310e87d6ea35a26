CONSTANTS
    q1 = q1
    q2 = q2
    Queues = {q1, q2}
    N = 4
    NoQueue = NoQueue
SPECIFICATION Spec
CHECK_DEADLOCK FALSE
INVARIANTS
    ColorsTellNewEntries
PROPERTIES
    ImplementsQueue
    EventsAreHandled
