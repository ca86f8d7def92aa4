SPECIFICATION Spec
CONSTANTS
    Pods = {a, b}
    Threads = {t1, t2}
    Redis = Redis
    None = None
    Limit = 2
    Window = 2
    Gate = 1
    Turns = 2
    MaxRequests = 4
    MaxTime = 2
    MaxFaults = 1
INVARIANTS TypeOK AdmittedBounded ConversationRemembered
SYMMETRY Symmetry
CHECK_DEADLOCK FALSE
