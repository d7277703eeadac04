SPECIFICATION Spec
CONSTANTS
    p1 = p1
    p2 = p2
    p3 = p3
    Procs = {p1, p2, p3}
    Limit = 2
    MaxSessions = 2
    Lagging = TRUE
    MaxFaults = 2
INVARIANTS
    TypeOK
    NumbersUnique
    SharesMutual
    KeysAgree
PROPERTIES
    ImplementsBarrier
    FullSessionsFinish
CHECK_DEADLOCK FALSE
