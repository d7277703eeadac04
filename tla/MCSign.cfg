SPECIFICATION Spec
CONSTANTS
    p1 = p1
    p2 = p2
    p3 = p3
    Procs = {p1, p2, p3}
    Limit = 2
    MaxSessions = 2
    Lagging = TRUE
    MaxFaults = 1
    Setups <- MCSetups
INVARIANTS
    RevealNeedsQuorum
PROPERTIES
    ImplementsBarrier
    FullSessionsSign
CHECK_DEADLOCK FALSE
