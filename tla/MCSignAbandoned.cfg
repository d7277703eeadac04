SPECIFICATION Spec
CONSTANTS
    p1 = p1
    p2 = p2
    p3 = p3
    Procs = {p1, p2, p3}
    Limit = 3
    MaxSessions = 2
    Lagging = FALSE
    MaxFaults = 1
    Setups <- GoodSetups
PROPERTY JoinedThenSigned
CHECK_DEADLOCK FALSE
