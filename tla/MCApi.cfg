SPECIFICATION Spec
CONSTANTS
    n1 = n1
    Requests = {1, 2, 3, 4}
    Mixes <- MCMixes
    Nodes = {n1}
    MaxStarts = 2
INVARIANTS
    
    ListFollowsDht
PROPERTIES
    RequestsAnswered
    StoppedNodesLeave
CHECK_DEADLOCK FALSE
