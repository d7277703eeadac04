SPECIFICATION Spec
CONSTANTS
    NumNodes = 2
    JobIds = {1, 2}
    Rules <- MCRules
    Rankings <- MCRankings
    Flagged = {1}
    Deposits = {3}
    MaxFunds = 6
    MaxRows = 3
    Horizon = 2
    U32 = 16
INVARIANTS
    RewardsConserved
    RateLimited

    
