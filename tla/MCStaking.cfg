SPECIFICATION Spec
CONSTANTS
    NumUsers = 2
    MaxRows = 2
    MIN_STAKE_AMOUNT = 1000
    MAX_STAKE_AMOUNT = 2022
    STAKE_PERIOD = 1
    Quantities = {20, 1000}
    Memos <- MCMemos
    Horizon = 1
    MaxClears = 1
    UserFunds = 2000
    TokenFunds = 20
INVARIANTS
    Backed
    GlobalsExact
    
    LockBounded
    Withdrawable
PROPERTIES
    PaysExactlyTheDue
