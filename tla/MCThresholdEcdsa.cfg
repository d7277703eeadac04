SPECIFICATION Spec
CONSTANTS
    Q = 7
    N = 53
    SHARE_COUNT = 4
    THRESHOLD = 1
    Coefficients = {1, 5}
    Nonces = {1, 3, 5}
    BetaTags = {3, 52}
    Signers <- MCSigners
    Messages <- MCMessages
INVARIANTS
    PartsAddUp
    BlindingIsSound
    HonestSign
    
CHECK_DEADLOCK FALSE
