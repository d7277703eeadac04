SPECIFICATION Spec
CONSTANTS
    o1 = o1
    o2 = o2
    Oracles = {o1, o2}
    Window = 3
    U64 = 16
    Reports = {0, 2, 3, 15}
    SameGarbage = {0, 3, 15}
    PreviousGarbage = {0, 3}
    IssuerFunds = 4
    MaxInits = 2
SYMMETRY OraclePermutations
INVARIANTS
    PegKept
PROPERTIES
    RisesOnlyByWrap
    
