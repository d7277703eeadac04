SPECIFICATION Spec
CONSTANTS
    NumAccounts = 3
    MaxProducers = 2
    MinTokens = 4
    vtx_precision = 2
    MaxTokens = 9
    Sqrt <- MCSqrt
    Ballots <- MCBallots
    JobLists <- MCJobs
    Quantities = {4, 8}
    Holders = {1, 2}
    Funds <- MCFunds
INVARIANTS
    TallyExact
    RecountPasses
    PowerBounded
    ActiveAhead
