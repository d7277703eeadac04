SPECIFICATION TokenSpec
CONSTANTS
    NumNames = 4
    Accounts <- MCAccounts
    TokenSelf = 1
    Treasury = 2
    Permissions = {"active", "spend"}
    RestrictLevels <- MCLevels
    MaxSupplies = {3}
    TokenAmounts = {0, 1, 2}
INVARIANTS
    SupplyConserved
PROPERTIES
    RestrictionHolds
