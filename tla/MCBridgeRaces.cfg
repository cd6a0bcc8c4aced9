SPECIFICATION Spec
CONSTANTS
    Owners <- MCOwners
    Deposits = {1}
    Redeems = {1, 2, 3}
    DepositOf <- MCDepositOf
    RedeemOf <- MCRedeemOf
    SeedShares <- MCSeedShares
    SeedBlock = 100
    Prices = {2}
    Posted <- MCPosted
    MaxPosts = 3
    QueueCap = 1
    HasMintHandler = FALSE
    HasPayoutHandler = TRUE
INVARIANTS
    PaidCovered
    TotalAccountedFor
    UpdateIdsMonotonic
    BridgeTypeOK
CHECK_DEADLOCK FALSE
