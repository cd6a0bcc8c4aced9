SPECIFICATION FairSpec
CONSTANTS
    Owners <- MCOwners
    Deposits = {1, 2, 3}
    Redeems = {}
    DepositOf <- MCDepositOf
    RedeemOf <- MCRedeemOf
    SeedShares <- MCSeedShares
    SeedBlock = 100
    Prices = {1, 2}
    Posted <- NonePosted
    MaxPosts = 0
    QueueCap = 1
    HasMintHandler = TRUE
    HasPayoutHandler = TRUE
PROPERTIES
    DepositsProgress
CHECK_DEADLOCK FALSE
