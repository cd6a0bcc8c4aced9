SPECIFICATION PoolSpec
CONSTANTS
    NumPositions = 2
    SCALE_FACTOR = 4
    REWARD_SCALE = 5
    BPS = 10000
    SP_MAX_BURN_FRAC_CALL = 5000
    HARVEST_BOUNTY_BPS = 100
    MAX_U64 = 7
    MAX_U128 = 10
    FAmounts <- MCFAmounts
    RAmounts <- MCRAmounts
INVARIANTS
    PoolTypeOK
    SharesAccounted
    RewardsCovered
    WithdrawalSharesSuffice
PROPERTIES
    RewardsLeavePaidOrSettled
CHECK_DEADLOCK FALSE
