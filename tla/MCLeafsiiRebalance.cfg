SPECIFICATION Spec
CONSTANTS
    NumPositions = 2
    SCALE_FACTOR = 10
    REWARD_SCALE = 10
    BPS = 10000
    SP_MAX_BURN_FRAC_CALL = 5000
    HARVEST_BOUNTY_BPS = 100
    MAX_U64 = 200
    MAX_U128 = 30
    FAmounts = {2}
    RAmounts = {}
    PF_FIXED = 10
    EPS = 0
    CR_T_L1 = 13
    CR_T_L2 = 12
    CR_T_L3 = 11
    MAX_STALENESS_MS = 1
    MAX_REL_STEP = 2
    InitialPrice = 10
    InitialReserve = 10
    Deposits = {}
    Redeems = {1}
    Prices = {5, 6, 8, 10}
    FeeConfigs <- MCFeesOnly
    InitialFeeConfig <- Fees
    UserActionSettings = {TRUE, FALSE}
    OperationFees = {0}
    DEFAULT_DELEGATE_OPERATION_FEE = 0
    Expirations = {1}
    DEFAULT_TICKET_EXPIRATION_MS = 1
    MIN_TICKET_EXPIRATION_MS = 1
    MAX_TICKET_EXPIRATION_MS = 5
    TargetCRs = {130}
    NumTickets = 1
    MaxReserve = 10
    MaxTime = 1
INVARIANTS
    SolventRedeemable
PROPERTIES
    PxStaleOnlyByPayout
    RebalanceHelps
    ObligationStrandedOnlyByBurn
