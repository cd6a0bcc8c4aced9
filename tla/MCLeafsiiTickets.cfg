SPECIFICATION Spec
CONSTANTS
    NumPositions = 1
    SCALE_FACTOR = 10
    REWARD_SCALE = 10
    BPS = 10000
    SP_MAX_BURN_FRAC_CALL = 5000
    HARVEST_BOUNTY_BPS = 100
    MAX_U64 = 200
    MAX_U128 = 200
    FAmounts = {}
    RAmounts = {}
    PF_FIXED = 10
    EPS = 0
    CR_T_L1 = 13
    CR_T_L2 = 12
    CR_T_L3 = 11
    MAX_STALENESS_MS = 1
    MAX_REL_STEP = 2
    InitialPrice = 10
    InitialReserve = 8
    Deposits = {5}
    Redeems = {2}
    Prices = {6, 8, 10}
    FeeConfigs <- MCBonus
    InitialFeeConfig <- Bonus
    UserActionSettings = {TRUE}
    OperationFees = {1}
    DEFAULT_DELEGATE_OPERATION_FEE = 1
    Expirations = {1}
    DEFAULT_TICKET_EXPIRATION_MS = 1
    MIN_TICKET_EXPIRATION_MS = 1
    MAX_TICKET_EXPIRATION_MS = 5
    TargetCRs = {}
    NumTickets = 1
    MaxReserve = 13
    MaxTime = 3
INVARIANTS
    LeafTypeOK
    CustodyNeverAhead
PROPERTIES
    NoDilution
    GapOnlyByBonusOrKeeper
    UnexpiredTicketPaid
