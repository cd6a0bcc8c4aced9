SPECIFICATION FairSpec
CONSTANTS
    Unit = 1
    Requests = {r1, r2, r3}
    Asks <- MCAsks
    r1 = r1
    r2 = r2
    r3 = r3
    Amounts = {0, 2, 5}
    MaxAmount = 4
    StateAt <- MCStateAt
    StakeAt <- MCStakeAt
    MarketPrices = {2}
    FPrice = 1
    MaxVersion = 1
    None = None
INVARIANTS
    FlightsLed
    MonotonicReads
    NoRoundTripProfit
PROPERTIES
    FlightEnds
CHECK_DEADLOCK FALSE
