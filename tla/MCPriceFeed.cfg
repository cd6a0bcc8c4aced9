SPECIFICATION FairSpec
CONSTANTS
    Symbols = {sui, eth}
    MaxLoops = 2
    TickCap = 1
    Prices = {1, 2}
    MaxEmitted = 2
    MaxFailures = 3
    None = None
CHECK_DEADLOCK FALSE
PROPERTIES OutageNoticed RecoveryResubscribes
