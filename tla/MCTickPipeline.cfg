SPECIFICATION Spec
CONSTANTS
    Loops = {a, b}
    Prices = {1, 2, 3}
    Times = {1, 2}
    MaxTicks = 3
    MaxTicksPerSym = 2
    Interval = 2
    DefaultPrice = 9
    None = None
    Klines <- MCKlines
    Walks <- MCWalks
SYMMETRY MCSymmetry
CHECK_DEADLOCK FALSE
INVARIANTS CandleIsBarOfTicks HistoryIsRecentTicks ChartContinues
