SPECIFICATION FairSpec
CONSTANTS
    Keys = {"a"}
    Fields = {"f", "g"}
    Members = {"m"}
    Strings = {1, 2}
    None = None
    Text = Text
    Readers = {"r1", "r2"}
    TTLs = {0, 1}
    Pushes <- MCPushes
    Increments = {1}
    MaxTime = 3
    MaxCount = 3
    MaxList = 3
INVARIANTS
    LRangeSelects
PROPERTIES
    ImplementsLossy
    JanitorProgress
CHECK_DEADLOCK FALSE
