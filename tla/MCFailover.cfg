SPECIFICATION FairSpec
CONSTANTS
    Calls = {1, 2, 3}
    Wrapped = {1, 2}
    Types = {TRUE, FALSE}
    MaxOutages = 1
INVARIANTS
    OneProbe
PROPERTIES
    NobodyStuck
    ProbeRestores
CHECK_DEADLOCK FALSE
