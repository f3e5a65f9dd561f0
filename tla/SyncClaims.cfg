SPECIFICATION Spec
CONSTANTS
    Freq = 3
    Configs = {FALSE}
    MaxNet = 7
    MaxGaps = 1
    MaxLate = 1
    MaxManual = 1
    MaxCrashes = 1
INVARIANTS
    InitAhead
    BlocksAlwaysWhole
    SqlStoreHoldsLcl
CHECK_DEADLOCK FALSE
