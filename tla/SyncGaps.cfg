SPECIFICATION FairSpec
CONSTANTS
    Freq = 3
    Configs = {TRUE, FALSE}
    MaxNet = 9
    MaxGaps = 2
    MaxLate = 1
    MaxManual = 1
    MaxCrashes = 1
INVARIANTS Orderly CatchupKnitsOn PublishedIsWhole
PROPERTIES LclMonotone HearingRoundEnds
CHECK_DEADLOCK FALSE
