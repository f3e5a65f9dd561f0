SPECIFICATION FairSpec
CONSTANTS
    Freq = 3
    Configs = {FALSE}
    MaxNet = 9
    MaxGaps = 2
    MaxLate = 0
    MaxManual = 0
    MaxCrashes = 0
PROPERTY RoundEnds
CHECK_DEADLOCK FALSE
