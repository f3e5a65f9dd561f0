SPECIFICATION Spec
CONSTANTS
    Nodes = {A, B}
    Threshold = 2
    MaxSlot = 3
    Bracket = 1
    Remember = 1
PROPERTIES
    FetchesOnlyBehind
    TrackingForward
CHECK_DEADLOCK FALSE
