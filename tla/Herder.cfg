SPECIFICATION Spec
CONSTANTS
    Nodes = {A, B}
    Threshold = 2
    MaxSlot = 3
    Bracket = 1
    Remember = 1
INVARIANTS Orderly NothingStuck
PROPERTIES TrackingBackIsLate HearsLast
CHECK_DEADLOCK FALSE
