SPECIFICATION LoopSpec
CONSTANTS
    Node <- MCNode
    validators <- MCValidators
    threshold <- MCThreshold
INVARIANT AnswerIsTransitive
CHECK_DEADLOCK FALSE
