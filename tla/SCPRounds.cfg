SPECIFICATION Spec
CONSTANTS
    A = A
    B = B
    C = C
    w = w
    x = x
    y = y
    None = None
    Honest = {A, B}
    Node = {A, B, C}
    Trusted = {A, B, C}
    validators <- MCValidators
    threshold <- MCThreshold
    Value = {x, y}
    Rank <- MCRank
    MapRank <- MCMapRank
    MaxCounter = 2
    Proposals <- ExpiringProposals
    FaultyEnvelopes <- EquivocatingC
    Deferrable = {}
    Rejectable = {}
    InitialQSets = {A, B, C}
    Purgeable = {}
INVARIANTS TypeOK AdvanceSlotSound ExceptedPromise Agreement
PROPERTIES ImplementsConsensus
CHECK_DEADLOCK FALSE
