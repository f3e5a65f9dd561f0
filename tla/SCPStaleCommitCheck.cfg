SPECIFICATION Spec
CONSTANTS
    A = A
    B = B
    C = C
    w = w
    x = x
    y = y
    None = None
    Honest = {A}
    Node = {A, B}
    Trusted = {A, B}
    validators <- MCValidators
    threshold <- MCThreshold
    Value = {x, y}
    Rank <- MCRank
    MapRank <- MCMapRank
    MaxCounter = 2
    Proposals <- NoProposals
    FaultyEnvelopes <- PeerEnvelopes
    Deferrable = {"ballot"}
    Rejectable = {}
    InitialQSets = {A, B}
    Purgeable = {}
INVARIANTS NoAbort
CHECK_DEADLOCK FALSE
