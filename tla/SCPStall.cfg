SPECIFICATION LiveSpec
CONSTANTS
    A = A
    B = B
    C = C
    w = w
    x = x
    y = y
    None = None
    Honest = {A, B}
    Node = {A, B, C}
    Trusted = {A, B}
    validators <- MCValidators
    threshold <- MCThreshold
    Value = {w, x, y}
    Rank <- MCRank
    MapRank <- MCMapRank
    MaxCounter = 2
    Proposals <- OutbidProposals
    FaultyEnvelopes <- OutsiderC
    Deferrable = {}
    Rejectable = {}
    InitialQSets = {A, B, C}
    Purgeable = {}
PROPERTIES Externalizes
CHECK_DEADLOCK FALSE
