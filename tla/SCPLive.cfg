SPECIFICATION LiveSpec
CONSTANTS
    A = A
    B = B
    C = C
    w = w
    x = x
    y = y
    None = None
    Honest = {A, B}
    Node = {A, B}
    Trusted = {A, B}
    validators <- MCValidators
    threshold <- MCThreshold
    Value = {x, y}
    Rank <- MCRank
    MapRank <- MCMapRank
    MaxCounter = 2
    Proposals <- SameProposals
    FaultyEnvelopes = {}
    Deferrable = {}
    Rejectable = {}
    InitialQSets = {}
    Purgeable = {B}
PROPERTY SlotFinishes
CHECK_DEADLOCK FALSE
