SPECIFICATION Spec
CONSTANTS
    Nodes = {A, B}
    Origin = A
    Wanter = B
    MaxConns = 2
    Target = 1
    MaxPeers <- MCMaxPeers
    MaxWire = 2
    MaxFaults = 1
INVARIANTS PeersInOrder FloodsOnce
PROPERTIES ConnectsAndFetches
CHECK_DEADLOCK FALSE
