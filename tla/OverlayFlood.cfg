SPECIFICATION Spec
CONSTANTS
    Nodes = {A, B}
    Origin = A
    Wanter = B
    MaxConns = 2
    Target = 1
    MaxPeers <- MCMaxPeers
    MaxWire = 2
    MaxFaults = 1
INVARIANT ToldIsTrue
CHECK_DEADLOCK FALSE
