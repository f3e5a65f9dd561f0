SPECIFICATION Spec
CONSTANTS
    alice = alice
    bob = bob
    carol = carol
    Accounts = {alice, bob, carol}
    Issuer = carol
    Absent = Absent
    Txs <- MCTxs
    Fee = 1
    BaseReserve = 1
    Genesis <- MCGenesis
    SeqsPerLedger = 4
    FirstLedger = 2
    LastLedger = 5
    MaxTxs = 3
INVARIANTS NothingThrows SqlMatchesDeltas Conservation NoReplay SetsStayValid
CHECK_DEADLOCK FALSE
