SPECIFICATION Spec
CONSTANTS
    Archives = {a1}
    MkdirArchives = {a1}
    Blocks = {ledger}
    Buckets = {b1}
    BucketsOf <- MCBucketsOfSmall
    b1 = b1
    b2 = b2
    MaxSnaps = 2
    RetryLimit = 0
    MaxFaults = 4
    MaxRestarts = 0
INVARIANTS
    NoDanglingCallback
    SuccessIsReal
CHECK_DEADLOCK FALSE
