SPECIFICATION FairSpec
CONSTANTS
    Archives = {a1, a2}
    MkdirArchives = {a1, a2}
    Blocks = {ledger}
    Buckets = {b1}
    BucketsOf <- MCBucketsOfSmall
    b1 = b1
    b2 = b2
    MaxSnaps = 2
    RetryLimit = 0
    MaxFaults = 0
    MaxRestarts = 0
INVARIANTS
    CommittedBlocks
PROPERTIES
    EnqueuedStarts
CHECK_DEADLOCK FALSE
