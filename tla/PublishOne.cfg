SPECIFICATION FairSpec
CONSTANTS
    Archives = {a1}
    MkdirArchives = {a1}
    Blocks = {ledger}
    Buckets = {b1, b2}
    BucketsOf <- MCBucketsOf
    b1 = b1
    b2 = b2
    MaxSnaps = 2
    RetryLimit = 0
    MaxFaults = 2
    MaxRestarts = 1
INVARIANTS
    FilesInOrder
    AnnouncedIsHeld
PROPERTIES
    WellKnownMonotone
    EnqueuedStarts
CHECK_DEADLOCK FALSE
