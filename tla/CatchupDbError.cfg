SPECIFICATION CatchupSpec
CONSTANTS
    a1 = a1
    a2 = a2
    a3 = a3
    bk1 = bk1
    bk2 = bk2
    bk3 = bk3
    hdr = hdr
    tx = tx
    Archives = {a1, a2}
    Lacking = {}
    Corrupt <- HeaderCorrupt
    Modes = {"MINIMAL"}
    BucketFiles = {bk1}
    LiveBuckets = {}
    HeaderFiles = {hdr}
    TxFiles = {}
    RetryLimit = 1
    DbErrors = TRUE
    MaxFaults = 0
INVARIANTS
    ApplyErrorRetries
    HeaderIsVerified
CHECK_DEADLOCK FALSE
