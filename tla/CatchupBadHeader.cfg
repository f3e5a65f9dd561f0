SPECIFICATION FairDrawSpec
CONSTANTS
    a1 = a1
    a2 = a2
    a3 = a3
    bk1 = bk1
    bk2 = bk2
    bk3 = bk3
    hdr = hdr
    tx = tx
    Archives = {a1, a2}
    Lacking = {}
    Corrupt <- HeaderCorrupt
    Modes = {"COMPLETE"}
    BucketFiles = {}
    LiveBuckets = {}
    HeaderFiles = {hdr}
    TxFiles = {tx}
    RetryLimit = 1
    DbErrors = FALSE
    MaxFaults = 0
PROPERTIES
    Ends
CHECK_DEADLOCK FALSE
