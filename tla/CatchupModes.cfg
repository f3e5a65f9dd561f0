SPECIFICATION FairDrawSpec
CONSTANTS
    a1 = a1
    a2 = a2
    a3 = a3
    bk1 = bk1
    bk2 = bk2
    bk3 = bk3
    hdr = hdr
    tx = tx
    Archives = {a1, a2, a3}
    Lacking = {a3}
    Corrupt <- AllCorrupt
    Modes = {"COMPLETE", "MINIMAL", "REPAIR"}
    BucketFiles = {bk1, bk2, bk3}
    LiveBuckets = {bk3}
    HeaderFiles = {hdr}
    TxFiles = {tx}
    RetryLimit = 1
    DbErrors = TRUE
    MaxFaults = 2
INVARIANTS
    FilesInOrder
    EndIsSound
PROPERTIES
    RepairEnds
CHECK_DEADLOCK FALSE
