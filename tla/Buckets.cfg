SPECIFICATION Spec
CONSTANTS
    k1 = k1
    v1 = v1
    k2 = k2
    Keys = {k1, k2}
    Values = {v1}
    Dead = Dead
    None = None
    kNumLevels = 3
    Batches <- MCBatches
    Genesis <- MCGenesis
    MaxLedger = 25
    MaxChanges = 2
    MaxDowns = 2
INVARIANTS FilesAreThere
PROPERTIES ImplementsEntries ImplementsList
CHECK_DEADLOCK FALSE
