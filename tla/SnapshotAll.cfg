SPECIFICATION Spec
CONSTANTS
    Block <- MCBlock
    CdsFile <- MCCdsFile
    Images <- MCImages
    SnapshotId = {"s1", "s2"}
    DF_MAX_PENDING = 2
    Faults = {"crash"}
    MaxWrites = 3
INVARIANTS
    TypeOK
    
    FiltersComplete
CHECK_DEADLOCK FALSE
