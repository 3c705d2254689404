SPECIFICATION Spec
CONSTANTS
    Block <- MCBlock
    CdsFile <- MCCdsFile
    Images <- MCImages
    SnapshotId = {"s1", "s2"}
    DF_MAX_PENDING = 2
    Faults = {}
    MaxWrites = 1
INVARIANTS
    RestoreRight
CHECK_DEADLOCK FALSE
