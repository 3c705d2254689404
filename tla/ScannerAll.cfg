SPECIFICATION FairScan
CONSTANTS
    ChunkIds <- MCChunkId
    Stores <- MCStores
INVARIANTS
    ScanTypeOK
    InOrder
    AllWhenNothingRemoved
    FirstChunkRight
PROPERTIES
    ScanEnds
CHECK_DEADLOCK FALSE
