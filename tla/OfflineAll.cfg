SPECIFICATION Spec
CONSTANTS
    Block <- MCBlock
    Size <- MCSize
    FIX_SEGMENT_SIZE = 2
    PARTITIONS = 2
    PERCENT = 3
    MAX_SIMILAR_SEARCH = 1
    FilterPositions = 2
    LRU_HASH_SIZE = 2
    GROUP = 2
    SAMPLE = 2
    CAPACITY = 2
    BIN_PARTITIONS = 2
    LOOP_STRIDE = 2
    TEST_SEGMENT = 4
    TEST_SHIFT = 2
    TEST_SEGMENTS = 3
    BUCKETS = 2
    CacheSizes <- MCCacheSizes
    CdsSets <- MCCdsSets
    MaxBlocks = 4
    MaxTraces = 3
INVARIANTS
    DuplicatesRight
    DeletionSafe
    IndexesRight
    
CHECK_DEADLOCK FALSE
