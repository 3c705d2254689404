SPECIFICATION Spec
CONSTANTS
    Element <- MCElement
    CKSUM_LEN = 3
    HASH_LEN = 2
    BASE = 2
    kBloomFilterFunctions <- MCkBloomFilterFunctions
    NUM_FUNCS = 2
    SecondFunctions = 2
    BITS_PER_ITEM = 1
    BYTE = 2
    SnapshotSizes = {0, 1, 2}
    Garbage = {2}
    SnapshotId = {"s1"}
    ResetFunctions <- MCResetFunctions
    MaxFunctions = 5
INVARIANTS
    TypeOK
    NoFalseNegative
    
