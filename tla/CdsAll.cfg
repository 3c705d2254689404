SPECIFICATION Spec
CONSTANTS
    Block <- MCBlock
    Size <- MCSize
    RESERVED_REGION_SIZE = 2
    Traces <- MCTraces
    MaxLoads = 2
    MaxRecorded = 1
INVARIANTS
    TypeOK
    ReadRight
    FinishedReadable
    VerifiedRight
CHECK_DEADLOCK FALSE
