SPECIFICATION Spec
CONSTANTS
    Value = {a, b}
    MaxChunkSize = 8
    BlockIndexInterval = 2
    Faults = {"data-clean", "data-torn", "index-once", "index-twice", "crash"}
    MaxIndex = 3
    MaxFaults = 2
    MaxCrashes = 1
SYMMETRY Symmetry
INVARIANTS
    TypeOK
    
    SettledReadable
PROPERTIES
    DurableStays
    ReadableStays
CHECK_DEADLOCK FALSE
