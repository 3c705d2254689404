SPECIFICATION Spec
CONSTANTS
    Value = {a, b}
    MaxChunkSize = 8
    BlockIndexInterval = 2
    Faults = {"crash"}
    MaxIndex = 3
    MaxFaults = 0
    MaxCrashes = 1
SYMMETRY Symmetry
INVARIANTS
    CommittedDurable
CHECK_DEADLOCK FALSE
