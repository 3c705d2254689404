SPECIFICATION Spec
CONSTANTS
    Value = {a, b}
    MaxChunkSize = 2
    BlockIndexInterval = 2
    Calls = {"read", "reload", "gc", "drop", "crash"}
    MaxChunk = 1
    RemoveFrom = {0}
    MaxAppends = 3
    MaxDeaths = 1
SYMMETRY Symmetry
INVARIANTS
    TypeOK
    AckedHeld
    ClosedSurvives
    RefreshedFound
    ReaderOrWriter
PROPERTIES
    ImplementsHandleStore
CHECK_DEADLOCK FALSE
