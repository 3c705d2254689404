SPECIFICATION FairSpec
CONSTANTS
    Value = {a, b}
    MaxChunkSize = 8
    BlockIndexInterval = 2
    Faults = {"data-clean", "index-once", "crash-whole"}
    MaxIndex = 4
    MaxFaults = 2
    MaxCrashes = 1
INVARIANTS
    ReadYourWrites
    CommittedDurable
PROPERTIES
    NoReissue
    AckedBecomesReadable
CHECK_DEADLOCK FALSE
