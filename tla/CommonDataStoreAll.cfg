SPECIFICATION Spec
CONSTANTS
    Block <- MCBlock
    Sha1 <- MCSha1
    IndexInterval = 2
    no_partitions = 2
    Batches <- MCBatches
    MaxBatches = 3
    MaxFaults = 2
INVARIANTS
    TypeOK
    
    
CHECK_DEADLOCK FALSE
