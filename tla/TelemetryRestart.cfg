CONSTANTS
    NoCoverage = NoCoverage
    NoBatch = NoBatch
    QueueCapacity = 2
    BatchSize = 2
    Heartbeat = 2
    Copies = 1
    MayRefuse = FALSE
    MaxEvents = 2
    MaxEpochs = 2
    MaxTime = 3
    MaxFaults = 2
SPECIFICATION Spec
CHECK_DEADLOCK FALSE
INVARIANTS
    
    StoredOnce
