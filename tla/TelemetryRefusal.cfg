CONSTANTS
    NoCoverage = NoCoverage
    NoBatch = NoBatch
    QueueCapacity = 2
    BatchSize = 2
    Heartbeat = 2
    Copies = 2
    MayRefuse = TRUE
    MaxEvents = 1
    MaxEpochs = 1
    MaxTime = 3
    MaxFaults = 2
SPECIFICATION Spec
CHECK_DEADLOCK FALSE
INVARIANTS
    
    GapsAreExact
