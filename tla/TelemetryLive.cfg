SPECIFICATION FairSpec
CONSTANTS
    NoCoverage = NoCoverage
    NoBatch = NoBatch
    QueueCapacity = 2
    BatchSize = 2
    Heartbeat = 2
    Copies = 1
    MayRefuse = FALSE
    MaxEvents = 3
    MaxEpochs = 1
    MaxTime = 3
    MaxFaults = 1
CHECK_DEADLOCK FALSE
INVARIANTS
    TypeOK
    

    
    
