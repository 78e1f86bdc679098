CONSTANTS
    NoCoverage = NoCoverage
    NoBatch = NoBatch
    QueueCapacity = 2
    BatchSize = 2
    Heartbeat = 2
    Copies = 1
    MayRefuse = TRUE
    MaxEvents = 1
    MaxEpochs = 1
    MaxTime = 4
    MaxFaults = 1
SPECIFICATION Spec
CHECK_DEADLOCK FALSE
INVARIANTS
    LaterTrafficProceeds
