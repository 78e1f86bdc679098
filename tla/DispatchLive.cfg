SPECIFICATION FairSpec
CONSTANTS
    j1 = j1
    j2 = j2
    d1 = d1
    d2 = d2
    NoJob = NoJob
    NoCap = NoCap
    NoResult = NoResult
    NoOne = NoOne
    Jobs = {j1}
    Dispatchers = {d1}
    Lease = 2
    CapabilityTTL = 1
    RetryBackoff = 1
    Validity = 3
    MaxAttempts = 1
    SameLeaseAttempts = 1
    PersistenceTries = 1
    MaxFaults = 2
CHECK_DEADLOCK FALSE
PROPERTIES
    StartedCompletes
