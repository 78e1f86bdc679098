SPECIFICATION Spec
CONSTANTS
    j1 = j1
    j2 = j2
    d1 = d1
    d2 = d2
    NoJob = NoJob
    NoCap = NoCap
    NoResult = NoResult
    NoOne = NoOne
    Jobs = {j1}
    Dispatchers = {d1, d2}
    Lease = 2
    CapabilityTTL = 2
    RetryBackoff = 1
    Validity = 5
    MaxAttempts = 2
    SameLeaseAttempts = 2
    PersistenceTries = 2
    MaxFaults = 2
CHECK_DEADLOCK FALSE
SYMMETRY Symmetry
INVARIANTS
    TypeOK
    OnlyStoredAuthority
    JobAppliedOnce
    GivenUpIsUnused
    StoredIsAttested
    VerdictsAreStorable
PROPERTIES
    MutatesUnderItsLease
