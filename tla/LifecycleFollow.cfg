SPECIFICATION FairSpec
CONSTANTS
    Workers = {w1, w2}
    Admins = {a1, a2}
    Slots = {s1, s2}
    AddJob = AddJob
    RevokeJob = RevokeJob
    NoOne = NoOne
    NoSlot = NoSlot
    TTL = 4
    Interval = 1
    Soon = 1
    Lease = 1
    Backoff = 1
    Authority = 3
    CapabilityTTL = 1
    MaxAttempts = 2
    MaxFaults = 1
INVARIANTS
    TypeOK
    OneLiveSchedule
    ResultsAreAccepted
    RevocationIsExclusive
    EndsAreHonest
PROPERTIES
    NeverExtended
    StandingSettles
