SPECIFICATION FairSpec
CONSTANTS
    Workers = {w1}
    Admins = {a1}
    Slots = {s1, s2}
    AddJob = AddJob
    RevokeJob = RevokeJob
    NoOne = NoOne
    NoSlot = NoSlot
    TTL = 3
    Interval = 2
    Soon = 1
    Lease = 1
    Backoff = 1
    Authority = 3
    CapabilityTTL = 1
    MaxAttempts = 2
    MaxFaults = 1
PROPERTIES
    RevocationIsResolved
