SPECIFICATION Spec
CONSTANTS
    c1 = c1
    c2 = c2
    c3 = c3
    t1 = t1
    w1 = w1
    w2 = w2
    NoResult = NoResult
    NoWorker = NoWorker
    NoCap = NoCap
    Caps = {c1,c3}
    Workers = {w1}
    ThirdOp = "revoke"
    Targets <- OneTarget
    Target <- SameTarget
    Op <- OpOf
    TTL <- UnequalTTL
    NotBefore <- Staggered
    ExpiresAt <- StaggeredExpiry
    MaxFrames = 4
    MaxOperation = 2
    PowerFails = TRUE
    MaxTime = 3
    MaxBoots = 3
CHECK_DEADLOCK FALSE
INVARIANTS
    TypeOK
    WriteAhead
    ReopenAccepts
    AssessmentsWellFormed
    HonestResults
PROPERTIES
    MutatesWhileFresh
