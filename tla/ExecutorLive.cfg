SPECIFICATION FairSpec
CONSTANTS
    c1 = c1
    c2 = c2
    c3 = c3
    t1 = t1
    w1 = w1
    w2 = w2
    NoResult = NoResult
    NoWorker = NoWorker
    NoCap = NoCap
    Caps = {c1,c3}
    Workers = {w1,w2}
    ThirdOp = "inspect"
    Targets <- OneTarget
    Target <- SameTarget
    Op <- OpOf
    TTL <- UnequalTTL
    NotBefore <- Staggered
    ExpiresAt <- StaggeredExpiry
    MaxFrames = 2
    MaxOperation = 1
    PowerFails = FALSE
    MaxTime = 1
    MaxBoots = 2
CHECK_DEADLOCK FALSE
PROPERTIES
    CallsReturn
