CONSTANTS
    k1 = k1
    k2 = k2
    r1 = r1
    r2 = r2
    Keys = {k1, k2}
    Malformed = {k2}
    Replicas = {r1, r2}
    BatchSize = 2
    Lease = 1
    RetryDelay = 1
    MaxPublish = 1
    MaxReplays = 3
    MaxFaults = 2
    MaxRequeues = 2
SPECIFICATION FairSpec
INVARIANTS TypeOK CompleteMeansPublished QuarantineIsEarned
PROPERTIES LateWritesIgnored EventuallyDecided
