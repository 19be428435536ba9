CONSTANTS
    k1 = k1
    k2 = k2
    k3 = k3
    k4 = k4
    s1 = s1
    s2 = s2
    s3 = s3
    a1 = a1
    Keys = {k1, k2, k3, k4}
    Scopes = {s1, s2, s3}
    Agents = {a1}
    ScopeOf <- MCScopeOf
    AgentScopes <- MCAgentScopes
    Capacity = 2
    ScopeQuota = 1
    MaxAttempts = 2
    RedeliveryAfter = 1
    Retention = 1
    PollLimits = {1, 2}
    MaxNow = 4
SPECIFICATION FairSpec
INVARIANTS TypeOK ScopeAccounting OrderMatchesSequence
PROPERTIES ImplementsContract IdempotencyWindow HandedOver
CHECK_DEADLOCK FALSE
