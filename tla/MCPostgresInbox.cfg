CONSTANTS
    k1 = k1
    k2 = k2
    k3 = k3
    k4 = k4
    s1 = s1
    s2 = s2
    s3 = s3
    a1 = a1
    c1 = c1
    c2 = c2
    Keys = {k1, k2, k3, k4}
    Scopes = {s1, s2, s3}
    Agents = {a1}
    ScopeOf <- MCScopeOf
    AgentScopes <- MCAgentScopes
    Capacity = 1
    ScopeQuota = 1
    MaxAttempts = 2
    RedeliveryAfter = 1
    Retention = 1
    Slots = {c1, c2}
    PollLimits = {1, 2}
    ClaimBatch = 1
    Skew = 1
    MaxNow = 2
    MaxSequence = 3
SYMMETRY SlotSymmetry
SPECIFICATION Spec
PROPERTIES ImplementsContract
CHECK_DEADLOCK FALSE
