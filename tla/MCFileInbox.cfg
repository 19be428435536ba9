CONSTANTS
    k1 = k1
    k2 = k2
    s1 = s1
    a1 = a1
    Keys = {k1, k2}
    Scopes = {s1}
    Agents = {a1}
    ScopeOf <- MCScopeOf
    AgentScopes <- MCAgentScopes
    Capacity = 2
    ScopeQuota = 2
    MaxAttempts = 2
    RedeliveryAfter = 1
    Retention = 1
    PollLimits = {2}
    AppendFaults = {"lost", "phantom", "torn"}
    CompactFaults = {"lost", "closed"}
    MaxFaults = 1
    MaxRestarts = 1
    MaxNow = 3
SPECIFICATION FileSpec
INVARIANTS DiskAheadOfMemory HandedOutIsDurable
PROPERTIES SettledStaysSettled
CHECK_DEADLOCK FALSE
