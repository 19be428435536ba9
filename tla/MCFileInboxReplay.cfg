CONSTANTS
    k1 = k1
    k2 = k2
    s1 = s1
    a1 = a1
    Keys = {k1, k2}
    Scopes = {s1}
    Agents = {a1}
    ScopeOf <- MCScopeOf
    AgentScopes <- MCAgentScopes
    Capacity = 2
    ScopeQuota = 1
    MaxAttempts = 1
    RedeliveryAfter = 1
    Retention = 1
    PollLimits = {2}
    AppendFaults = {}
    CompactFaults = {}
    MaxFaults = 0
    MaxRestarts = 2
    MaxNow = 3
SPECIFICATION FileSpec
INVARIANT JournalReplayable
CHECK_DEADLOCK FALSE
