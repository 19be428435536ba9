CONSTANTS
    k1 = k1
    k2 = k2
    s1 = s1
    a1 = a1
    a2 = a2
    Keys = {k1, k2}
    Scopes = {s1}
    Agents = {a1, a2}
    ScopeOf <- MCScopeOf
    AgentScopes <- MCAgentScopes
    Capacity = 2
    ScopeQuota = 1
    MaxAttempts = 1
    RedeliveryAfter = 1
    Retention = 1
    OutboxCapacity = 2
    Submissions <- MCSubmissions
    PollLimits = {2}
    ReconcileBatch = 1
    AcceptWindow = 0
    MaxFaults = 1
    MaxNow = 2
SPECIFICATION FairSpec
INVARIANTS AuditMatchesDelivery AnsweredIsKept PassRepairs
PROPERTIES ContractKept LostRecordRepaired
CHECK_DEADLOCK FALSE
