SPECIFICATION CallSpec
CONSTANTS
    GrantTime = 2
    Kept = 1
    MaxLive = 2
    MaxGen = 2
    Budgets <- Renewals
    MaxTime = 2
    MaxCalls = 1
    Calls = {c1, c2}
    Limit = 1
SYMMETRY CallSymmetry
INVARIANTS
    OneServes
    HeldIsValid
    StopsInTime
    LimitHolds
PROPERTIES
    NeverRevived
CHECK_DEADLOCK FALSE
