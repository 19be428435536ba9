SPECIFICATION Spec
CONSTANTS
    Logins = {l1, l2}
    Requests = {r1, r2}
    Burst = 2
    LoginTime = 2
    SessionTime = 3
    IdleTime = 2
    AccessTime = 2
    RefreshTime = 3
    Lead = 1
    ClaimTime = 1
    SessionCap = 1
    MaxNow = 4
    MaxAdmitted = 3
    MaxTokens = 2
SYMMETRY RequestSymmetry
INVARIANTS
    TokensUsedOnce
    LiveRowsOpen
    AdmissionRate
PROPERTIES
    NeverResurrected
CHECK_DEADLOCK FALSE
