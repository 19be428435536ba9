SPECIFICATION Spec
CONSTANTS
    MaxGen = 3
    MaxRevisions = 2
    MaxFence = 2
    MaxClock = 2
INVARIANTS
    TypeOK
    RowMatchesJournal
    CommandsFollowFences
PROPERTIES
    OutcomesAreFinal
    EvidenceReachesOutbox
CHECK_DEADLOCK FALSE
