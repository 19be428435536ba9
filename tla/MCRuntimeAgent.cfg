SPECIFICATION AgentSpec
CONSTANTS
    MaxGen = 3
    MaxRevisions = 1
    MaxFence = 3
    MaxClock = 1
    CommandCap = 2
INVARIANTS
    CreatedOnce
    ContainersAreRecorded
    ReportedIsSettled
CHECK_DEADLOCK FALSE
