SPECIFICATION DispatchSpec
CONSTANTS
    p1 = p1
    a1 = a1
    a2 = a2
    Client = {p1}
    AgentId = {a1}
    Proc <- MCProc1
    Capacity = 1
    JobId = {j1}
    NoAgent = NoAgent
    NoRow = NoRow
    NoJob = NoJob
    NoSlot = NoSlot
    MaxRetries = 1
    Reported = {}
    Watched = {}
    MaxLogs = 1
    MaxEnqueue = 2
    MaxFaults = 1
    TimeLimit = TRUE
    Faulty = TRUE
    Overlap = TRUE
INVARIANTS DispatchTypeOK AtMostOnce  SuccessEarned NoJobLeftBehind
CHECK_DEADLOCK FALSE
