SPECIFICATION FairDispatchSpec
CONSTANTS
    p1 = p1
    a1 = a1
    a2 = a2
    Client = {p1}
    AgentId = {a1, a2}
    Proc <- MCProc2
    Capacity = 1
    JobId = {j1}
    NoAgent = NoAgent
    NoRow = NoRow
    NoJob = NoJob
    NoSlot = NoSlot
    MaxRetries = 1
    Reported = {}
    Watched = {}
    MaxLogs = 0
    MaxEnqueue = 2
    MaxFaults = 0
    TimeLimit = FALSE
    Faulty = TRUE
    Overlap = TRUE
INVARIANTS AtMostOnce
 
CHECK_DEADLOCK FALSE
