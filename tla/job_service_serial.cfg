SPECIFICATION FairServiceSpec
CONSTANTS
    Proc = {p1, p2}
    Watched = {j1}
    JobId = {j1}
    AgentId = {a1, a2}
    NoAgent = NoAgent
    NoRow = NoRow
    MaxRetries = 1
    Reported = {"pending", "running", "success", "failure"}
    MaxLogs = 1
    MaxEnqueue = 3
    Faulty = TRUE
    Overlap = FALSE
INVARIANTS EntriesExact AnnouncedCurrent
PROPERTIES ImplementsContract EveryJobOffered
CHECK_DEADLOCK FALSE
