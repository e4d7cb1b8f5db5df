SPECIFICATION ServiceSpec
CONSTANTS
    Reported = {"running", "failure"}
    Proc = {p1, p2}
    Watched = {}
    JobId = {j1}
    AgentId = {a1}
    NoAgent = NoAgent
    NoRow = NoRow
    MaxRetries = 1
    MaxLogs = 0
    MaxEnqueue = 3
    Faulty = FALSE
    Overlap = TRUE
INVARIANTS EntriesBounded
CHECK_DEADLOCK FALSE
