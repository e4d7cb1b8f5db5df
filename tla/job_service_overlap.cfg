SPECIFICATION ServiceSpec
CONSTANTS
    Reported = {"running", "success", "failure"}
    Proc = {p1, p2}
    Watched = {}
    JobId = {j1}
    AgentId = {a1}
    NoAgent = NoAgent
    NoRow = NoRow
    MaxRetries = 1
    MaxLogs = 0
    MaxEnqueue = 3
    Faulty = TRUE
    Overlap = TRUE
SYMMETRY Symmetry
INVARIANTS TypeOK RetryBound CancelledMarked RetriesCovered
CHECK_DEADLOCK FALSE
