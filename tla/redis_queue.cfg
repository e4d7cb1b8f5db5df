SPECIFICATION FairSpec
CONSTANTS
    low1 = low1
    low2 = low2
    high = high
    Entry <- MCEntry
    priority <- MCPriority
    Consumer = {c1, c2}
    Second = 2
    Grain = 2
    MaxClock = 4
    MaxLosses = 1
INVARIANTS NothingElseLost
PROPERTIES ImplementsJobQueue PriorityWithinSeconds EveryEntryLeaves
CHECK_DEADLOCK FALSE
