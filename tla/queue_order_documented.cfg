SPECIFICATION Spec
CONSTANTS
    low1 = low1
    low2 = low2
    high = high
    Entry <- MCEntry
    priority <- MCPriority
    Consumer = {c1, c2}
    Second = 2
    Grain = 1
    MaxClock = 4
    MaxLosses = 1
PROPERTIES OrderAsDocumented
CHECK_DEADLOCK FALSE
