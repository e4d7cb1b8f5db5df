SPECIFICATION OutputSpec
CONSTANTS
    Job = {j1, j2}
    Capacity = 1
    MaxLines = 0
    Width <- MCNoWidth
    Progress = {}
    MaxLog = 4
    Keep = 2
    NoCopy = NoCopy
    MaxFaults = 0
INVARIANTS SlotsLimitContainers
CHECK_DEADLOCK FALSE
