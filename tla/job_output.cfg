SPECIFICATION FairOutputSpec
CONSTANTS
    Job = {j1}
    Capacity = 1
    MaxLines = 4
    Width <- MCWidth
    Progress = {2}
    MaxLog = 4
    Keep = 2
    NoCopy = NoCopy
    MaxFaults = 2
INVARIANTS OutputTypeOK  LogKept LogSizeBounded  NoStrayContainer
PROPERTIES ContainersRemoved
CHECK_DEADLOCK FALSE
