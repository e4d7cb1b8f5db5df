SPECIFICATION FairRegistrySpec
CONSTANTS
    h1 = h1
    h2 = h2
    n1 = n1
    n2 = n2
    Host = {h1, h2}
    Fingerprint <- MCFingerprint
    AgentId <- MCAgentId
    Session = {c1, c2}
    Channel = {k1, k2}
    ChannelCapacity = 1
    NoRow = NoRow
    Pending = Pending
    NoId = NoId
    NoIdentity = NoIdentity
    NoChannel = NoChannel
    NoSession = NoSession
    MaxCommands = 2
    MaxFaults = 1
INVARIANTS RegistryTypeOK OneOwner OneRowPerHost NoCommandStranded ListensToItsChannel
PROPERTIES CommandsInOrder CommandsLeave
CHECK_DEADLOCK FALSE
