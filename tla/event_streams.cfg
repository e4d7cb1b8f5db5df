SPECIFICATION FairHubSpec
CONSTANTS
    Viewer = {v1, v2}
    Handler = {p1}
    HubConsumer = {}
    MqttConsumer = {m1}
    ChannelOf <- MCChannelOf
    ClientBuffer = 1
    SubBuffer = 1
    MaxEvents = 3
    MaxFaults = 1
INVARIANTS HubTypeOK NoSendOnClosed NoEmptyEvent
PROPERTIES OrderKept ImplementsFeed BroadcastReturns CutOffIsClosed
CHECK_DEADLOCK FALSE
