--------------------------------- MODULE Hub ---------------------------------
(***************************************************************************)
(* The live events of the dashboard: the WebSocket hub and the writers of  *)
(* its clients (internal/adapters/handler/http/hub.go), and the consumers  *)
(* that pass on what is published in Redis (hub.go and                     *)
(* internal/adapters/handler/mqtt/publisher.go) over the subscriptions of  *)
(* internal/adapters/queue/redis/adapter.go.                               *)
(*                                                                         *)
(* The channels broadcast and register, and the one between a subscription *)
(* and its consumer, have no buffer: the sender waits for the receiver.    *)
(***************************************************************************)
EXTENDS Naturals, Sequences, FiniteSets

CONSTANTS
    Viewer,        \* connections of browsers
    Handler,       \* HTTP handlers that broadcast
    HubConsumer,   \* LogConsumer, ResourceConsumer, JobUpdateConsumer
    MqttConsumer,  \* the consumers of the MQTT publisher
    ChannelOf,     \* ChannelOf[c]: the Redis channel consumer c subscribes to
    ClientBuffer,  \* 256 in the code
    SubBuffer,     \* messages a subscription may be behind (100 in go-redis)
    MaxEvents,     \* bound: events in all
    MaxFaults      \* bound: Redis connections lost

Consumer == HubConsumer \cup MqttConsumer
RedisChannel == {ChannelOf[c] : c \in Consumer}
Event == 1 .. MaxEvents

ASSUME HubAssumption ==
    /\ ClientBuffer \in Nat \ {0} /\ SubBuffer \in Nat \ {0}
    /\ MaxEvents \in Nat /\ MaxFaults \in Nat
    /\ HubConsumer \cap MqttConsumer = {} /\ Handler \cap Consumer = {}

VARIABLES
    next,     \* events are numbered as they are broadcast or published
    sub,      \* sub[c]: messages in the subscription of consumer c
    forward,  \* forward[c]: the message its goroutine offers, or 0
    offer,    \* offer[s]: the event a handler or a consumer waits to pass on, or 0
    sending,  \* the message Hub.Run is sending ...
    todo,     \* ... and the clients it has still to be sent to
    clients,  \* Hub.clients
    buf,      \* buf[v]: the buffer of the channel Client.send
    closed,   \* the clients whose channel is closed
    pump,     \* pump[v]: where writePump is
    batch,    \* batch[v]: events in the WebSocket message being written
    left,     \* left[v]: events writePump is still going to add to it
    peer,     \* the browsers that are still there
    feed,     \* history: the events in the order Hub.Run took them
    from,     \* history: from[v]: length of the feed when v was registered
    got,      \* history: what arrived at the browser
    passed,   \* history: passed[c]: the last event c received
    faults

sources == <<next, sub, forward, offer, passed, faults>>
hubVars == <<sending, todo, clients, closed, feed, from>>
clientVars == <<buf, pump, batch, left, peer, got>>
vars == <<sources, hubVars, clientVars>>

Init ==
    /\ next = 1 /\ offer = [s \in Handler \cup Consumer |-> 0]
    /\ sub = [c \in Consumer |-> <<>>] /\ forward = [c \in Consumer |-> 0]
    /\ sending = 0 /\ todo = {} /\ clients = {} /\ closed = {}
    /\ buf = [v \in Viewer |-> <<>>] /\ pump = [v \in Viewer |-> "none"]
    /\ batch = [v \in Viewer |-> <<>>] /\ left = [v \in Viewer |-> 0]
    /\ peer = Viewer
    /\ feed = <<>> /\ from = [v \in Viewer |-> 0]
    /\ got = [v \in Viewer |-> <<>>]
    /\ passed = [c \in Consumer |-> 0] /\ faults = 0

-----------------------------------------------------------------------------
(***************************************************************************)
(* HTTP handlers, subscriptions and consumers.                             *)
(***************************************************************************)
NextEvent == next <= MaxEvents /\ next' = next + 1

Broadcast(p) ==
    /\ offer[p] = 0 /\ NextEvent
    /\ offer' = [offer EXCEPT ![p] = next]
    /\ UNCHANGED <<sub, forward, passed, faults, hubVars, clientVars>>

\* Redis hands a message to the subscriptions of its channel.  go-redis drops
\* it when its buffer stays full; a lost connection misses it.
Publish(ch) ==
    /\ NextEvent
    /\ \E missed \in SUBSET {c \in Consumer : ChannelOf[c] = ch} :
          /\ IF \A c \in missed : Len(sub[c]) >= SubBuffer
             THEN UNCHANGED faults
             ELSE faults < MaxFaults /\ faults' = faults + 1
          /\ sub' = [c \in Consumer |->
                         IF ChannelOf[c] # ch \/ c \in missed THEN sub[c]
                         ELSE Append(sub[c], next)]
    /\ UNCHANGED <<forward, offer, passed, hubVars, clientVars>>

\* Mutant: a goroutine for each message offers it.
ForwardAny(c) ==
    /\ forward[c] = 0
    /\ \E k \in DOMAIN sub[c] :
          /\ forward' = [forward EXCEPT ![c] = sub[c][k]]
          /\ sub' = [sub EXCEPT ![c] = SubSeq(@, 1, k - 1) \o SubSeq(@, k + 1, Len(@))]
    /\ UNCHANGED <<next, offer, passed, faults, hubVars, clientVars>>

\* The goroutine of Subscribe reads one message and offers it.
Forward(c) ==
    /\ forward[c] = 0 /\ sub[c] # <<>>
    /\ forward' = [forward EXCEPT ![c] = Head(sub[c])]
    /\ sub' = [sub EXCEPT ![c] = Tail(@)]
    /\ UNCHANGED <<next, offer, passed, faults, hubVars, clientVars>>

Receive(c) ==
    /\ forward[c] # 0 /\ offer[c] = 0
    /\ offer' = [offer EXCEPT ![c] = forward[c]]
    /\ passed' = [passed EXCEPT ![c] = forward[c]]
    /\ forward' = [forward EXCEPT ![c] = 0]
    /\ UNCHANGED <<next, sub, faults, hubVars, clientVars>>

\* The MQTT client takes the message or drops it when it is not connected.
PublishMqtt(c) ==
    /\ c \in MqttConsumer /\ offer[c] # 0
    /\ offer' = [offer EXCEPT ![c] = 0]
    /\ UNCHANGED <<next, sub, forward, passed, faults, hubVars, clientVars>>

-----------------------------------------------------------------------------
(***************************************************************************)
(* Hub.Run.                                                                *)
(***************************************************************************)
Selecting == todo = {}

\* ServeWs has offered v, and starts writePump as soon as it is taken.
RegisterClient(v) ==
    /\ Selecting /\ pump[v] = "registering"
    /\ clients' = clients \cup {v}
    /\ from' = [from EXCEPT ![v] = Len(feed)]
    /\ pump' = [pump EXCEPT ![v] = "idle"]
    /\ UNCHANGED <<sources, sending, todo, closed, feed, buf, batch, left, peer, got>>

Take(e) ==
    /\ Selecting
    /\ sending' = e /\ todo' = clients
    /\ feed' = Append(feed, e)
    /\ UNCHANGED <<clients, closed, from, clientVars>>

TakeFrom(s) ==
    /\ s \in Handler \cup HubConsumer /\ offer[s] # 0 /\ Take(offer[s])
    /\ offer' = [offer EXCEPT ![s] = 0]
    /\ UNCHANGED <<next, sub, forward, passed, faults>>

SendTo(v) ==
    /\ v \in todo
    /\ todo' = todo \ {v}
    /\ UNCHANGED <<sources, sending, feed, from, pump, batch, left, peer, got>>

\* Mutant: the client stays registered.
SendOrClose(v) ==
    /\ SendTo(v)
    /\ IF Len(buf[v]) < ClientBuffer
       THEN buf' = [buf EXCEPT ![v] = Append(@, sending)] /\ UNCHANGED closed
       ELSE closed' = closed \cup {v} /\ UNCHANGED buf
    /\ UNCHANGED clients

\* Mutant: the message is dropped and the client stays.
SendOrSkip(v) ==
    /\ SendTo(v)
    /\ buf' = IF Len(buf[v]) < ClientBuffer
              THEN [buf EXCEPT ![v] = Append(@, sending)] ELSE buf
    /\ UNCHANGED <<clients, closed>>

\* Mutant: the hub waits for room.
SendWaiting(v) ==
    /\ SendTo(v)
    /\ Len(buf[v]) < ClientBuffer
    /\ buf' = [buf EXCEPT ![v] = Append(@, sending)]
    /\ UNCHANGED <<clients, closed>>

\* Mutant: the buffer has no limit.
SendAlways(v) ==
    /\ SendTo(v)
    /\ buf' = [buf EXCEPT ![v] = Append(@, sending)]
    /\ UNCHANGED <<clients, closed>>

\* A client with a full buffer is cut off.
Send(v) ==
    /\ SendTo(v)
    /\ IF Len(buf[v]) < ClientBuffer
       THEN /\ buf' = [buf EXCEPT ![v] = Append(@, sending)]
            /\ UNCHANGED <<clients, closed>>
       ELSE /\ closed' = closed \cup {v}
            /\ clients' = clients \ {v}
            /\ UNCHANGED buf

-----------------------------------------------------------------------------
(***************************************************************************)
(* The connection of a browser: ServeWs and writePump.                     *)
(***************************************************************************)
Pump(v, at, to) ==
    /\ pump[v] = at
    /\ pump' = [pump EXCEPT ![v] = to]
    /\ UNCHANGED <<sources, hubVars>>

ServeWs(v) ==
    /\ Pump(v, "none", "registering")
    /\ UNCHANGED <<buf, batch, left, peer, got>>

TakeFirst(v) ==
    /\ Pump(v, "idle", "first") /\ buf[v] # <<>>
    /\ batch' = [batch EXCEPT ![v] = <<Head(buf[v])>>]
    /\ buf' = [buf EXCEPT ![v] = Tail(@)]
    /\ UNCHANGED <<left, peer, got>>

\* Mutant: the length was read before the first message was taken.
CountAll(v) ==
    /\ Pump(v, "first", "batch")
    /\ left' = [left EXCEPT ![v] = Len(buf[v]) + 1]
    /\ UNCHANGED <<buf, batch, peer, got>>

\* n := len(c.send)
CountRest(v) ==
    /\ Pump(v, "first", "batch")
    /\ left' = [left EXCEPT ![v] = Len(buf[v])]
    /\ UNCHANGED <<buf, batch, peer, got>>

TakeNext(v) ==
    /\ Pump(v, "batch", "batch") /\ left[v] > 0 /\ buf[v] # <<>>
    /\ batch' = [batch EXCEPT ![v] = Append(@, Head(buf[v]))]
    /\ buf' = [buf EXCEPT ![v] = Tail(@)]
    /\ left' = [left EXCEPT ![v] = @ - 1]
    /\ UNCHANGED <<peer, got>>

\* The message is complete; one that goes to a browser that has left may
\* still be written without an error.
Flush(v) ==
    /\ Pump(v, "batch", "idle") /\ left[v] = 0
    /\ got' = IF v \in peer THEN [got EXCEPT ![v] = @ \o batch[v]] ELSE got
    /\ batch' = [batch EXCEPT ![v] = <<>>]
    /\ UNCHANGED <<buf, left, peer>>

PumpReturns(v, at) ==
    /\ Pump(v, at, "end")
    /\ peer' = peer \ {v}
    /\ batch' = [batch EXCEPT ![v] = <<>>]
    /\ left' = [left EXCEPT ![v] = 0]
    /\ UNCHANGED <<buf, got>>

\* A ping, NextWriter or the flush returns an error.
WriteFails(v) ==
    /\ v \notin peer
    /\ \/ PumpReturns(v, "idle")
       \/ PumpReturns(v, "first")
       \/ left[v] = 0 /\ PumpReturns(v, "batch")

\* Mutant: the writer goes on when the channel is closed.
HubClosedIgnored(v) ==
    /\ Pump(v, "idle", "idle") /\ v \in closed /\ buf[v] = <<>>
    /\ UNCHANGED <<buf, batch, left, peer, got>>

\* The channel is closed and empty.
HubClosed(v) == PumpReturns(v, "idle") /\ v \in closed /\ buf[v] = <<>>

BrowserLeaves(v) ==
    /\ v \in peer
    /\ peer' = peer \ {v}
    /\ UNCHANGED <<sources, hubVars, buf, pump, batch, left, got>>

-----------------------------------------------------------------------------
Run ==
    \/ \E v \in Viewer : RegisterClient(v) \/ Send(v)
    \/ \E s \in Handler \cup HubConsumer : TakeFrom(s)

WritePump(v) ==
    TakeFirst(v) \/ CountRest(v) \/ TakeNext(v) \/ Flush(v) \/ WriteFails(v) \/ HubClosed(v)

Consume(c) == Forward(c) \/ Receive(c) \/ PublishMqtt(c)

Next ==
    \/ \E p \in Handler : Broadcast(p)
    \/ \E ch \in RedisChannel : Publish(ch)
    \/ \E c \in Consumer : Consume(c)
    \/ Run
    \/ \E v \in Viewer : ServeWs(v) \/ WritePump(v) \/ BrowserLeaves(v)

HubSpec == Init /\ [][Next]_vars

\* All goroutines go on; a select takes every channel that stays ready.
FairHubSpec ==
    /\ HubSpec
    /\ \A c \in Consumer : WF_vars(Consume(c))
    /\ \A s \in Handler \cup HubConsumer : SF_vars(TakeFrom(s))
    /\ \A v \in Viewer : WF_vars(Send(v)) /\ WF_vars(WritePump(v))

-----------------------------------------------------------------------------
\* Every variable has its type, and buffers stay within their capacity.
HubTypeOK ==
    /\ next \in 1 .. MaxEvents + 1 /\ offer \in [Handler \cup Consumer -> 0 .. MaxEvents]
    /\ sub \in [Consumer -> Seq(Event)]
    /\ \A f \in {forward, passed} : f \in [Consumer -> 0 .. MaxEvents]
    /\ sending \in 0 .. MaxEvents /\ feed \in Seq(Event)
    /\ todo \subseteq clients /\ clients \subseteq Viewer /\ closed \subseteq Viewer
    /\ peer \subseteq Viewer
    /\ \A f \in {buf, batch, got} : f \in [Viewer -> Seq(Event)]
    /\ \A v \in Viewer : Len(buf[v]) <= ClientBuffer
    /\ pump \in [Viewer -> {"none", "registering", "idle", "first", "batch", "end"}]
    /\ left \in [Viewer -> 0 .. ClientBuffer] /\ from \in [Viewer -> Nat]
    /\ faults \in 0 .. MaxFaults

\* The hub never sends on a closed channel, nor closes one twice, which
\* would end the process: what it holds as a client is open.
NoSendOnClosed == clients \cap closed = {}

\* While writePump adds events to a message they are there: it neither waits
\* in the middle of a message nor writes the zero Message of a closed channel.
NoEmptyEvent ==
    \A v \in Viewer : pump[v] = "batch" => Len(buf[v]) >= left[v]

\* A consumer passes events on in the order they were published in, none
\* twice, whatever its subscription loses.
OrderKept == [][\A c \in Consumer : passed'[c] # passed[c] => passed'[c] > passed[c]]_passed

View == [v \in Viewer |-> CASE pump[v] \in {"none", "registering"} -> "none"
                            [] pump[v] = "end" -> "out"
                            [] OTHER -> "in"]

\* What browsers are shown is a feed: without gaps, although clients are
\* added and cut off and their writers run beside the hub.
ShownFeed == INSTANCE Feed WITH view <- View
ImplementsFeed == ShownFeed!FeedSpec

\* Every broadcast returns, whatever browsers do: neither a slow nor a dead
\* one blocks the handler of a request or a consumer.
BroadcastReturns == \A s \in Handler \cup Consumer : offer[s] # 0 ~> offer[s] = 0

\* The connection of a client that was cut off is closed in the end.
CutOffIsClosed == \A v \in Viewer : v \in closed ~> pump[v] = "end"
=============================================================================
