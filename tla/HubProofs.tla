------------------------------ MODULE HubProofs ------------------------------
(***************************************************************************)
(* Type correctness and safety of Hub, for any number of browsers,         *)
(* handlers and consumers and any sizes of the buffers.                    *)
(***************************************************************************)
EXTENDS Hub, TLAPS

USE HubAssumption DEF HubAssumption

-----------------------------------------------------------------------------
(***************************************************************************)
(* Types, in the parts that the three groups of steps change.              *)
(***************************************************************************)
SourcesType ==
    /\ next \in 1 .. MaxEvents + 1
    /\ offer \in [Handler \cup Consumer -> 0 .. MaxEvents]
    /\ sub \in [Consumer -> Seq(Event)]
    /\ forward \in [Consumer -> 0 .. MaxEvents]
    /\ passed \in [Consumer -> 0 .. MaxEvents]
    /\ faults \in 0 .. MaxFaults

RunType ==
    /\ sending \in 0 .. MaxEvents /\ feed \in Seq(Event)
    /\ todo \subseteq clients /\ clients \subseteq Viewer /\ closed \subseteq Viewer
    /\ from \in [Viewer -> Nat]
    /\ todo # {} => sending \in Event

BufferType ==
    /\ buf \in [Viewer -> Seq(Event)]
    /\ \A v \in Viewer : Len(buf[v]) <= ClientBuffer

PumpType ==
    /\ peer \subseteq Viewer
    /\ batch \in [Viewer -> Seq(Event)] /\ got \in [Viewer -> Seq(Event)]
    /\ pump \in [Viewer -> {"none", "registering", "idle", "first", "batch", "end"}]
    /\ left \in [Viewer -> 0 .. ClientBuffer]

TypeInv == SourcesType /\ RunType /\ BufferType /\ PumpType

LEMMA TypeInvIsType == TypeInv => HubTypeOK
BY DEF TypeInv, SourcesType, RunType, BufferType, PumpType, HubTypeOK

LEMMA InitTyped == Init => TypeInv
BY DEF Init, TypeInv, SourcesType, RunType, BufferType, PumpType, Event, Consumer

LEMMA UnchangedTyped ==
    /\ SourcesType /\ UNCHANGED sources => SourcesType'
    /\ RunType /\ UNCHANGED hubVars => RunType'
    /\ BufferType /\ UNCHANGED buf => BufferType'
    /\ PumpType /\ UNCHANGED <<pump, batch, left, peer, got>> => PumpType'
BY DEF SourcesType, RunType, BufferType, PumpType, sources, hubVars

LEMMA ClientsUnchanged ==
    UNCHANGED clientVars <=> UNCHANGED buf /\ UNCHANGED <<pump, batch, left, peer, got>>
BY DEF clientVars

\* What a subscription, and a client's buffer, still holds when its first
\* message is taken.
LEMMA HeadTail ==
    ASSUME NEW S, NEW q \in Seq(S), q # <<>>
    PROVE  /\ Head(q) \in S /\ Tail(q) \in Seq(S)
           /\ Len(Tail(q)) = Len(q) - 1 /\ Len(q) > 0
OBVIOUS

LEMMA SourcesTyped ==
    ASSUME SourcesType,
           \/ \E p \in Handler : Broadcast(p)
           \/ \E ch \in RedisChannel : Publish(ch)
           \/ \E c \in Consumer : Consume(c)
    PROVE  SourcesType' /\ UNCHANGED <<hubVars, clientVars>>
<1> USE DEF SourcesType
<1>1. ASSUME NEW p \in Handler, Broadcast(p)
      PROVE  SourcesType' /\ UNCHANGED <<hubVars, clientVars>>
  BY <1>1 DEF Broadcast, NextEvent
<1>2. ASSUME NEW ch \in RedisChannel, Publish(ch)
      PROVE  SourcesType' /\ UNCHANGED <<hubVars, clientVars>>
  <2>1. PICK missed \in SUBSET {c \in Consumer : ChannelOf[c] = ch} :
          /\ IF \A c \in missed : Len(sub[c]) >= SubBuffer
             THEN UNCHANGED faults
             ELSE faults < MaxFaults /\ faults' = faults + 1
          /\ sub' = [c \in Consumer |->
                       IF ChannelOf[c] # ch \/ c \in missed THEN sub[c]
                       ELSE Append(sub[c], next)]
    BY <1>2 DEF Publish
  <2>2. next \in Event /\ next' = next + 1
    BY <1>2 DEF Publish, NextEvent, Event
  <2>3. \A c \in Consumer : sub[c] \in Seq(Event) /\ Append(sub[c], next) \in Seq(Event)
    BY <2>2
  <2>4. sub' \in [Consumer -> Seq(Event)]
    BY <2>1, <2>3, Zenon
  <2>5. faults' \in 0 .. MaxFaults
    BY <2>1
  <2>6. UNCHANGED <<forward, offer, passed, hubVars, clientVars>>
    BY <1>2 DEF Publish
  <2> QED
    BY <2>2, <2>4, <2>5, <2>6 DEF Event
<1>3. ASSUME NEW c \in Consumer, Forward(c)
      PROVE  SourcesType' /\ UNCHANGED <<hubVars, clientVars>>
  <2>1. Head(sub[c]) \in Event /\ Tail(sub[c]) \in Seq(Event)
    BY <1>3, HeadTail DEF Forward
  <2>2. Head(sub[c]) \in 0 .. MaxEvents
    BY <2>1 DEF Event
  <2> QED
    BY <1>3, <2>1, <2>2 DEF Forward
<1>4. ASSUME NEW c \in Consumer, Receive(c)
      PROVE  SourcesType' /\ UNCHANGED <<hubVars, clientVars>>
  BY <1>4 DEF Receive
<1>5. ASSUME NEW c \in Consumer, PublishMqtt(c)
      PROVE  SourcesType' /\ UNCHANGED <<hubVars, clientVars>>
  BY <1>5 DEF PublishMqtt
<1> QED
  BY <1>1, <1>2, <1>3, <1>4, <1>5 DEF Consume

LEMMA RegisterTyped ==
    ASSUME TypeInv, NEW v \in Viewer, RegisterClient(v)
    PROVE  TypeInv'
<1>1. SourcesType' /\ BufferType'
  BY UnchangedTyped DEF RegisterClient, TypeInv
<1>2. RunType'
  <2>1. Len(feed) \in Nat
    BY DEF TypeInv, RunType
  <2> QED
    BY <2>1 DEF RegisterClient, Selecting, TypeInv, RunType
<1>3. PumpType'
  BY DEF RegisterClient, TypeInv, PumpType
<1> QED
  BY <1>1, <1>2, <1>3 DEF TypeInv

LEMMA TakeFromTyped ==
    ASSUME TypeInv, NEW s \in Handler \cup HubConsumer, TakeFrom(s)
    PROVE  TypeInv'
<1>1. offer[s] \in Event
  BY DEF TakeFrom, TypeInv, SourcesType, Event, Consumer
<1>2. SourcesType'
  <2>1. offer' \in [Handler \cup Consumer -> 0 .. MaxEvents]
    <3>1. offer' = [offer EXCEPT ![s] = 0]
      BY DEF TakeFrom
    <3>2. offer \in [Handler \cup Consumer -> 0 .. MaxEvents]
      BY DEF TypeInv, SourcesType
    <3>3. 0 \in 0 .. MaxEvents
      OBVIOUS
    <3> HIDE DEF HubAssumption
    <3> QED
      BY ONLY <3>1, <3>2, <3>3, Zenon
  <2>2. UNCHANGED <<next, sub, forward, passed, faults>>
    BY DEF TakeFrom
  <2> QED
    BY <2>1, <2>2 DEF TypeInv, SourcesType
<1>3. RunType'
  BY <1>1 DEF TakeFrom, Take, TypeInv, RunType, Event
<1>4. BufferType' /\ PumpType'
  BY UnchangedTyped, ClientsUnchanged DEF TakeFrom, Take, TypeInv
<1> QED
  BY <1>2, <1>3, <1>4 DEF TypeInv

LEMMA SendTyped ==
    ASSUME TypeInv, NEW v \in Viewer, Send(v)
    PROVE  TypeInv'
<1>1. SourcesType' /\ PumpType'
  BY UnchangedTyped DEF Send, SendTo, TypeInv
<1>2. RunType'
  BY DEF Send, SendTo, TypeInv, RunType
<1>3. BufferType'
  <2>1. CASE Len(buf[v]) < ClientBuffer
    <3>1. buf[v] \in Seq(Event) /\ sending \in Event
      BY DEF Send, SendTo, TypeInv, RunType, BufferType
    <3>2. /\ Append(buf[v], sending) \in Seq(Event)
          /\ Len(Append(buf[v], sending)) <= ClientBuffer
      BY <2>1, <3>1
    <3>3. buf' = [buf EXCEPT ![v] = Append(buf[v], sending)]
      BY <2>1 DEF Send
    <3> QED
      BY <3>2, <3>3 DEF TypeInv, BufferType
  <2>2. CASE ~(Len(buf[v]) < ClientBuffer)
    BY <2>2, UnchangedTyped DEF Send, TypeInv
  <2> QED
    BY <2>1, <2>2
<1> QED
  BY <1>1, <1>2, <1>3 DEF TypeInv

\* writePump takes the first message of its channel.
LEMMA TakenTyped ==
    ASSUME BufferType, NEW v \in Viewer, buf[v] # <<>>,
           buf' = [buf EXCEPT ![v] = Tail(@)]
    PROVE  BufferType' /\ Head(buf[v]) \in Event
<1>1. buf[v] \in Seq(Event)
  BY DEF BufferType
<1>2. /\ Head(buf[v]) \in Event /\ Tail(buf[v]) \in Seq(Event)
      /\ Len(Tail(buf[v])) = Len(buf[v]) - 1
  BY <1>1, HeadTail
<1> QED
  BY <1>1, <1>2 DEF BufferType

LEMMA ViewerTyped ==
    ASSUME TypeInv, NEW v \in Viewer, ServeWs(v) \/ WritePump(v) \/ BrowserLeaves(v)
    PROVE  TypeInv'
<1>1. UNCHANGED <<sources, hubVars>>
  BY DEF ServeWs, WritePump, BrowserLeaves, TakeFirst, CountRest, TakeNext, Flush,
         WriteFails, HubClosed, PumpReturns, Pump
<1>2. SourcesType' /\ RunType'
  BY <1>1, UnchangedTyped DEF TypeInv
<1>3. CASE ServeWs(v)
  BY <1>2, <1>3, UnchangedTyped DEF ServeWs, Pump, TypeInv, PumpType
<1>4. CASE TakeFirst(v)
  <2>1. BufferType' /\ Head(buf[v]) \in Event
    BY <1>4, TakenTyped DEF TakeFirst, TypeInv
  <2>2. PumpType'
    BY <1>4, <2>1 DEF TakeFirst, Pump, TypeInv, PumpType
  <2> QED
    BY <1>2, <2>1, <2>2 DEF TypeInv
<1>5. CASE CountRest(v)
  <2>1. Len(buf[v]) \in 0 .. ClientBuffer
    BY DEF TypeInv, BufferType
  <2>2. PumpType'
    BY <1>5, <2>1 DEF CountRest, Pump, TypeInv, PumpType
  <2> QED
    BY <1>2, <1>5, <2>2, UnchangedTyped DEF CountRest, TypeInv
<1>6. CASE TakeNext(v)
  <2>1. BufferType' /\ Head(buf[v]) \in Event
    BY <1>6, TakenTyped DEF TakeNext, TypeInv
  <2>2. batch[v] \in Seq(Event) /\ left[v] - 1 \in 0 .. ClientBuffer
    BY <1>6 DEF TakeNext, TypeInv, PumpType
  <2>3. Append(batch[v], Head(buf[v])) \in Seq(Event)
    BY <2>1, <2>2
  <2>4. PumpType'
    BY <1>6, <2>2, <2>3 DEF TakeNext, Pump, TypeInv, PumpType
  <2> QED
    BY <1>2, <2>1, <2>4 DEF TypeInv
<1>7. CASE Flush(v)
  <2>1. got[v] \o batch[v] \in Seq(Event)
    BY DEF TypeInv, PumpType
  <2>2. got' \in [Viewer -> Seq(Event)]
    BY <1>7, <2>1 DEF Flush, TypeInv, PumpType
  <2>3. PumpType'
    BY <1>7, <2>2 DEF Flush, Pump, TypeInv, PumpType
  <2> QED
    BY <1>2, <1>7, <2>3, UnchangedTyped DEF Flush, TypeInv
<1>8. ASSUME NEW at, PumpReturns(v, at)
      PROVE  TypeInv'
  <2>1. PumpType'
    BY <1>8 DEF PumpReturns, Pump, TypeInv, PumpType
  <2> QED
    BY <1>2, <1>8, <2>1, UnchangedTyped DEF PumpReturns, TypeInv
<1>9. CASE BrowserLeaves(v)
  BY <1>2, <1>9, UnchangedTyped DEF BrowserLeaves, TypeInv, PumpType
<1> QED
  BY <1>3, <1>4, <1>5, <1>6, <1>7, <1>8, <1>9 DEF WritePump, WriteFails, HubClosed

LEMMA StepTyped == TypeInv /\ [Next]_vars => TypeInv'
<1> SUFFICES ASSUME TypeInv, [Next]_vars PROVE TypeInv'
  OBVIOUS
<1>1. CASE \/ \E p \in Handler : Broadcast(p)
           \/ \E ch \in RedisChannel : Publish(ch)
           \/ \E c \in Consumer : Consume(c)
  BY <1>1, SourcesTyped, UnchangedTyped, ClientsUnchanged DEF TypeInv
<1>2. CASE Run
  BY <1>2, RegisterTyped, TakeFromTyped, SendTyped DEF Run
<1>3. ASSUME NEW v \in Viewer, ServeWs(v) \/ WritePump(v) \/ BrowserLeaves(v)
      PROVE  TypeInv'
  BY <1>3, ViewerTyped
<1>4. CASE UNCHANGED vars
  BY <1>4, UnchangedTyped, ClientsUnchanged DEF TypeInv, vars
<1> QED
  BY <1>1, <1>2, <1>3, <1>4 DEF Next

LEMMA TypeInvariant == HubSpec => []TypeInv
BY InitTyped, StepTyped, PTL DEF HubSpec

\* Every variable keeps its type, and no client's channel holds more than its
\* capacity, although Hub.Run and the writers share it.
THEOREM HubTypeCorrect == HubSpec => []HubTypeOK
BY TypeInvariant, TypeInvIsType, PTL

-----------------------------------------------------------------------------
(***************************************************************************)
(* The hub's clients and their channels.                                   *)
(***************************************************************************)
NotYet(v) == pump[v] \in {"none", "registering"}

\* Hub.Run has not seen a browser that is not registered yet.
ClientsOpen ==
    /\ NoSendOnClosed
    /\ \A v \in Viewer : NotYet(v) => v \notin clients \cup closed

LEMMA ClientsOpenStep == TypeInv /\ ClientsOpen /\ [Next]_vars => ClientsOpen'
<1> SUFFICES ASSUME TypeInv, ClientsOpen, [Next]_vars
             PROVE  ClientsOpen'
  OBVIOUS
<1> USE DEF ClientsOpen, NoSendOnClosed, NotYet
<1>1. ASSUME UNCHANGED <<clients, closed, pump>>
      PROVE  ClientsOpen'
  BY <1>1
<1>2. CASE \/ \E p \in Handler : Broadcast(p)
           \/ \E ch \in RedisChannel : Publish(ch)
           \/ \E c \in Consumer : Consume(c)
  BY <1>1, <1>2, SourcesTyped DEF TypeInv, hubVars, clientVars
<1>3. ASSUME NEW v \in Viewer, RegisterClient(v)
      PROVE  ClientsOpen'
  BY <1>3 DEF RegisterClient, TypeInv, PumpType
<1>4. ASSUME NEW s \in Handler \cup HubConsumer, TakeFrom(s)
      PROVE  ClientsOpen'
  BY <1>1, <1>4 DEF TakeFrom, Take, clientVars
<1>5. ASSUME NEW v \in Viewer, Send(v)
      PROVE  ClientsOpen'
  <2>1. v \in clients /\ pump' = pump
    BY <1>5 DEF Send, SendTo, TypeInv, RunType
  <2> QED
    BY <1>5, <2>1 DEF Send
<1>6. ASSUME NEW v \in Viewer, ServeWs(v) \/ WritePump(v) \/ BrowserLeaves(v)
      PROVE  ClientsOpen'
  <2>1. UNCHANGED <<clients, closed>>
    BY <1>6 DEF ServeWs, WritePump, BrowserLeaves, TakeFirst, CountRest, TakeNext, Flush,
                WriteFails, HubClosed, PumpReturns, Pump, hubVars
  <2>2. \A w \in Viewer : NotYet(w)' => NotYet(w)
    BY <1>6 DEF ServeWs, WritePump, BrowserLeaves, TakeFirst, CountRest, TakeNext, Flush,
                WriteFails, HubClosed, PumpReturns, Pump, TypeInv, PumpType
  <2> QED
    BY <2>1, <2>2
<1>7. CASE UNCHANGED vars
  BY <1>1, <1>7 DEF vars, hubVars, clientVars
<1> QED
  BY <1>2, <1>3, <1>4, <1>5, <1>6, <1>7 DEF Next, Run

\* Whatever browsers come, lag and leave while it broadcasts, the hub never
\* sends on a channel that it has closed, and closes none twice.
THEOREM NeverSendsOnClosed == HubSpec => []NoSendOnClosed
<1>1. Init => ClientsOpen
  BY DEF Init, ClientsOpen, NoSendOnClosed
<1> QED
  BY <1>1, TypeInvariant, ClientsOpenStep, PTL DEF HubSpec, ClientsOpen

\* The writer never waits in the middle of a message, nor writes an empty one:
\* nobody else takes from its channel, and the hub only adds.
THEOREM NeverEmptyEvent == HubSpec => []NoEmptyEvent
<1>1. Init => NoEmptyEvent
  BY DEF Init, NoEmptyEvent
<1>2. TypeInv /\ NoEmptyEvent /\ [Next]_vars => NoEmptyEvent'
  <2> SUFFICES ASSUME TypeInv, NoEmptyEvent, [Next]_vars, NEW v \in Viewer, pump'[v] = "batch"
               PROVE  Len(buf'[v]) >= left'[v]
    BY DEF NoEmptyEvent
  <2> USE DEF NoEmptyEvent, TypeInv
  <2>1. buf[v] \in Seq(Event) /\ left[v] \in Nat
    BY DEF BufferType, PumpType
  <2>2. ASSUME UNCHANGED <<buf, pump, left>>
        PROVE  Len(buf'[v]) >= left'[v]
    BY <2>2
  <2>3. CASE \/ \E p \in Handler : Broadcast(p)
             \/ \E ch \in RedisChannel : Publish(ch)
             \/ \E c \in Consumer : Consume(c)
    BY <2>2, <2>3, SourcesTyped DEF clientVars
  <2>4. ASSUME NEW w \in Viewer, RegisterClient(w)
        PROVE  Len(buf'[v]) >= left'[v]
    BY <2>4 DEF RegisterClient, PumpType
  <2>5. ASSUME NEW s \in Handler \cup HubConsumer, TakeFrom(s)
        PROVE  Len(buf'[v]) >= left'[v]
    BY <2>2, <2>5 DEF TakeFrom, Take, clientVars
  <2>6. ASSUME NEW w \in Viewer, Send(w)
        PROVE  Len(buf'[v]) >= left'[v]
    <3>1. UNCHANGED <<pump, left>>
      BY <2>6 DEF Send, SendTo
    <3>2. Len(buf'[v]) >= Len(buf[v])
      BY <2>1, <2>6 DEF Send, BufferType
    <3> QED
      BY <2>1, <3>1, <3>2
  <2>7. ASSUME NEW w \in Viewer, ServeWs(w) \/ WritePump(w) \/ BrowserLeaves(w)
        PROVE  Len(buf'[v]) >= left'[v]
    <3>1. CASE w # v
      BY <2>7, <3>1 DEF ServeWs, WritePump, BrowserLeaves, TakeFirst, CountRest, TakeNext,
         Flush, WriteFails, HubClosed, PumpReturns, Pump, PumpType, BufferType
    <3>2. CASE w = v /\ TakeNext(v)
      <4>1. Len(Tail(buf[v])) = Len(buf[v]) - 1
        BY <2>1, <3>2, HeadTail DEF TakeNext
      <4> QED
        BY <2>1, <3>2, <4>1 DEF TakeNext, Pump, PumpType, BufferType
    <3>3. CASE w = v /\ CountRest(v)
      BY <2>1, <3>3 DEF CountRest, PumpType
    <3>4. CASE w = v /\ BrowserLeaves(v)
      BY <2>2, <3>4 DEF BrowserLeaves
    <3>5. CASE w = v /\ ~TakeNext(v) /\ ~CountRest(v) /\ ~BrowserLeaves(v)
      BY <2>7, <3>5 DEF ServeWs, WritePump, TakeFirst, Flush, WriteFails, HubClosed,
         PumpReturns, Pump, PumpType
    <3> QED
      BY <2>7, <3>1, <3>2, <3>3, <3>4, <3>5
  <2>8. CASE UNCHANGED vars
    BY <2>2, <2>8 DEF vars, clientVars
  <2> QED
    BY <2>3, <2>4, <2>5, <2>6, <2>7, <2>8 DEF Next, Run
<1> QED
  BY <1>1, <1>2, TypeInvariant, PTL DEF HubSpec
=============================================================================
