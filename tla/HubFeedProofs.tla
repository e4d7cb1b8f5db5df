---------------------------- MODULE HubFeedProofs ----------------------------
(***************************************************************************)
(* Events stay in order: a consumer passes them on as they were published, *)
(* and the hub shows every browser a feed without gaps (Hub implements     *)
(* Feed), for any number of browsers, handlers and consumers and any sizes *)
(* of the buffers.                                                         *)
(***************************************************************************)
EXTENDS HubProofs

-----------------------------------------------------------------------------
(***************************************************************************)
(* Part(s, n, f): sequence s is what comes in f after its first n members. *)
(***************************************************************************)
Part(s, n, f) ==
    /\ n + Len(s) <= Len(f)
    /\ \A k \in 1 .. Len(s) : s[k] = f[n + k]

LEMMA PartOfLonger ==
    ASSUME NEW S, NEW s \in Seq(S), NEW f \in Seq(S), NEW n \in Nat, NEW e \in S,
           Part(s, n, f)
    PROVE  Part(s, n, Append(f, e))
BY DEF Part

LEMMA PartTail ==
    ASSUME NEW S, NEW s \in Seq(S), NEW f \in Seq(S), NEW n \in Nat,
           Part(s, n, f), s # <<>>
    PROVE  /\ Part(Tail(s), n + 1, f) /\ Len(Tail(s)) = Len(s) - 1
           /\ Part(<<Head(s)>>, n, f)
<1>1. Tail(s) \in Seq(S) /\ Len(Tail(s)) = Len(s) - 1 /\ Len(s) > 0
  OBVIOUS
<1>2. \A k \in 1 .. Len(s) - 1 : Tail(s)[k] = s[k + 1]
  BY <1>1
<1>3. Part(Tail(s), n + 1, f)
  BY <1>1, <1>2 DEF Part
<1>4. Head(s) = f[n + 1]
  BY <1>1 DEF Part
<1>5. Len(<<Head(s)>>) = 1 /\ <<Head(s)>>[1] = Head(s)
  OBVIOUS
<1> QED
  BY <1>1, <1>3, <1>4, <1>5 DEF Part

LEMMA PartAppend ==
    ASSUME NEW S, NEW s \in Seq(S), NEW f \in Seq(S), NEW n \in Nat, NEW e \in S,
           Part(s, n, f), Part(<<e>>, n + Len(s), f)
    PROVE  Part(Append(s, e), n, f)
<1>1. Len(<<e>>) = 1 /\ <<e>>[1] = e
  OBVIOUS
<1>2. n + Len(s) + 1 <= Len(f) /\ e = f[n + Len(s) + 1]
  BY <1>1 DEF Part
<1> QED
  BY <1>2 DEF Part

LEMMA PartConcat ==
    ASSUME NEW S, NEW s \in Seq(S), NEW t \in Seq(S), NEW f \in Seq(S), NEW n \in Nat,
           Part(s, n, f), Part(t, n + Len(s), f)
    PROVE  Part(s \o t, n, f)
<1>1. s \o t \in Seq(S) /\ Len(s \o t) = Len(s) + Len(t)
  OBVIOUS
<1>2. ASSUME NEW k \in 1 .. Len(s) + Len(t)
      PROVE  (s \o t)[k] = f[n + k]
  <2>1. CASE k <= Len(s)
    BY <2>1 DEF Part
  <2>2. CASE k > Len(s)
    <3>1. k - Len(s) \in 1 .. Len(t) /\ (s \o t)[k] = t[k - Len(s)]
      BY <2>2
    <3>2. n + Len(s) + (k - Len(s)) = n + k
      OBVIOUS
    <3> QED
      BY <3>1, <3>2 DEF Part
  <2> QED
    BY <2>1, <2>2
<1> QED
  BY <1>1, <1>2 DEF Part

LEMMA PartIsSubSeq ==
    ASSUME NEW S, NEW s \in Seq(S), NEW f \in Seq(S), NEW n \in Nat, Part(s, n, f)
    PROVE  s = SubSeq(f, n + 1, n + Len(s))
<1> DEFINE t == SubSeq(f, n + 1, n + Len(s))
<1>1. t \in Seq(S) /\ Len(t) = Len(s)
  BY DEF Part
<1>2. \A k \in 1 .. Len(s) : t[k] = s[k]
  BY <1>1 DEF Part
<1> QED
  BY <1>1, <1>2

-----------------------------------------------------------------------------
(***************************************************************************)
(* The hub.  What a browser was shown, what its writer has in a message    *)
(* and what its channel holds follow one another in the feed, and reach    *)
(* its end but for the event that is being sent.                           *)
(***************************************************************************)
InMessage(v) == from[v] + Len(got[v])
InChannel(v) == InMessage(v) + Len(batch[v])
Reached(v) == InChannel(v) + Len(buf[v])

Contiguous(v) ==
    /\ Part(got[v], from[v], feed)
    /\ Part(batch[v], InMessage(v), feed)
    /\ Part(buf[v], InChannel(v), feed)

SendingLast == todo # {} => Part(<<sending>>, Len(feed) - 1, feed) /\ Len(feed) > 0

Current(v) ==
    v \in clients => Reached(v) = IF v \in todo THEN Len(feed) - 1 ELSE Len(feed)

Blank(v) == got[v] = <<>> /\ batch[v] = <<>> /\ buf[v] = <<>>

\* Of a browser that has left nothing more is said: it is shown no more.
ViewerInv(v) ==
    /\ NotYet(v) => Blank(v)
    /\ v \in peer /\ ~NotYet(v) => Contiguous(v) /\ Current(v)
    /\ pump[v] = "idle" => batch[v] = <<>>
    /\ pump[v] \in {"first", "batch"} => batch[v] # <<>>

FeedInv == SendingLast /\ \A v \in Viewer : ViewerInv(v)

LEMMA FeedInvInit == Init => FeedInv
BY DEF Init, FeedInv, SendingLast, ViewerInv, NotYet, Blank

ShowVars == <<feed, from, got, pump>>

\* A step that leaves all of this alone.
LEMMA FeedInvUnchanged ==
    ASSUME FeedInv, UNCHANGED <<hubVars, clientVars>>
    PROVE  FeedInv' /\ UNCHANGED ShowVars
BY DEF FeedInv, SendingLast, ViewerInv, NotYet, Blank, Contiguous, Current, Reached,
   InChannel, InMessage, Part, hubVars, clientVars, ShowVars

\* A viewer of which nothing changes.
LEMMA OtherViewer ==
    ASSUME NEW v, ViewerInv(v), UNCHANGED <<feed, v \in clients, v \in todo>>,
           UNCHANGED <<from[v], got[v], batch[v], buf[v], pump[v]>>,
           v \in peer' => v \in peer
    PROVE  ViewerInv(v)'
BY DEF ViewerInv, NotYet, Blank, Contiguous, Current, Reached, InChannel, InMessage, Part

\* The types of what a viewer's part of the invariant is about.
LEMMA ViewerTypes ==
    ASSUME TypeInv, NEW v \in Viewer
    PROVE  /\ feed \in Seq(Event) /\ from[v] \in Nat
           /\ got[v] \in Seq(Event) /\ batch[v] \in Seq(Event) /\ buf[v] \in Seq(Event)
           /\ InMessage(v) \in Nat /\ InChannel(v) \in Nat /\ Reached(v) \in Nat
BY DEF TypeInv, RunType, BufferType, PumpType, InMessage, InChannel, Reached

LEMMA RegisterKeepsFeed ==
    ASSUME TypeInv, FeedInv, NEW v \in Viewer, RegisterClient(v)
    PROVE  FeedInv' /\ [ShownFeed!FeedNext]_<<feed, View, from, got>>
<1>1. /\ UNCHANGED <<feed, todo, sending, buf, batch, peer, got>>
      /\ clients' = clients \cup {v} /\ todo = {}
      /\ from' = [from EXCEPT ![v] = Len(feed)] /\ pump' = [pump EXCEPT ![v] = "idle"]
      /\ pump[v] = "registering"
  BY DEF RegisterClient, Selecting
<1>2. /\ from \in [Viewer -> Nat]
      /\ pump \in [Viewer -> {"none", "registering", "idle", "first", "batch", "end"}]
  BY DEF TypeInv, RunType, PumpType
<1>3. ASSUME NEW w \in Viewer
      PROVE  ViewerInv(w)'
  <2>1. CASE w # v
    BY <1>1, <1>2, <2>1, OtherViewer DEF FeedInv
  <2>2. CASE w = v
    <3>1. Blank(v) /\ feed \in Seq(Event)
      BY <1>1, ViewerTypes DEF FeedInv, ViewerInv, NotYet
    <3>2. Len(<<>>) = 0
      OBVIOUS
    <3>3. Contiguous(v)' /\ Reached(v)' = Len(feed)
      BY <1>1, <1>2, <3>1, <3>2 DEF Blank, Contiguous, Part, InMessage, InChannel, Reached
    <3> QED
      BY <1>1, <1>2, <2>2, <3>1, <3>3 DEF ViewerInv, NotYet, Current, Blank
  <2> QED
    BY <2>1, <2>2
<1>4. FeedInv'
  BY <1>1, <1>3 DEF FeedInv, SendingLast
<1>5. View' = [View EXCEPT ![v] = "in"] /\ View[v] = "none"
  BY <1>1, <1>2 DEF View
<1>6. ShownFeed!Join(v)
  BY <1>1, <1>5 DEF ShownFeed!Join
<1> QED
  BY <1>4, <1>6 DEF ShownFeed!FeedNext

LEMMA TakeKeepsFeed ==
    ASSUME TypeInv, FeedInv, NEW s \in Handler \cup HubConsumer, TakeFrom(s)
    PROVE  FeedInv' /\ [ShownFeed!FeedNext]_<<feed, View, from, got>>
<1> DEFINE e == offer[s]
<1>1. e \in Event
  BY DEF TakeFrom, TypeInv, SourcesType, Event, Consumer
<1>2. /\ UNCHANGED <<clients, from, buf, pump, batch, peer, got>>
      /\ todo = {} /\ todo' = clients /\ sending' = e /\ feed' = Append(feed, e)
  BY DEF TakeFrom, Take, Selecting, clientVars
<1>3. feed \in Seq(Event) /\ feed' \in Seq(Event) /\ Len(feed') = Len(feed) + 1
      /\ feed'[Len(feed')] = e
  <2> HIDE DEF e
  <2>1. feed \in Seq(Event)
    BY DEF TypeInv, RunType
  <2> QED
    BY <1>1, <1>2, <2>1
<1>4. SendingLast'
  <2> HIDE DEF e
  <2>1. Len(<<e>>) = 1 /\ <<e>>[1] = e
    OBVIOUS
  <2>2. Part(<<e>>, Len(feed') - 1, feed')
    BY <1>3, <2>1 DEF Part
  <2> QED
    BY <1>2, <1>3, <2>2 DEF SendingLast
<1>5. ASSUME NEW w \in Viewer
      PROVE  ViewerInv(w)'
  <2> HIDE DEF e
  <2>1. Contiguous(w) => Contiguous(w)'
    BY <1>1, <1>2, <1>3, ViewerTypes, PartOfLonger DEF Contiguous, InMessage, InChannel
  <2>2. Current(w) => Current(w)'
    <3>1. UNCHANGED Reached(w)
      BY <1>2 DEF Reached, InMessage, InChannel
    <3> QED
      BY <1>2, <1>3, <3>1, ViewerTypes DEF Current
  <2> QED
    BY <1>2, <2>1, <2>2 DEF FeedInv, ViewerInv, NotYet, Blank
<1>6. ShownFeed!Announce(e)
  BY <1>2 DEF ShownFeed!Announce, View
<1> QED
  BY <1>1, <1>4, <1>5, <1>6 DEF FeedInv, ShownFeed!FeedNext

LEMMA SendKeepsFeed ==
    ASSUME TypeInv, ClientsOpen, FeedInv, NEW v \in Viewer, Send(v)
    PROVE  FeedInv' /\ UNCHANGED <<feed, View, from, got>>
<1>1. /\ UNCHANGED <<sending, feed, from, pump, batch, peer, got>>
      /\ v \in todo /\ todo' = todo \ {v} /\ clients \ {v} \subseteq clients'
      /\ clients' \subseteq clients /\ todo # {}
  BY DEF Send, SendTo
<1>2. v \in clients /\ ~NotYet(v) /\ sending \in Event
  BY <1>1 DEF TypeInv, RunType, ClientsOpen
<1>3. buf \in [Viewer -> Seq(Event)]
  BY DEF TypeInv, BufferType
<1>4. buf' = buf \/ buf' = [buf EXCEPT ![v] = Append(buf[v], sending)]
  BY DEF Send
<1>5. ASSUME NEW w \in Viewer
      PROVE  ViewerInv(w)'
  <2>1. CASE w # v
    <3>1. buf'[w] = buf[w]
      BY <1>3, <1>4, <2>1
    <3> QED
      BY <1>1, <2>1, <3>1, OtherViewer DEF FeedInv
  <2>2. CASE w = v /\ ~(Len(buf[v]) < ClientBuffer)
    <3>1. v \notin clients' /\ buf' = buf
      BY <2>2 DEF Send
    <3> QED
      BY <1>1, <1>2, <2>2, <3>1 DEF FeedInv, ViewerInv, NotYet, Blank, Contiguous, Part,
         InMessage, InChannel, Current
  <2>3. CASE w = v /\ Len(buf[v]) < ClientBuffer
    <3>1. buf' = [buf EXCEPT ![v] = Append(buf[v], sending)] /\ UNCHANGED clients
      BY <2>3 DEF Send
    <3>2. buf'[v] = Append(buf[v], sending)
      BY <1>3, <3>1
    <3>3. ASSUME v \in peer
          PROVE  Contiguous(v)' /\ Current(v)'
      <4>1. Contiguous(v) /\ Reached(v) = Len(feed) - 1
        BY <1>1, <1>2, <3>3 DEF FeedInv, ViewerInv, Current
      <4>2. Part(<<sending>>, InChannel(v) + Len(buf[v]), feed)
        BY <1>1, <4>1 DEF FeedInv, SendingLast, Reached
      <4>3. Part(buf'[v], InChannel(v), feed)
        BY <1>2, <3>2, <4>1, <4>2, ViewerTypes, PartAppend DEF Contiguous
      <4>4. Contiguous(v)'
        BY <1>1, <4>1, <4>3 DEF Contiguous, InMessage, InChannel
      <4>5. Len(buf'[v]) = Len(buf[v]) + 1
        BY <3>2, ViewerTypes
      <4>6. Reached(v)' = Reached(v) + 1
        BY <1>1, <4>5, ViewerTypes DEF Reached, InMessage, InChannel
      <4>7. Len(feed) \in Nat
        BY ViewerTypes
      <4> QED
        BY <1>1, <4>1, <4>4, <4>6, <4>7 DEF Current
    <3> QED
      BY <1>1, <1>2, <2>3, <3>3 DEF FeedInv, ViewerInv, NotYet
  <2> QED
    BY <2>1, <2>2, <2>3
<1>6. SendingLast'
  BY <1>1 DEF FeedInv, SendingLast
<1> QED
  BY <1>1, <1>5, <1>6 DEF FeedInv, View

\* A writer's step disturbs what is said of its own browser only.
LEMMA WriterAlone ==
    ASSUME TypeInv, FeedInv, NEW v \in Viewer, ViewerInv(v)', UNCHANGED hubVars,
           ServeWs(v) \/ WritePump(v) \/ BrowserLeaves(v)
    PROVE  FeedInv'
<1>1. ASSUME NEW w \in Viewer, w # v
      PROVE  UNCHANGED <<got[w], batch[w], buf[w], pump[w]>> /\ (w \in peer' => w \in peer)
  BY <1>1 DEF ServeWs, WritePump, BrowserLeaves, TakeFirst, CountRest, TakeNext, Flush,
     WriteFails, HubClosed, PumpReturns, Pump, TypeInv, BufferType, PumpType
<1>2. ASSUME NEW w \in Viewer, w # v
      PROVE  ViewerInv(w)'
  BY <1>1, <1>2, OtherViewer DEF FeedInv, hubVars
<1>3. SendingLast'
  BY DEF FeedInv, SendingLast, hubVars
<1> QED
  BY <1>2, <1>3 DEF FeedInv

\* The writer moves the first event of its channel to the end of its message.
LEMMA MovedToMessage ==
    ASSUME TypeInv, NEW v \in Viewer, Contiguous(v), Current(v), UNCHANGED <<hubVars, got>>,
           buf[v] # <<>>, buf'[v] = Tail(buf[v]), batch'[v] = Append(batch[v], Head(buf[v]))
    PROVE  Contiguous(v)' /\ Current(v)'
<1>1. /\ buf[v] \in Seq(Event) /\ batch[v] \in Seq(Event) /\ feed \in Seq(Event)
      /\ InMessage(v) \in Nat /\ InChannel(v) \in Nat /\ Head(buf[v]) \in Event
  BY ViewerTypes, HeadTail
<1>2. /\ Part(Tail(buf[v]), InChannel(v) + 1, feed) /\ Len(Tail(buf[v])) = Len(buf[v]) - 1
      /\ Part(<<Head(buf[v])>>, InChannel(v), feed)
  BY <1>1, PartTail DEF Contiguous
<1>3. Part(batch'[v], InMessage(v), feed)
  BY <1>1, <1>2, PartAppend DEF Contiguous, InChannel
<1>4. Len(batch'[v]) = Len(batch[v]) + 1
  BY <1>1
<1>5. UNCHANGED <<InMessage(v), feed, clients, todo, from>>
  BY DEF InMessage, hubVars
<1>6. InChannel(v)' = InChannel(v) + 1
  BY <1>1, <1>4, <1>5 DEF InChannel
<1>7. Reached(v)' = Reached(v)
  BY <1>1, <1>2, <1>6 DEF Reached
<1> QED
  BY <1>2, <1>3, <1>5, <1>6, <1>7 DEF Contiguous, Current

LEMMA FlushKeepsFeed ==
    ASSUME TypeInv, FeedInv, NEW v \in Viewer, Flush(v)
    PROVE  ViewerInv(v)' /\ [ShownFeed!FeedNext]_<<feed, View, from, got>>
<1>1. /\ UNCHANGED <<buf, peer, feed, from, clients, todo>>
      /\ pump[v] = "batch" /\ pump' = [pump EXCEPT ![v] = "idle"]
      /\ batch' = [batch EXCEPT ![v] = <<>>]
      /\ got' = IF v \in peer THEN [got EXCEPT ![v] = got[v] \o batch[v]] ELSE got
  BY DEF Flush, Pump, hubVars
<1>2. /\ batch \in [Viewer -> Seq(Event)] /\ got \in [Viewer -> Seq(Event)]
      /\ pump \in [Viewer -> {"none", "registering", "idle", "first", "batch", "end"}]
  BY DEF TypeInv, PumpType
<1>3. batch'[v] = <<>> /\ pump'[v] = "idle" /\ batch[v] # <<>>
  BY <1>1, <1>2 DEF FeedInv, ViewerInv
<1>4. UNCHANGED View
  BY <1>1, <1>2 DEF View
<1>5. CASE v \notin peer
  BY <1>1, <1>3, <1>4, <1>5 DEF ViewerInv, NotYet
<1>6. CASE v \in peer
  <2>1. Contiguous(v) /\ Current(v)
    BY <1>1, <1>6 DEF FeedInv, ViewerInv, NotYet
  <2>2. /\ got[v] \in Seq(Event) /\ batch[v] \in Seq(Event) /\ from[v] \in Nat
        /\ feed \in Seq(Event) /\ InMessage(v) \in Nat /\ InChannel(v) \in Nat
    BY ViewerTypes
  <2>3. got'[v] = got[v] \o batch[v]
    BY <1>1, <1>2, <1>6
  <2>4. got'[v] \in Seq(Event) /\ Len(got'[v]) = Len(got[v]) + Len(batch[v])
    <3>1. /\ got[v] \o batch[v] \in Seq(Event)
          /\ Len(got[v] \o batch[v]) = Len(got[v]) + Len(batch[v])
      BY <2>2
    <3> QED
      BY <2>3, <3>1, Zenon
  <2>5. Part(got'[v], from[v], feed)
    BY <2>1, <2>2, <2>3, PartConcat DEF Contiguous, InMessage
  <2>6. InMessage(v)' = InChannel(v)
    <3>1. from[v] \in Nat /\ Len(got[v]) \in Nat /\ Len(batch[v]) \in Nat
      BY <2>2
    <3>2. from[v] + Len(got'[v]) = from[v] + (Len(got[v]) + Len(batch[v]))
      BY <2>4, Zenon
    <3>3. \A k, m, n \in Nat : k + (m + n) = (k + m) + n
      OBVIOUS
    <3>4. from[v] + (Len(got[v]) + Len(batch[v])) = (from[v] + Len(got[v])) + Len(batch[v])
      BY <3>1, <3>3, Zenon
    <3> QED
      BY <1>1, <3>2, <3>4, Zenon DEF InMessage, InChannel
  <2>7. InChannel(v)' = InChannel(v)
    <3>1. Len(<<>>) = 0
      OBVIOUS
    <3> QED
      BY <1>3, <2>2, <2>6, <3>1 DEF InChannel
  <2>8. Part(batch'[v], InChannel(v), feed)
    BY <1>3, <2>1, <2>2 DEF Contiguous, Part, InChannel
  <2>9. Contiguous(v)'
    BY <1>1, <2>1, <2>5, <2>6, <2>7, <2>8 DEF Contiguous
  <2>10. Current(v)'
    BY <1>1, <2>1, <2>7 DEF Current, Reached
  <2>11. ViewerInv(v)'
    BY <1>3, <2>9, <2>10 DEF ViewerInv, NotYet
  <2>12. got'[v] = SubSeq(feed, from[v] + 1, InChannel(v))
    <3>1. from[v] + Len(got'[v]) = InChannel(v)
      BY <1>1, <2>6 DEF InMessage
    <3> QED
      BY <2>2, <2>4, <2>5, <3>1, PartIsSubSeq
  <2>13. InChannel(v) \in from[v] + Len(got[v]) + 1 .. Len(feed)
    <3>1. Len(batch[v]) > 0
      BY <1>3, <2>2
    <3> QED
      BY <2>1, <2>2, <3>1 DEF Contiguous, Part, InChannel, InMessage
  <2>14. View[v] = "in"
    BY <1>1 DEF View
  <2>15. got' = [got EXCEPT ![v] = SubSeq(feed, from[v] + 1, InChannel(v))]
    BY <1>1, <1>6, <2>3, <2>12
  <2>16. ShownFeed!Show(v)
    BY <1>1, <1>4, <2>13, <2>14, <2>15 DEF ShownFeed!Show
  <2> QED
    BY <2>11, <2>16 DEF ShownFeed!FeedNext
<1> QED
  BY <1>5, <1>6

LEMMA ReturnKeepsFeed ==
    ASSUME TypeInv, FeedInv, NEW v \in Viewer, NEW at \in {"idle", "first", "batch"},
           PumpReturns(v, at)
    PROVE  ViewerInv(v)' /\ ShownFeed!Leave(v)
<1>1. /\ pump[v] = at /\ pump' = [pump EXCEPT ![v] = "end"] /\ peer' = peer \ {v}
      /\ UNCHANGED <<feed, from, got>>
  BY DEF PumpReturns, Pump, hubVars
<1>2. pump \in [Viewer -> {"none", "registering", "idle", "first", "batch", "end"}]
  BY DEF TypeInv, PumpType
<1>3. ViewerInv(v)'
  BY <1>1, <1>2 DEF ViewerInv, NotYet
<1>4. View[v] = "in" /\ View' = [View EXCEPT ![v] = "out"]
  BY <1>1, <1>2 DEF View
<1> QED
  BY <1>1, <1>3, <1>4 DEF ShownFeed!Leave

LEMMA AppendNotEmpty ==
    ASSUME NEW S, NEW q \in Seq(S), NEW e \in S
    PROVE  Append(q, e) # <<>>
<1>1. Len(Append(q, e)) = Len(q) + 1 /\ Len(q) \in Nat
  OBVIOUS
<1>2. Len(<<>>) = 0
  OBVIOUS
<1> QED
  BY <1>1, <1>2

LEMMA WriterKeepsFeed ==
    ASSUME TypeInv, FeedInv, NEW v \in Viewer, ServeWs(v) \/ WritePump(v) \/ BrowserLeaves(v)
    PROVE  FeedInv' /\ [ShownFeed!FeedNext]_<<feed, View, from, got>>
<1> DEFINE Kept == UNCHANGED <<feed, View, from, got>>
<1>1. /\ UNCHANGED hubVars /\ ViewerInv(v)
      /\ pump \in [Viewer -> {"none", "registering", "idle", "first", "batch", "end"}]
      /\ batch \in [Viewer -> Seq(Event)] /\ buf \in [Viewer -> Seq(Event)]
  BY DEF ServeWs, WritePump, BrowserLeaves, TakeFirst, CountRest, TakeNext, Flush, WriteFails,
     HubClosed, PumpReturns, Pump, TypeInv, PumpType, BufferType, FeedInv
<1>2. SUFFICES ViewerInv(v)' /\ [ShownFeed!FeedNext]_<<feed, View, from, got>>
  BY <1>1, WriterAlone
<1>3. CASE ServeWs(v)
  <2>1. /\ pump[v] = "none" /\ pump' = [pump EXCEPT ![v] = "registering"]
        /\ UNCHANGED <<buf, batch, peer, got>>
    BY <1>3 DEF ServeWs, Pump
  <2>2. Kept
    BY <1>1, <2>1 DEF View, hubVars
  <2>3. ViewerInv(v)'
    BY <1>1, <2>1 DEF ViewerInv, NotYet, Blank
  <2> QED
    BY <2>2, <2>3
<1>4. CASE BrowserLeaves(v)
  <2>1. peer' = peer \ {v} /\ UNCHANGED <<buf, batch, pump, got>>
    BY <1>4 DEF BrowserLeaves
  <2>2. Kept
    BY <1>1, <2>1 DEF View, hubVars
  <2>3. ViewerInv(v)'
    BY <1>1, <2>1 DEF ViewerInv, NotYet, Blank
  <2> QED
    BY <2>2, <2>3
<1>5. CASE CountRest(v)
  <2>1. /\ pump[v] = "first" /\ pump' = [pump EXCEPT ![v] = "batch"]
        /\ UNCHANGED <<buf, batch, peer, got>>
    BY <1>5 DEF CountRest, Pump
  <2>2. Kept
    BY <1>1, <2>1 DEF View, hubVars
  <2>3. (Contiguous(v) <=> Contiguous(v)') /\ (Current(v) <=> Current(v)')
    BY <1>1, <2>1 DEF Contiguous, Current, Part, InMessage, InChannel, Reached, hubVars
  <2>4. ViewerInv(v)'
    BY <1>1, <2>1, <2>3 DEF ViewerInv, NotYet
  <2> QED
    BY <2>2, <2>4
<1>6. CASE TakeFirst(v) \/ TakeNext(v)
  <2>1. /\ pump[v] \in {"idle", "batch"} /\ pump'[v] \in {"first", "batch"}
        /\ UNCHANGED <<View, peer, got>> /\ buf[v] # <<>>
    BY <1>1, <1>6 DEF TakeFirst, TakeNext, Pump, View
  <2>2. buf'[v] = Tail(buf[v])
    BY <1>1, <1>6 DEF TakeFirst, TakeNext
  <2>3. batch'[v] = Append(batch[v], Head(buf[v]))
    <3>1. CASE TakeFirst(v)
      <4>1. batch[v] = <<>>
        BY <1>1, <3>1 DEF TakeFirst, Pump, ViewerInv
      <4>2. Append(<<>>, Head(buf[v])) = <<Head(buf[v])>>
        OBVIOUS
      <4>3. batch'[v] = <<Head(buf[v])>>
        BY <1>1, <3>1 DEF TakeFirst
      <4> QED
        BY <4>1, <4>2, <4>3, Zenon
    <3>2. CASE TakeNext(v)
      BY <1>1, <3>2 DEF TakeNext
    <3> QED
      BY <1>6, <3>1, <3>2
  <2>4. batch'[v] # <<>>
    <3>1. Head(buf[v]) \in Event
      BY <1>1, <2>1, HeadTail
    <3>2. Append(batch[v], Head(buf[v])) # <<>>
      BY <1>1, <3>1, AppendNotEmpty
    <3> QED
      BY <2>3, <3>2, Zenon
  <2>5. ASSUME v \in peer
        PROVE  Contiguous(v)' /\ Current(v)'
    <3>1. Contiguous(v) /\ Current(v)
      BY <1>1, <2>1, <2>5 DEF ViewerInv, NotYet
    <3> QED
      BY <1>1, <2>1, <2>2, <2>3, <3>1, MovedToMessage
  <2>6. ViewerInv(v)'
    BY <2>1, <2>4, <2>5 DEF ViewerInv, NotYet
  <2> QED
    BY <1>1, <2>1, <2>6 DEF hubVars
<1>7. CASE Flush(v)
  BY <1>7, FlushKeepsFeed
<1>8. ASSUME NEW at \in {"idle", "first", "batch"}, PumpReturns(v, at)
      PROVE  ViewerInv(v)' /\ [ShownFeed!FeedNext]_<<feed, View, from, got>>
  BY <1>8, ReturnKeepsFeed DEF ShownFeed!FeedNext
<1> QED
  BY <1>3, <1>4, <1>5, <1>6, <1>7, <1>8 DEF WritePump, WriteFails, HubClosed

\* Every step of the hub, of a writer and of those who broadcast is a step of
\* the feed or leaves it as it is.
LEMMA StepKeepsFeed ==
    TypeInv /\ ClientsOpen /\ FeedInv /\ [Next]_vars =>
        FeedInv' /\ [ShownFeed!FeedNext]_<<feed, View, from, got>>
<1> SUFFICES ASSUME TypeInv, ClientsOpen, FeedInv, [Next]_vars
             PROVE  FeedInv' /\ [ShownFeed!FeedNext]_<<feed, View, from, got>>
  OBVIOUS
<1>1. ASSUME UNCHANGED <<hubVars, clientVars>>
      PROVE  FeedInv' /\ [ShownFeed!FeedNext]_<<feed, View, from, got>>
  BY <1>1, FeedInvUnchanged DEF ShowVars, View
<1>2. CASE \/ \E p \in Handler : Broadcast(p)
           \/ \E ch \in RedisChannel : Publish(ch)
           \/ \E c \in Consumer : Consume(c)
  BY <1>1, <1>2, SourcesTyped DEF TypeInv
<1>3. CASE Run
  BY <1>3, RegisterKeepsFeed, TakeKeepsFeed, SendKeepsFeed DEF Run
<1>4. ASSUME NEW v \in Viewer, ServeWs(v) \/ WritePump(v) \/ BrowserLeaves(v)
      PROVE  FeedInv' /\ [ShownFeed!FeedNext]_<<feed, View, from, got>>
  BY <1>4, WriterKeepsFeed
<1>5. CASE UNCHANGED vars
  BY <1>1, <1>5 DEF vars
<1> QED
  BY <1>2, <1>3, <1>4, <1>5 DEF Next

\* What browsers are shown is a feed: from the moment the hub has taken one in,
\* it is shown the events in the hub's order without a gap until its connection
\* ends, although the hub, its writer and other browsers run on their own, and
\* it may be cut off in the middle of a broadcast.
THEOREM HubImplementsFeed == HubSpec => ImplementsFeed
<1>1. Init => ShownFeed!FeedInit
  BY DEF Init, ShownFeed!FeedInit, View
<1>2. Init => ClientsOpen
  BY DEF Init, ClientsOpen, NoSendOnClosed
<1>3. HubSpec => []ClientsOpen
  BY <1>2, TypeInvariant, ClientsOpenStep, PTL DEF HubSpec
<1>4. HubSpec => [][ShownFeed!FeedNext]_<<feed, View, from, got>>
  BY <1>3, TypeInvariant, FeedInvInit, StepKeepsFeed, PTL DEF HubSpec
<1> QED
  BY <1>1, <1>4, PTL DEF HubSpec, ImplementsFeed, ShownFeed!FeedSpec, ShownFeed!feedVars

-----------------------------------------------------------------------------
(***************************************************************************)
(* The consumers.  What a subscription holds was published after what its  *)
(* goroutine offers, and that after what the consumer has passed on.       *)
(***************************************************************************)
\* The members of q lie between m and n and ascend.
Ascending(q, m, n) ==
    \A k \in 1 .. Len(q) :
        /\ m < q[k] /\ q[k] < n
        /\ \A l \in 1 .. Len(q) : k < l => q[k] < q[l]

InOrder(c) ==
    /\ passed[c] < next /\ forward[c] < next
    /\ Ascending(sub[c], passed[c], next) /\ Ascending(sub[c], forward[c], next)
    /\ forward[c] # 0 => passed[c] < forward[c]

OrderInv == \A c \in Consumer : InOrder(c)

LEMMA AscendingTail ==
    ASSUME NEW q \in Seq(Event), NEW m \in Nat, NEW n \in Nat, Ascending(q, m, n), q # <<>>
    PROVE  /\ m < Head(q) /\ Head(q) < n
           /\ Ascending(Tail(q), m, n) /\ Ascending(Tail(q), Head(q), n)
<1>1. Tail(q) \in Seq(Event) /\ Len(Tail(q)) = Len(q) - 1 /\ Len(q) > 0 /\ Head(q) = q[1]
  OBVIOUS
<1>2. \A k \in 1 .. Len(q) - 1 : Tail(q)[k] = q[k + 1] /\ k + 1 \in 1 .. Len(q)
  BY <1>1
<1>3. \A k \in 1 .. Len(q) : q[k] \in Event
  OBVIOUS
<1> QED
  BY <1>1, <1>2, <1>3 DEF Ascending, Event

LEMMA AscendingAppend ==
    ASSUME NEW q \in Seq(Event), NEW m \in Nat, NEW n \in Event, Ascending(q, m, n), m < n
    PROVE  Ascending(Append(q, n), m, n + 1) /\ Ascending(q, m, n + 1)
<1>1. /\ Len(Append(q, n)) = Len(q) + 1 /\ Append(q, n)[Len(q) + 1] = n
      /\ \A k \in 1 .. Len(q) : Append(q, n)[k] = q[k] /\ q[k] \in Event
  OBVIOUS
<1> QED
  BY <1>1 DEF Ascending, Event

LEMMA ConsumerTypes ==
    ASSUME TypeInv, NEW c \in Consumer
    PROVE  next \in Nat /\ sub[c] \in Seq(Event) /\ passed[c] \in Nat /\ forward[c] \in Nat
BY DEF TypeInv, SourcesType

LEMMA OrderInvStep ==
    ASSUME TypeInv, OrderInv, [Next]_vars, NEW c \in Consumer
    PROVE  InOrder(c)' /\ (passed'[c] # passed[c] => passed'[c] > passed[c])
<1>1. /\ InOrder(c) /\ next \in Nat /\ sub[c] \in Seq(Event)
      /\ passed[c] \in Nat /\ forward[c] \in Nat
  BY ConsumerTypes DEF OrderInv
<1>2. ASSUME UNCHANGED <<next, sub[c], forward[c], passed[c]>>
      PROVE  InOrder(c)' /\ passed'[c] = passed[c]
  BY <1>1, <1>2 DEF InOrder, Ascending
<1>3. ASSUME NEW m \in {passed[c], forward[c]}, next \in Event
      PROVE  /\ Ascending(Append(sub[c], next), m, next + 1)
             /\ Ascending(sub[c], m, next + 1) /\ m < next + 1
  BY <1>1, <1>3, AscendingAppend DEF InOrder
<1>4. ASSUME NEW p \in Handler, Broadcast(p)
      PROVE  InOrder(c)' /\ passed'[c] = passed[c]
  <2>1. next' = next + 1 /\ UNCHANGED <<sub, forward, passed>> /\ next \in Event
    BY <1>1, <1>4 DEF Broadcast, NextEvent, TypeInv, SourcesType, Event
  <2> QED
    BY <1>1, <1>3, <2>1 DEF InOrder
<1>5. ASSUME NEW ch \in RedisChannel, Publish(ch)
      PROVE  InOrder(c)' /\ passed'[c] = passed[c]
  <2>1. next' = next + 1 /\ UNCHANGED <<forward, passed>> /\ next \in Event
    BY <1>1, <1>5 DEF Publish, NextEvent, TypeInv, SourcesType, Event
  <2>2. sub'[c] \in {sub[c], Append(sub[c], next)}
    BY <1>5 DEF Publish
  <2> QED
    BY <1>1, <1>3, <2>1, <2>2 DEF InOrder
<1>6. ASSUME NEW d \in Consumer, Forward(d)
      PROVE  InOrder(c)' /\ passed'[c] = passed[c]
  <2>1. UNCHANGED <<next, passed>> /\ forward[d] = 0 /\ sub[d] # <<>>
    BY <1>6 DEF Forward
  <2>2. CASE d # c
    BY <1>2, <1>6, <2>1, <2>2 DEF Forward, TypeInv, SourcesType
  <2>3. CASE d = c
    <3>1. forward'[c] = Head(sub[c]) /\ sub'[c] = Tail(sub[c])
      BY <1>6, <2>3 DEF Forward, TypeInv, SourcesType
    <3> QED
      BY <1>1, <2>1, <2>3, <3>1, AscendingTail DEF InOrder
  <2> QED
    BY <2>2, <2>3
<1>7. ASSUME NEW d \in Consumer, Receive(d)
      PROVE  InOrder(c)' /\ (passed'[c] # passed[c] => passed'[c] > passed[c])
  <2>1. UNCHANGED <<next, sub>> /\ forward[d] # 0
    BY <1>7 DEF Receive
  <2>2. CASE d # c
    BY <1>2, <1>7, <2>1, <2>2 DEF Receive, TypeInv, SourcesType
  <2>3. CASE d = c
    <3>1. passed'[c] = forward[c] /\ forward'[c] = 0
      BY <1>7, <2>3 DEF Receive, TypeInv, SourcesType
    <3>2. Ascending(sub[c], 0, next)
      <4>1. \A k \in 1 .. Len(sub[c]) : sub[c][k] \in Event
        BY <1>1
      <4>2. \A k \in 1 .. Len(sub[c]) : 0 < sub[c][k]
        BY <4>1 DEF Event
      <4> QED
        BY <1>1, <4>2 DEF InOrder, Ascending
    <3> QED
      BY <1>1, <2>1, <2>3, <3>1, <3>2 DEF InOrder
  <2> QED
    BY <2>2, <2>3
<1>8. CASE UNCHANGED <<next, sub, forward, passed>>
  BY <1>2, <1>8
<1>9. CASE Run \/ \E v \in Viewer : ServeWs(v) \/ WritePump(v) \/ BrowserLeaves(v)
  BY <1>8, <1>9 DEF Run, RegisterClient, Send, SendTo, TakeFrom, ServeWs, WritePump,
     BrowserLeaves, TakeFirst, CountRest, TakeNext, Flush, WriteFails, HubClosed,
     PumpReturns, Pump, sources
<1>10. ASSUME NEW d \in Consumer, PublishMqtt(d)
       PROVE  InOrder(c)' /\ passed'[c] = passed[c]
  BY <1>2, <1>10 DEF PublishMqtt
<1>11. CASE UNCHANGED vars
  BY <1>8, <1>11 DEF vars, sources
<1> QED
  BY <1>4, <1>5, <1>6, <1>7, <1>9, <1>10, <1>11 DEF Next, Consume

\* A consumer passes events on in the order in which they were published, and
\* none twice, whatever its subscription drops or a lost connection misses.
THEOREM EventsInOrder == HubSpec => OrderKept
<1>1. Init => OrderInv
  <2>1. Len(<<>>) = 0
    OBVIOUS
  <2> QED
    BY <2>1 DEF Init, OrderInv, InOrder, Ascending
<1>2. TypeInv /\ OrderInv /\ [Next]_vars => OrderInv'
  BY OrderInvStep DEF OrderInv
<1>3. TypeInv /\ OrderInv /\ [Next]_vars =>
        [\A c \in Consumer : passed'[c] # passed[c] => passed'[c] > passed[c]]_passed
  BY OrderInvStep
<1> QED
  BY <1>1, <1>2, <1>3, TypeInvariant, PTL DEF HubSpec, OrderKept
=============================================================================
