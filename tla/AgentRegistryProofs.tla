-------------------------- MODULE AgentRegistryProofs --------------------------
(***************************************************************************)
(* A machine is authenticated as one agent that is nobody else's, and the  *)
(* commands for an agent wait where its stream reads them and come in      *)
(* order: for any machines, IDs, sessions, channels and faults.            *)
(***************************************************************************)
EXTENDS AgentRegistry, FiniteSetTheorems, SequenceTheorems, WellFoundedInduction,
        TLAPS

-----------------------------------------------------------------------------
(***************************************************************************)
(* How a step changes the sessions.                                        *)
(***************************************************************************)
SessionTypes ==
    DOMAIN sessions = Session /\ \A c \in Open : sessions[c] \in SessionRecord

\* Session c becomes r, the others stay.
Turns(c, r) ==
    /\ DOMAIN sessions' = Session /\ sessions'[c] = r
    /\ \A d \in Session \ {c} : sessions'[d] = sessions[d]

LEMMA RecordFields ==
    ASSUME NEW r \in SessionRecord
    PROVE  /\ r # Closed /\ r.pc # "closed" /\ r.pc \in Call /\ r.host \in Host
           /\ r.live \in BOOLEAN /\ r.id \in AgentId \cup {NoId}
           /\ r.ch \in Channel \cup {NoChannel} /\ r.cmd \in 0 .. MaxCommands
           /\ r.wire \in Seq(1 .. MaxCommands)
BY DEF SessionRecord, Closed, Call

LEMMA OpenSession ==
    ASSUME SessionTypes, NEW c \in Session, sessions[c].pc # "closed"
    PROVE  c \in Open /\ sessions[c] \in SessionRecord
BY DEF SessionTypes, Open, Closed

LEMMA TurnTypes ==
    ASSUME SessionTypes, NEW c \in Session, NEW r, Turns(c, r), r = Closed \/ r \in SessionRecord
    PROVE  /\ SessionTypes'
           /\ Open' = IF r = Closed THEN Open \ {c} ELSE Open \cup {c}
BY DEF SessionTypes, Turns, Open

LEMMA GoesTurns ==
    ASSUME SessionTypes, NEW c \in Open, NEW to \in Call, Goes(c, to)
    PROVE  \E r \in SessionRecord :
              /\ Turns(c, r) /\ r.pc = to /\ r.host = sessions[c].host
              /\ r.live = sessions[c].live /\ r.id = sessions[c].id /\ r.ch = sessions[c].ch
              /\ r.cmd = sessions[c].cmd /\ r.wire = sessions[c].wire
<1> DEFINE r == [sessions[c] EXCEPT !.pc = to]
<1>1. c \in Session /\ sessions[c] \in SessionRecord
  BY DEF SessionTypes, Open
<1>2. /\ r \in SessionRecord /\ r.pc = to /\ r.host = sessions[c].host
      /\ r.live = sessions[c].live /\ r.id = sessions[c].id /\ r.ch = sessions[c].ch
      /\ r.cmd = sessions[c].cmd /\ r.wire = sessions[c].wire
  BY <1>1 DEF SessionRecord
<1>3. Turns(c, r)
  BY <1>1 DEF Goes, Turns, SessionTypes
<1> QED
  BY <1>2, <1>3

LEMMA LowestIsNamed ==
    ASSUME NEW S \in SUBSET AgentId, S # {}
    PROVE  Lowest(S) \in S
<1> DEFINE R == OpToRel(<, Nat)
<1>1. S \in SUBSET Nat
  BY RegistryAssumption DEF RegistryAssumption
<1>2. PICK m \in S : \A k \in S : <<k, m>> \notin R
  <2> HIDE DEF R
  <2>1. IsWellFoundedOn(R, Nat)
    BY NatLessThanWellFounded DEF R
  <2> QED
    BY <1>1, <2>1, WFMin
<1>3. \A k \in S : m <= k
  <2>1. \A k \in S : ~(k < m)
    BY <1>1, <1>2 DEF OpToRel
  <2> QED
    BY <1>1, <2>1
<1> QED
  BY <1>3 DEF Lowest

\* The steps of the handlers: what becomes of their session.
Keeps(c, r) == Turns(c, r) /\ r.host = sessions[c].host /\ r.live = sessions[c].live

SameLink(c, r) ==
    r.ch = sessions[c].ch /\ r.cmd = sessions[c].cmd /\ r.wire = sessions[c].wire

LEMMA LookUpIdTurns ==
    ASSUME SessionTypes, NEW c \in Session, LookUpId(c)
    PROVE  c \in Open /\ \E r \in SessionRecord :
              /\ Keeps(c, r) /\ SameLink(c, r) /\ r.id = sessions[c].id
              /\ r.pc = IF rows[sessions[c].id] # NoRow THEN "answer" ELSE "byName"
<1>1. c \in Open
  BY OpenSession DEF LookUpId, AuthAt
<1> DEFINE to == IF rows[sessions[c].id] # NoRow THEN "answer" ELSE "byName"
<1>2. to \in Call /\ Goes(c, to)
  BY DEF LookUpId, Call
<1> HIDE DEF to
<1> QED
  BY <1>1, <1>2, GoesTurns DEF Keeps, SameLink, to

LEMMA LookUpNameTurns ==
    ASSUME SessionTypes, NEW c \in Session, LookUpName(c)
    PROVE  c \in Open /\ \E r \in SessionRecord :
              /\ Keeps(c, r) /\ SameLink(c, r)
              /\ \/ Named(c) = {} /\ r.pc = "create" /\ r.id = sessions[c].id
                 \/ r.id \in Named(c) /\ r.pc = "answer"
<1>1. c \in Open /\ c \in Session /\ sessions[c] \in SessionRecord
  BY OpenSession DEF LookUpName, AuthAt
<1>2. CASE Named(c) = {}
  <2>1. "create" \in Call /\ Goes(c, "create")
    BY <1>2 DEF LookUpName, Call
  <2> QED
    BY <1>1, <1>2, <2>1, GoesTurns DEF Keeps, SameLink
<1>3. CASE Named(c) # {}
  <2> DEFINE i == Lowest(Named(c))
             r == [sessions[c] EXCEPT !.pc = "answer", !.id = i]
  <2>1. i \in Named(c) /\ i \in AgentId
    <3>1. Named(c) \in SUBSET AgentId
      BY DEF Named
    <3> QED
      BY <1>3, <3>1, LowestIsNamed
  <2>2. sessions' = [sessions EXCEPT ![c].pc = "answer", ![c].id = i]
    BY <1>3 DEF LookUpName
  <2> HIDE DEF i
  <2>3. r \in SessionRecord /\ r.pc = "answer" /\ r.id = i
    BY <1>1, <2>1 DEF SessionRecord, Call
  <2>4. Keeps(c, r) /\ SameLink(c, r)
    BY <1>1, <2>2 DEF Turns, Keeps, SameLink, SessionTypes, SessionRecord
  <2> QED
    BY <1>1, <2>1, <2>3, <2>4
<1> QED
  BY <1>2, <1>3

LEMMA LookUpFailsTurns ==
    ASSUME SessionTypes, NEW c \in Session, LookUpFails(c)
    PROVE  c \in Open /\ \E r \in SessionRecord :
              /\ Keeps(c, r) /\ SameLink(c, r) /\ r.id = sessions[c].id
              /\ \/ sessions[c].pc = "byId" /\ r.pc = "byName" /\ spoiled' = spoiled
                 \/ sessions[c].pc = "byName" /\ r.pc = "create" /\ Spoil(c)
<1>1. c \in Open
  BY OpenSession DEF LookUpFails, AuthAt
<1>2. {"byName", "create"} \subseteq Call
  BY DEF Call
<1> QED
  BY <1>1, <1>2, GoesTurns DEF LookUpFails, Keeps, SameLink

LEMMA CreateTurns ==
    ASSUME SessionTypes, NEW c \in Session, NEW i \in AgentId, CreatePlaceholderAgent(c, i)
    PROVE  c \in Open /\ \E r \in SessionRecord :
              Keeps(c, r) /\ SameLink(c, r) /\ r.pc = "name" /\ r.id = i
<1>1. c \in Open /\ c \in Session /\ sessions[c] \in SessionRecord
  BY OpenSession DEF CreatePlaceholderAgent, AuthAt
<1> DEFINE r == [sessions[c] EXCEPT !.pc = "name", !.id = i]
<1>2. sessions' = [sessions EXCEPT ![c].pc = "name", ![c].id = i]
  BY DEF CreatePlaceholderAgent
<1>3. r \in SessionRecord /\ r.pc = "name" /\ r.id = i
  BY <1>1 DEF SessionRecord, Call
<1>4. Keeps(c, r) /\ SameLink(c, r)
  BY <1>1, <1>2 DEF Turns, Keeps, SameLink, SessionTypes, SessionRecord
<1> QED
  BY <1>1, <1>3, <1>4

\* The other handlers that only go on.
LEMMA HandlerGoesTurns ==
    ASSUME SessionTypes, NEW c \in Session,
           NamePlaceholder(c) \/ RegisterAgent(c) \/ OpenStream(c)
    PROVE  c \in Open /\ \E r \in SessionRecord :
              /\ Keeps(c, r) /\ SameLink(c, r) /\ r.id = sessions[c].id
              /\ \/ NamePlaceholder(c) /\ r.pc = "answer"
                 \/ RegisterAgent(c) /\ r.pc = "idle"
                 \/ OpenStream(c) /\ r.pc = "channel"
<1>1. c \in Open
  BY OpenSession DEF NamePlaceholder, AuthAt, RegisterAgent, OpenStream
<1>2. {"answer", "idle", "channel"} \subseteq Call
  BY DEF Call
<1>3. CASE NamePlaceholder(c)
  <2>1. Goes(c, "answer")
    BY <1>3 DEF NamePlaceholder
  <2> QED
    BY <1>1, <1>2, <1>3, <2>1, GoesTurns DEF Keeps, SameLink
<1>4. CASE RegisterAgent(c)
  <2>1. Goes(c, "idle")
    BY <1>4 DEF RegisterAgent
  <2> QED
    BY <1>1, <1>2, <1>4, <2>1, GoesTurns DEF Keeps, SameLink
<1>5. CASE OpenStream(c)
  <2>1. Goes(c, "channel")
    BY <1>5 DEF OpenStream
  <2> QED
    BY <1>1, <1>2, <1>5, <2>1, GoesTurns DEF Keeps, SameLink
<1> QED
  BY <1>3, <1>4, <1>5

\* TakeCommand, Send and the rest of StreamJobs.
LEMMA ChannelTurns ==
    ASSUME SessionTypes, NEW c \in Session, GetCommandChannel(c),
           agents[sessions[c].id] \in Channel \cup {NoChannel}
    PROVE  c \in Open /\ \E r \in SessionRecord :
              /\ Keeps(c, r) /\ r.pc = "loop" /\ r.id = sessions[c].id
              /\ r.ch = agents[sessions[c].id]
              /\ r.cmd = sessions[c].cmd /\ r.wire = sessions[c].wire
<1>1. c \in Open /\ c \in Session /\ sessions[c] \in SessionRecord
  BY OpenSession DEF GetCommandChannel
<1> DEFINE k == agents[sessions[c].id]
           r == [sessions[c] EXCEPT !.pc = "loop", !.ch = k]
<1>2. sessions' = [sessions EXCEPT ![c].pc = "loop", ![c].ch = k]
  BY DEF GetCommandChannel
<1>3. k \in Channel \cup {NoChannel}
  OBVIOUS
<1> HIDE DEF k
<1>4. /\ r \in SessionRecord /\ r.pc = "loop" /\ r.ch = k /\ r.id = sessions[c].id
      /\ r.cmd = sessions[c].cmd /\ r.wire = sessions[c].wire
  BY <1>1, <1>3 DEF SessionRecord, Call
<1>5. Keeps(c, r)
  BY <1>1, <1>2 DEF Turns, Keeps, SessionTypes, SessionRecord
<1> QED
  BY <1>1, <1>4, <1>5 DEF k

LEMMA TakeTurns ==
    ASSUME SessionTypes, chans \in [Channel -> Seq(1 .. MaxCommands)],
           NEW c \in Session, TakeCommand(c)
    PROVE  /\ c \in Open /\ sessions[c].pc = "loop" /\ sessions[c].ch \in Channel
           /\ chans[sessions[c].ch] # <<>>
           /\ chans' = [chans EXCEPT ![sessions[c].ch] = Tail(@)]
           /\ \E r \in SessionRecord :
              /\ Keeps(c, r) /\ r.pc = "send" /\ r.id = sessions[c].id
              /\ r.ch = sessions[c].ch /\ r.wire = sessions[c].wire
              /\ r.cmd = Head(chans[sessions[c].ch]) /\ r.cmd \in 1 .. MaxCommands
<1>1. c \in Open /\ c \in Session /\ sessions[c] \in SessionRecord
  BY OpenSession DEF TakeCommand
<1>2. /\ sessions[c].pc = "loop" /\ sessions[c].ch \in Channel
      /\ chans[sessions[c].ch] # <<>>
      /\ chans' = [chans EXCEPT ![sessions[c].ch] = Tail(@)]
  BY <1>1, RecordFields DEF TakeCommand
<1> DEFINE n == Head(chans[sessions[c].ch])
           r == [sessions[c] EXCEPT !.pc = "send", !.cmd = n]
<1>3. sessions' = [sessions EXCEPT ![c].pc = "send", ![c].cmd = n]
  BY DEF TakeCommand
<1>4. n \in 1 .. MaxCommands /\ n \in 0 .. MaxCommands
  <2>1. n \in 1 .. MaxCommands
    BY <1>2, HeadTailProperties
  <2> QED
    BY <2>1, RegistryAssumption DEF RegistryAssumption
<1> HIDE DEF n
<1>5. /\ r \in SessionRecord /\ r.pc = "send" /\ r.cmd = n /\ r.id = sessions[c].id
      /\ r.ch = sessions[c].ch /\ r.wire = sessions[c].wire
  BY <1>1, <1>4 DEF SessionRecord, Call
<1>6. Keeps(c, r)
  BY <1>1, <1>3 DEF Turns, Keeps, SessionTypes, SessionRecord
<1> QED
  BY <1>1, <1>2, <1>4, <1>5, <1>6 DEF n

LEMMA SendTurns ==
    ASSUME SessionTypes, NEW c \in Session, Send(c), sessions[c].cmd # 0
    PROVE  /\ c \in Open /\ sessions[c].pc = "send" /\ sessions[c].cmd \in 1 .. MaxCommands
           /\ \E r \in SessionRecord :
              /\ Keeps(c, r) /\ r.pc = "loop" /\ r.id = sessions[c].id
              /\ r.ch = sessions[c].ch /\ r.cmd = 0
              /\ r.wire = IF sessions[c].live
                          THEN Append(sessions[c].wire, sessions[c].cmd)
                          ELSE sessions[c].wire
<1>1. c \in Open /\ c \in Session /\ sessions[c] \in SessionRecord
  BY OpenSession DEF Send
<1> DEFINE w == IF sessions[c].live THEN Append(sessions[c].wire, sessions[c].cmd)
                ELSE sessions[c].wire
           r == [sessions[c] EXCEPT !.pc = "loop", !.cmd = 0, !.wire = w]
<1>2. sessions' = [sessions EXCEPT ![c].pc = "loop", ![c].cmd = 0, ![c].wire = w]
  BY <1>1 DEF Send, SessionTypes
<1>3. sessions[c].cmd \in 1 .. MaxCommands /\ sessions[c].wire \in Seq(1 .. MaxCommands)
  BY <1>1, RegistryAssumption, RecordFields DEF RegistryAssumption
<1>4. w \in Seq(1 .. MaxCommands)
  BY <1>3, AppendProperties
<1>5. 0 \in 0 .. MaxCommands
  BY RegistryAssumption DEF RegistryAssumption
<1> HIDE DEF w
<1>6. /\ r \in SessionRecord /\ r.pc = "loop" /\ r.cmd = 0 /\ r.id = sessions[c].id
      /\ r.ch = sessions[c].ch /\ r.wire = w
  BY <1>1, <1>4, <1>5 DEF SessionRecord, Call
<1>7. Keeps(c, r)
  BY <1>1, <1>2 DEF Turns, Keeps, SessionTypes, SessionRecord
<1>8. sessions[c].pc = "send"
  BY DEF Send
<1> QED
  BY <1>1, <1>3, <1>6, <1>7, <1>8 DEF w

LEMMA ReceiveTurns ==
    ASSUME SessionTypes, NEW h \in Host, proc[h].session \in Open, Receive(h)
    PROVE  \E r \in SessionRecord :
              /\ Keeps(proc[h].session, r) /\ r.pc = sessions[proc[h].session].pc
              /\ r.id = sessions[proc[h].session].id /\ r.ch = sessions[proc[h].session].ch
              /\ r.cmd = sessions[proc[h].session].cmd
              /\ r.wire = Tail(sessions[proc[h].session].wire)
<1> DEFINE c == proc[h].session
<1>1. c \in Session /\ sessions[c] \in SessionRecord
  BY DEF SessionTypes, Open
<1> DEFINE w == Tail(sessions[c].wire)
           r == [sessions[c] EXCEPT !.wire = w]
<1>2. sessions' = [sessions EXCEPT ![c].wire = w] /\ sessions[c].wire # <<>>
  BY DEF Receive
<1>3. w \in Seq(1 .. MaxCommands)
  BY <1>1, <1>2, RecordFields, HeadTailProperties
<1> HIDE DEF w, c
<1>4. /\ r \in SessionRecord /\ r.pc = sessions[c].pc /\ r.cmd = sessions[c].cmd
      /\ r.id = sessions[c].id /\ r.ch = sessions[c].ch /\ r.wire = w
  BY <1>1, <1>3 DEF SessionRecord
<1>5. Keeps(c, r)
  BY <1>1, <1>2 DEF Turns, Keeps, SessionTypes, SessionRecord
<1> QED
  BY <1>4, <1>5 DEF w, c

\* A new session.
LEMMA CallTurns ==
    ASSUME SessionTypes, NEW h \in Host, proc[h].id \in AgentId \cup {NoId},
           LoadAgentID(h) \in AgentId \cup {NoId}, CallAuth(h)
    PROVE  \E c \in Session \ Open, id \in {LoadAgentID(h), proc[h].id} :
              /\ id = IF LoadAgentID(h) # NoId THEN LoadAgentID(h) ELSE proc[h].id
              /\ proc' = [proc EXCEPT ![h].id = id, ![h].session = c]
              /\ \E r \in SessionRecord :
                    /\ Turns(c, r) /\ r.host = h /\ r.live /\ r.id = id
                    /\ r.pc = IF id = NoId THEN "byName" ELSE "byId"
                    /\ r.ch = NoChannel /\ r.cmd = 0 /\ r.wire = <<>>
<1> DEFINE c == CHOOSE d \in Session : d \notin Open
           id == IF LoadAgentID(h) # NoId THEN LoadAgentID(h) ELSE proc[h].id
           r == [pc |-> IF id = NoId THEN "byName" ELSE "byId",
                 host |-> h, live |-> TRUE, id |-> id,
                 ch |-> NoChannel, cmd |-> 0, wire |-> <<>>]
<1>1. c \in Session \ Open
  <2>1. \E d \in Session : d \notin Open
    BY DEF CallAuth, Open
  <2> QED
    BY <2>1
<1>2. /\ proc' = [proc EXCEPT ![h].id = id, ![h].session = c]
      /\ sessions' = [sessions EXCEPT ![c] = r]
  BY DEF CallAuth
<1>3. id \in {LoadAgentID(h), proc[h].id} /\ id \in AgentId \cup {NoId}
  OBVIOUS
<1>4. r \in SessionRecord
  <2>1. 0 \in 0 .. MaxCommands
    BY RegistryAssumption DEF RegistryAssumption
  <2> HIDE DEF id
  <2> QED
    BY <1>3, <2>1 DEF SessionRecord, Call
<1>5. Turns(c, r)
  <2> HIDE DEF r, c
  <2> QED
    BY <1>1, <1>2 DEF Turns, SessionTypes
<1>6. /\ r.host = h /\ r.live /\ r.id = id /\ r.pc = (IF id = NoId THEN "byName" ELSE "byId")
      /\ r.ch = NoChannel /\ r.cmd = 0 /\ r.wire = <<>>
  <2> HIDE DEF id
  <2> QED
    OBVIOUS
<1>7. id = IF LoadAgentID(h) # NoId THEN LoadAgentID(h) ELSE proc[h].id
  OBVIOUS
<1> HIDE DEF r, c, id
<1> QED
  BY <1>1, <1>2, <1>3, <1>4, <1>5, <1>6, <1>7

\* What is left of the sessions cs whose client is gone.
Left(cs) ==
    /\ DOMAIN sessions' = Session
    /\ \A d \in Session \ cs : sessions'[d] = sessions[d]
    /\ \A d \in cs :
          \/ sessions[d].pc \in {"register", "idle"} /\ sessions'[d] = Closed
          \/ /\ sessions[d].pc \notin {"register", "idle"}
             /\ sessions'[d] \in SessionRecord
             /\ sessions'[d].ch = sessions[d].ch /\ sessions'[d].cmd = sessions[d].cmd
             /\ sessions'[d].pc = sessions[d].pc /\ sessions'[d].host = sessions[d].host
             /\ sessions'[d].id = sessions[d].id
             /\ ~sessions'[d].live /\ sessions'[d].wire = <<>>

LEMMA LeaveIsLeft ==
    ASSUME SessionTypes, NEW cs \in SUBSET Open, Leave(cs)
    PROVE  Left(cs) /\ SessionTypes'
<1>1. cs \subseteq Session
  BY DEF Open
<1>2. DOMAIN sessions' = Session
  BY DEF Leave
<1>3. ASSUME NEW d \in Session \ cs PROVE sessions'[d] = sessions[d]
  BY <1>3 DEF Leave
<1>4. ASSUME NEW d \in cs, sessions[d].pc \in {"register", "idle"}
      PROVE  sessions'[d] = Closed
  BY <1>1, <1>4 DEF Leave
<1>5. ASSUME NEW d \in cs, sessions[d].pc \notin {"register", "idle"}
      PROVE  /\ sessions'[d] \in SessionRecord
             /\ sessions'[d].ch = sessions[d].ch /\ sessions'[d].cmd = sessions[d].cmd
             /\ sessions'[d].pc = sessions[d].pc /\ sessions'[d].host = sessions[d].host
             /\ sessions'[d].id = sessions[d].id
             /\ ~sessions'[d].live /\ sessions'[d].wire = <<>>
  <2>1. sessions'[d] = [sessions[d] EXCEPT !.live = FALSE, !.wire = <<>>]
    BY <1>1, <1>5 DEF Leave
  <2>2. sessions[d] \in SessionRecord
    BY DEF SessionTypes
  <2> DEFINE r == [sessions[d] EXCEPT !.live = FALSE, !.wire = <<>>]
  <2>3. <<>> \in Seq(1 .. MaxCommands)
    OBVIOUS
  <2>4. /\ r \in SessionRecord /\ r.ch = sessions[d].ch /\ r.cmd = sessions[d].cmd
        /\ r.pc = sessions[d].pc /\ r.host = sessions[d].host /\ r.id = sessions[d].id
        /\ ~r.live /\ r.wire = <<>>
    BY <2>2, <2>3 DEF SessionRecord
  <2> HIDE DEF r
  <2> QED
    BY <2>1, <2>4, Zenon DEF r
<1>6. SessionTypes'
  BY <1>1, <1>2, <1>3, <1>4, <1>5 DEF SessionTypes, Open
<1> QED
  BY <1>2, <1>3, <1>4, <1>5, <1>6 DEF Left

-----------------------------------------------------------------------------
(***************************************************************************)
(* Sessions, processes and channels: the inductive invariant behind the    *)
(* types and behind where commands wait.                                   *)
(***************************************************************************)
Streams == {"open", "channel", "loop", "send"}

\* What the record of one session says by itself.
Sound(r) ==
    /\ r.pc \notin {"byName", "create"} => r.id # NoId
    /\ r.pc \in {"register", "idle"} => r.live
    /\ (r.live /\ r.pc \in {"loop", "send"}) \/ r.wire = <<>>
    /\ r.pc \notin {"loop", "send"} => r.ch = NoChannel
    /\ r.pc = "send" => r.cmd # 0

\* A session is live exactly while it is the session of its process.
SessionInv ==
    \A c \in Open : /\ Sound(sessions[c])
                    /\ sessions[c].live <=> proc[sessions[c].host].session = c

ProcInv ==
    \A h \in Host :
        /\ proc[h].session # NoSession =>
              /\ proc[h].session \in Open /\ sessions[proc[h].session].host = h
              /\ proc[h].pc # "down"
              /\ proc[h].pc \in {"stream", "obey"} <=> sessions[proc[h].session].pc \in Streams
        /\ proc[h].pc = "stream" => proc[h].session # NoSession

\* Each entry has a channel of its own; a session that went through
\* RegisterAgent has an entry, and its loop reads the channel of it.
ListenInv ==
    /\ \A i, k \in AgentId : agents[i] # NoChannel /\ agents[i] = agents[k] => i = k
    /\ \A c \in Open :
          /\ sessions[c].pc \in {"idle"} \cup Streams => agents[sessions[c].id] # NoChannel
          /\ sessions[c].pc \in {"loop", "send"} => sessions[c].ch = agents[sessions[c].id]
    /\ NoCommandStranded

Core == RegistryTypeOK /\ SessionInv /\ ProcInv /\ ListenInv

LEMMA CoreTypes ==
    ASSUME Core
    PROVE  /\ SessionTypes
           /\ \A c \in Open : /\ c \in Session /\ sessions[c] \in SessionRecord
                              /\ Sound(sessions[c])
                              /\ sessions[c].pc \notin {"byName", "create"} =>
                                    sessions[c].id \in AgentId
           /\ \A h \in Host : /\ proc[h] \in Process
                              /\ proc[h].id \in AgentId \cup {NoId}
                              /\ proc[h].session \in Session \cup {NoSession}
                              /\ LoadAgentID(h) \in AgentId \cup {NoId}
<1>1. SessionTypes
  BY DEF Core, RegistryTypeOK, SessionTypes
<1>2. ASSUME NEW c \in Open
      PROVE  /\ c \in Session /\ sessions[c] \in SessionRecord
             /\ Sound(sessions[c])
             /\ sessions[c].pc \notin {"byName", "create"} => sessions[c].id \in AgentId
  <2>1. c \in Session /\ sessions[c] \in SessionRecord /\ Sound(sessions[c])
    BY <1>1, <1>2 DEF SessionTypes, Open, Core, SessionInv
  <2>2. sessions[c].id \in AgentId \cup {NoId}
    BY <2>1, RecordFields
  <2> QED
    BY <2>1, <2>2 DEF Sound
<1>3. ASSUME NEW h \in Host
      PROVE  /\ proc[h] \in Process /\ proc[h].id \in AgentId \cup {NoId}
             /\ proc[h].session \in Session \cup {NoSession}
  BY DEF Core, RegistryTypeOK, Process
<1>4. ASSUME NEW h \in Host PROVE LoadAgentID(h) \in AgentId \cup {NoId}
  <2>1. disk[h] \in Identity \cup {NoIdentity}
    BY DEF Core, RegistryTypeOK
  <2> QED
    BY <2>1 DEF LoadAgentID, Identity
<1> QED
  BY <1>1, <1>2, <1>3, <1>4

\* There are as many channels as IDs, so one is free for a new entry.
LEMMA UnusedChannel ==
    ASSUME Core, NEW i \in AgentId, agents[i] = NoChannel
    PROVE  Unused # {}
<1>1. \E k \in Channel : \A j \in AgentId : agents[j] # k
  <2>1. SUFFICES ASSUME \A k \in Channel : \E j \in AgentId : agents[j] = k
                 PROVE  FALSE
    OBVIOUS
  <2> DEFINE T == AgentId \ {i}
             f == [k \in Channel |-> CHOOSE j \in AgentId : agents[j] = k]
  <2>2. \A k \in Channel : f[k] \in AgentId /\ agents[f[k]] = k
    BY <2>1
  <2>3. f \in [Channel -> T]
    <3>1. \A k \in Channel : f[k] \in T
      BY <2>2, RegistryAssumption DEF RegistryAssumption
    <3> QED
      BY <3>1
  <2>4. IsFiniteSet(T) /\ Cardinality(T) < Cardinality(Channel)
    <3>1. IsFiniteSet(T) /\ Cardinality(T) = Cardinality(AgentId) - 1
      BY FS_RemoveElement, RegistryAssumption DEF RegistryAssumption
    <3>2. Cardinality(AgentId) \in Nat /\ Cardinality(Channel) \in Nat
      BY FS_CardinalityType, RegistryAssumption DEF RegistryAssumption
    <3> QED
      BY <3>1, <3>2, RegistryAssumption DEF RegistryAssumption
  <2> HIDE DEF T, f
  <2>5. \E x, y \in Channel : x # y /\ f[x] = f[y]
    BY <2>3, <2>4, FS_PigeonHole, RegistryAssumption DEF RegistryAssumption
  <2> QED
    BY <2>2, <2>5
<1>2. PICK k \in Channel : \A j \in AgentId : agents[j] # k
  BY <1>1
<1>3. chans[k] = <<>>
  BY <1>2 DEF Core, ListenInv, NoCommandStranded
<1>4. ASSUME NEW c \in Open PROVE sessions[c].ch # k
  <2>1. k # NoChannel
    BY RegistryAssumption DEF RegistryAssumption
  <2>2. Sound(sessions[c])
    BY CoreTypes
  <2>3. CASE sessions[c].pc \in {"loop", "send"}
    <3>1. sessions[c].ch = agents[sessions[c].id] /\ sessions[c].id \in AgentId
      BY <2>3, CoreTypes DEF Core, ListenInv
    <3> QED
      BY <3>1, <1>2
  <2> QED
    BY <2>1, <2>2, <2>3 DEF Sound
<1> QED
  BY <1>2, <1>3, <1>4 DEF Unused

\* Registering: an entry and its channel, which was nobody's.
LEMMA RegisterGives ==
    ASSUME Core, NEW i \in AgentId, Register(i)
    PROVE  /\ agents' \in [AgentId -> Channel \cup {NoChannel}]
           /\ agents'[i] \in Channel
           /\ \A j \in AgentId \ {i} : agents'[j] = agents[j]
           /\ \/ agents' = agents
              \/ agents[i] = NoChannel /\ agents'[i] \in Unused
<1>1. agents \in [AgentId -> Channel \cup {NoChannel}]
  BY DEF Core, RegistryTypeOK
<1>2. CASE agents[i] # NoChannel
  BY <1>1, <1>2 DEF Register
<1>3. CASE agents[i] = NoChannel
  <2> DEFINE k == CHOOSE x \in Unused : TRUE
  <2>1. k \in Unused
    BY <1>3, UnusedChannel
  <2>2. k \in Channel
    BY <2>1 DEF Unused
  <2>3. agents' = [agents EXCEPT ![i] = k]
    BY <1>3 DEF Register
  <2> HIDE DEF k
  <2> QED
    BY <1>1, <1>3, <2>1, <2>2, <2>3
<1> QED
  BY <1>2, <1>3

\* A handler's step leaves the links between sessions and processes alone.
LEMMA HandlerLinks ==
    ASSUME Core, NEW c \in Open, NEW r \in SessionRecord, Keeps(c, r), Sound(r),
           r.pc \in Streams <=> sessions[c].pc \in Streams, proc' = proc
    PROVE  SessionTypes' /\ SessionInv' /\ ProcInv' /\ Open' = Open
<1>1. c \in Session /\ SessionTypes
  BY CoreTypes
<1>2. SessionTypes' /\ Open' = Open
  <2>1. r # Closed
    BY RecordFields
  <2> QED
    BY <1>1, <2>1, TurnTypes DEF Keeps
<1>3. /\ sessions'[c] = r /\ r.host = sessions[c].host /\ r.live = sessions[c].live
      /\ \A d \in Open \ {c} : sessions'[d] = sessions[d]
  BY DEF Keeps, Turns, Open
<1>4. SessionInv'
  BY <1>2, <1>3 DEF Core, SessionInv
<1>5. ProcInv'
  BY <1>2, <1>3 DEF Core, ProcInv
<1> QED
  BY <1>2, <1>4, <1>5

\* Where commands wait does not change while entries and channels stay.
LEMMA ListenFrame ==
    ASSUME Core, agents' = agents, chans' = chans,
           \A d \in Open' : sessions'[d].pc \in {"idle"} \cup Streams =>
              /\ d \in Open /\ sessions'[d].id = sessions[d].id
              /\ sessions[d].pc \in {"idle"} \cup Streams
              /\ sessions'[d].pc \in {"loop", "send"} =>
                    sessions[d].pc \in {"loop", "send"} /\ sessions'[d].ch = sessions[d].ch
    PROVE  ListenInv'
<1>1. NoCommandStranded'
  BY DEF Core, ListenInv, NoCommandStranded
<1>2. ASSUME NEW d \in Open'
      PROVE  /\ sessions'[d].pc \in {"idle"} \cup Streams => agents'[sessions'[d].id] # NoChannel
             /\ sessions'[d].pc \in {"loop", "send"} => sessions'[d].ch = agents'[sessions'[d].id]
  BY <1>2 DEF Core, ListenInv, Streams
<1> QED
  BY <1>1, <1>2 DEF Core, ListenInv

\* What the types of the other variables say.
DataTypes ==
    /\ rows \in [AgentId -> Name \cup {NoRow}]
    /\ agents \in [AgentId -> Channel \cup {NoChannel}]
    /\ chans \in [Channel -> Seq(1 .. MaxCommands)]
    /\ \A k \in Channel : Len(chans[k]) <= ChannelCapacity
    /\ disk \in [Host -> Identity \cup {NoIdentity}]
    /\ proc \in [Host -> Process]
    /\ sent \in 0 .. MaxCommands /\ got \in [AgentId -> 0 .. MaxCommands]
    /\ spoiled \subseteq Host /\ unnamed \subseteq Host /\ faults \in 0 .. MaxFaults

LEMMA TypesSplit ==
    /\ RegistryTypeOK <=> SessionTypes /\ DataTypes
    /\ RegistryTypeOK' <=> SessionTypes' /\ DataTypes'
BY DEF RegistryTypeOK, SessionTypes, DataTypes

LEMMA FaultCounts ==
    ASSUME DataTypes, Fault \/ UNCHANGED faults
    PROVE  faults' \in 0 .. MaxFaults
BY RegistryAssumption DEF DataTypes, Fault, RegistryAssumption

LEMMA NamesOfHosts ==
    ASSUME NEW h \in Host
    PROVE  Fingerprint[h] \in Name /\ Pending \in Name /\ Fingerprint[h] # NoRow /\ Pending # NoRow
BY RegistryAssumption DEF Name, RegistryAssumption

LEMMA AuthTurn ==
    ASSUME Core, NEW c \in Open, NEW r \in SessionRecord, Keeps(c, r), SameLink(c, r),
           InAuth(c), r.pc \in {"byName", "create", "name", "answer"},
           r.pc \in {"name", "answer"} => r.id \in AgentId,
           UNCHANGED <<proc, agents, chans>>
    PROVE  SessionTypes' /\ SessionInv' /\ ProcInv' /\ ListenInv' /\ Open' = Open
<1>1. sessions[c].wire = <<>> /\ sessions[c].ch = NoChannel
  BY CoreTypes DEF Sound, InAuth
<1>2. Sound(r)
  BY <1>1, RegistryAssumption DEF Sound, SameLink, RegistryAssumption
<1>3. r.pc \notin Streams /\ sessions[c].pc \notin Streams
  BY DEF Streams, InAuth
<1>4. SessionTypes' /\ SessionInv' /\ ProcInv' /\ Open' = Open
  BY <1>2, <1>3, HandlerLinks
<1>5. ListenInv'
  <2>1. ASSUME NEW d \in Open', sessions'[d].pc \in {"idle"} \cup Streams
        PROVE  d \in Open /\ sessions'[d] = sessions[d]
    <3>1. d # c
      BY <2>1, <1>3 DEF Keeps, Turns
    <3> QED
      BY <1>4, <2>1, <3>1 DEF Keeps, Turns, Open
  <2> QED
    BY <2>1, ListenFrame
<1> QED
  BY <1>4, <1>5

LEMMA AuthCore ==
    ASSUME Core, NEW c \in Session,
           LookUpId(c) \/ LookUpName(c) \/ LookUpFails(c) \/ NamePlaceholder(c)
           \/ \E i \in AgentId : CreatePlaceholderAgent(c, i)
    PROVE  Core'
<1>1. SessionTypes /\ DataTypes
  BY TypesSplit DEF Core
<1>2. UNCHANGED <<agents, chans, disk, proc, sent, got>>
  BY DEF LookUpId, LookUpName, LookUpFails, NamePlaceholder, CreatePlaceholderAgent, AuthAt
<1>3. c \in Open /\ InAuth(c)
  BY <1>1, OpenSession
     DEF LookUpId, LookUpName, LookUpFails, NamePlaceholder, CreatePlaceholderAgent, AuthAt,
         InAuth
<1>4. sessions[c].host \in Host
  BY <1>3, CoreTypes, RecordFields
<1>5. sessions[c].pc \in {"byId", "name"} => sessions[c].id \in AgentId
  BY <1>3, CoreTypes
<1>6. \E r \in SessionRecord :
         /\ Keeps(c, r) /\ SameLink(c, r)
         /\ r.pc \in {"byName", "create", "name", "answer"}
         /\ r.pc \in {"name", "answer"} => r.id \in AgentId
  <2>1. CASE LookUpId(c)
    BY <1>1, <1>5, <2>1, LookUpIdTurns DEF LookUpId, AuthAt
  <2>2. CASE LookUpName(c)
    BY <1>1, <2>2, LookUpNameTurns DEF Named
  <2>3. CASE LookUpFails(c)
    BY <1>1, <2>3, LookUpFailsTurns
  <2>4. CASE NamePlaceholder(c)
    <3>1. sessions[c].pc = "name"
      BY <2>4 DEF NamePlaceholder, AuthAt
    <3>2. ~RegisterAgent(c) /\ ~OpenStream(c)
      BY <3>1 DEF RegisterAgent, OpenStream
    <3> QED
      BY <1>1, <1>5, <2>4, <3>1, <3>2, HandlerGoesTurns
  <2>5. CASE \E i \in AgentId : CreatePlaceholderAgent(c, i)
    BY <1>1, <2>5, CreateTurns
  <2> QED
    BY <2>1, <2>2, <2>3, <2>4, <2>5
<1>7. SessionTypes' /\ SessionInv' /\ ProcInv' /\ ListenInv'
  BY <1>2, <1>3, <1>6, AuthTurn
<1>8. rows' \in [AgentId -> Name \cup {NoRow}]
  BY <1>1, <1>4, NamesOfHosts
     DEF LookUpId, LookUpName, LookUpFails, NamePlaceholder, CreatePlaceholderAgent, NameRow,
         DataTypes
<1>9. spoiled' \subseteq Host /\ unnamed' \subseteq Host
  BY <1>1, <1>4
     DEF LookUpId, LookUpName, LookUpFails, NamePlaceholder, CreatePlaceholderAgent, Spoil,
         DataTypes
<1>10. faults' \in 0 .. MaxFaults
  BY <1>1, FaultCounts
     DEF LookUpId, LookUpName, LookUpFails, NamePlaceholder, CreatePlaceholderAgent, DBFails
<1>11. DataTypes'
  BY <1>1, <1>2, <1>8, <1>9, <1>10 DEF DataTypes
<1> QED
  BY <1>7, <1>11, TypesSplit DEF Core

\* RegisterAgent and OpenStream, which give their session its entry.
LEMMA RegisterCore ==
    ASSUME Core, NEW c \in Session, RegisterAgent(c) \/ OpenStream(c)
    PROVE  Core'
<1>1. SessionTypes /\ DataTypes
  BY TypesSplit DEF Core
<1>2. UNCHANGED <<chans, disk, proc, sent, got, spoiled, unnamed>>
  BY DEF RegisterAgent, OpenStream, history
<1>3. c \in Open /\ sessions[c].pc \in {"register", "open"} /\ c \in Session
  BY <1>1, OpenSession DEF RegisterAgent, OpenStream
<1>4. sessions[c].host \in Host /\ sessions[c].id \in AgentId /\ Sound(sessions[c])
  BY <1>3, CoreTypes, RecordFields
<1> DEFINE i == sessions[c].id
<1>5. PICK r \in SessionRecord :
         /\ Keeps(c, r) /\ SameLink(c, r) /\ r.id = i
         /\ \/ sessions[c].pc = "register" /\ r.pc = "idle"
            \/ sessions[c].pc = "open" /\ r.pc = "channel"
  <2>1. CASE RegisterAgent(c)
    <3>1. ~NamePlaceholder(c) /\ ~OpenStream(c) /\ sessions[c].pc = "register"
      BY <2>1 DEF RegisterAgent, NamePlaceholder, OpenStream, AuthAt
    <3> QED
      BY <1>1, <2>1, <3>1, HandlerGoesTurns
  <2>2. CASE OpenStream(c)
    <3>1. ~NamePlaceholder(c) /\ ~RegisterAgent(c) /\ sessions[c].pc = "open"
      BY <2>2 DEF RegisterAgent, NamePlaceholder, OpenStream, AuthAt
    <3> QED
      BY <1>1, <2>2, <3>1, HandlerGoesTurns
  <2> QED
    BY <2>1, <2>2
<1>6. Sound(r)
  BY <1>3, <1>4, <1>5 DEF Sound, SameLink, Keeps
<1>7. SessionTypes' /\ SessionInv' /\ ProcInv' /\ Open' = Open
  <2>1. r.pc \in Streams <=> sessions[c].pc \in Streams
    BY <1>5 DEF Streams
  <2> QED
    BY <1>2, <1>3, <1>5, <1>6, <2>1, HandlerLinks
<1>8. /\ agents' \in [AgentId -> Channel \cup {NoChannel}]
      /\ agents'[i] # NoChannel
      /\ \A j \in AgentId \ {i} : agents'[j] = agents[j]
      /\ agents' = agents \/ (agents[i] = NoChannel /\ agents'[i] \in Unused)
  <2>1. CASE Register(i)
    BY <1>4, <2>1, RegisterGives, RegistryAssumption DEF RegistryAssumption
  <2>2. CASE ~Register(i)
    <3>1. agents' = agents /\ sessions[c].pc = "open"
      BY <2>2 DEF RegisterAgent, OpenStream
    <3>2. agents[i] # NoChannel
      BY <1>3, <3>1 DEF Core, ListenInv, Streams
    <3> QED
      BY <1>1, <3>1, <3>2 DEF DataTypes
  <2> QED
    BY <2>1, <2>2
<1>9. ListenInv'
  <2>1. ASSUME NEW j \in AgentId, NEW k \in AgentId,
               agents'[j] # NoChannel, agents'[j] = agents'[k], j # k
        PROVE  FALSE
    BY <1>8, <2>1 DEF Core, ListenInv, Unused
  <2>2. ASSUME NEW d \in Open'
        PROVE  /\ sessions'[d].pc \in {"idle"} \cup Streams => agents'[sessions'[d].id] # NoChannel
               /\ sessions'[d].pc \in {"loop", "send"} => sessions'[d].ch = agents'[sessions'[d].id]
    <3>1. CASE d = c
      BY <1>5, <1>8, <3>1 DEF Keeps, Turns, Streams
    <3>2. CASE d # c
      <4>1. sessions'[d] = sessions[d] /\ d \in Open
        BY <1>5, <1>7, <2>2, <3>2 DEF Keeps, Turns, Open
      <4>2. sessions[d].pc \in {"idle"} \cup Streams => sessions[d].id \in AgentId
        BY <4>1, CoreTypes DEF Streams
      <4>3. sessions[d].pc \in {"idle"} \cup Streams =>
               agents[sessions[d].id] # NoChannel /\ agents'[sessions[d].id] = agents[sessions[d].id]
        <5>1. sessions[d].pc \in {"idle"} \cup Streams => agents[sessions[d].id] # NoChannel
          BY <4>1 DEF Core, ListenInv
        <5> QED
          BY <1>8, <4>2, <5>1
      <4>4. sessions[d].pc \in {"loop", "send"} => sessions[d].ch = agents[sessions[d].id]
        BY <4>1 DEF Core, ListenInv
      <4> QED
        BY <4>1, <4>3, <4>4 DEF Streams
    <3> QED
      BY <3>1, <3>2
  <2>3. NoCommandStranded'
    <3>1. ASSUME NEW j \in AgentId, NEW k \in Channel, agents[j] = k PROVE agents'[j] = k
      BY <1>8, <3>1, RegistryAssumption DEF RegistryAssumption
    <3> QED
      BY <1>2, <3>1 DEF Core, ListenInv, NoCommandStranded
  <2> QED
    BY <2>1, <2>2, <2>3 DEF ListenInv
<1>10. rows' \in [AgentId -> Name \cup {NoRow}]
  BY <1>1, <1>4, NamesOfHosts DEF RegisterAgent, OpenStream, NameRow, DataTypes
<1>11. faults' \in 0 .. MaxFaults
  BY <1>1, FaultCounts DEF RegisterAgent, OpenStream, DBFails
<1>12. DataTypes'
  BY <1>1, <1>2, <1>8, <1>10, <1>11 DEF DataTypes
<1> QED
  BY <1>7, <1>9, <1>12, TypesSplit DEF Core

LEMMA ChannelCore ==
    ASSUME Core, NEW c \in Session, GetCommandChannel(c)
    PROVE  Core'
<1>1. SessionTypes /\ DataTypes
  BY TypesSplit DEF Core
<1>2. UNCHANGED <<rows, agents, chans, disk, proc, sent, got, spoiled, unnamed, faults>>
  BY DEF GetCommandChannel, history, serverVars
<1>3. c \in Open /\ sessions[c].pc = "channel" /\ c \in Session
  BY <1>1, OpenSession DEF GetCommandChannel
<1>4. sessions[c].id \in AgentId /\ Sound(sessions[c])
  BY <1>3, CoreTypes
<1>5. PICK r \in SessionRecord :
         /\ Keeps(c, r) /\ r.pc = "loop" /\ r.id = sessions[c].id
         /\ r.ch = agents[sessions[c].id] /\ r.cmd = sessions[c].cmd /\ r.wire = sessions[c].wire
  BY <1>1, <1>4, ChannelTurns DEF DataTypes
<1>6. Sound(r)
  BY <1>3, <1>4, <1>5, RegistryAssumption DEF Sound, RegistryAssumption
<1>7. SessionTypes' /\ SessionInv' /\ ProcInv' /\ Open' = Open
  <2>1. r.pc \in Streams <=> sessions[c].pc \in Streams
    BY <1>3, <1>5 DEF Streams
  <2> QED
    BY <1>2, <1>3, <1>5, <1>6, <2>1, HandlerLinks
<1>8. ListenInv'
  <2>1. \A d \in Open \ {c} : sessions'[d] = sessions[d]
    BY <1>5 DEF Keeps, Turns, Open
  <2>2. sessions'[c] = r /\ agents[sessions[c].id] # NoChannel
    BY <1>3, <1>5 DEF Keeps, Turns, Core, ListenInv, Streams
  <2>3. \A d \in Open :
          /\ sessions'[d].pc \in {"idle"} \cup Streams => agents[sessions'[d].id] # NoChannel
          /\ sessions'[d].pc \in {"loop", "send"} => sessions'[d].ch = agents[sessions'[d].id]
    BY <1>5, <2>1, <2>2 DEF Core, ListenInv
  <2> QED
    BY <1>2, <1>7, <2>3 DEF Core, ListenInv, NoCommandStranded
<1>9. DataTypes'
  BY <1>1, <1>2 DEF DataTypes
<1> QED
  BY <1>7, <1>8, <1>9, TypesSplit DEF Core

\* Taking and sending stay within the loop and its channel.
LEMMA LoopTurn ==
    ASSUME Core, NEW c \in Open, NEW r \in SessionRecord, Keeps(c, r), Sound(r),
           r.pc \in {"loop", "send"}, sessions[c].pc \in {"loop", "send"},
           r.id = sessions[c].id, r.ch = sessions[c].ch,
           UNCHANGED <<proc, agents>>,
           \A k \in Channel : chans[k] = <<>> => chans'[k] = <<>>
    PROVE  SessionTypes' /\ SessionInv' /\ ProcInv' /\ ListenInv' /\ Open' = Open
<1>1. SessionTypes' /\ SessionInv' /\ ProcInv' /\ Open' = Open
  <2>1. r.pc \in Streams /\ sessions[c].pc \in Streams
    BY DEF Streams
  <2> QED
    BY <2>1, HandlerLinks
<1>2. \A d \in Open \ {c} : sessions'[d] = sessions[d]
  BY DEF Keeps, Turns, Open
<1>3. sessions'[c] = r /\ agents[r.id] # NoChannel /\ r.ch = agents[r.id]
  BY DEF Keeps, Turns, Core, ListenInv, Streams
<1>4. \A d \in Open :
        /\ sessions'[d].pc \in {"idle"} \cup Streams => agents[sessions'[d].id] # NoChannel
        /\ sessions'[d].pc \in {"loop", "send"} => sessions'[d].ch = agents[sessions'[d].id]
  BY <1>2, <1>3 DEF Core, ListenInv
<1> QED
  BY <1>1, <1>4 DEF Core, ListenInv, NoCommandStranded

LEMMA TakeCore ==
    ASSUME Core, NEW c \in Session, TakeCommand(c)
    PROVE  Core'
<1>1. SessionTypes /\ DataTypes
  BY TypesSplit DEF Core
<1>2. UNCHANGED <<rows, agents, disk, proc, sent, got, spoiled, unnamed, faults>>
  BY DEF TakeCommand, history
<1>3. /\ c \in Open /\ sessions[c].pc = "loop" /\ sessions[c].ch \in Channel
      /\ chans[sessions[c].ch] # <<>>
      /\ chans' = [chans EXCEPT ![sessions[c].ch] = Tail(@)]
  BY <1>1, TakeTurns DEF DataTypes
<1>4. PICK r \in SessionRecord :
         /\ Keeps(c, r) /\ r.pc = "send" /\ r.id = sessions[c].id
         /\ r.ch = sessions[c].ch /\ r.wire = sessions[c].wire
         /\ r.cmd = Head(chans[sessions[c].ch]) /\ r.cmd \in 1 .. MaxCommands
  BY <1>1, TakeTurns DEF DataTypes
<1>5. Sound(sessions[c])
  BY <1>3, CoreTypes
<1>6. Sound(r)
  <2>1. r.id # NoId /\ r.cmd # 0
    BY <1>3, <1>4, <1>5 DEF Sound
  <2>2. r.live \/ r.wire = <<>>
    BY <1>3, <1>4, <1>5 DEF Sound, Keeps
  <2> QED
    BY <1>4, <2>1, <2>2 DEF Sound
<1> DEFINE k == sessions[c].ch
           q == chans[k]
<1>7. q \in Seq(1 .. MaxCommands) /\ q # <<>> /\ Len(q) <= ChannelCapacity
  BY <1>1, <1>3 DEF DataTypes
<1>8. Tail(q) \in Seq(1 .. MaxCommands) /\ Len(Tail(q)) <= ChannelCapacity
  <2>1. Tail(q) \in Seq(1 .. MaxCommands) /\ Len(Tail(q)) = Len(q) - 1 /\ Len(q) \in Nat
    BY <1>7, HeadTailProperties, LenProperties
  <2> QED
    BY <1>7, <2>1, RegistryAssumption DEF RegistryAssumption
<1>9. /\ chans'[k] = Tail(q) /\ \A j \in Channel \ {k} : chans'[j] = chans[j]
      /\ DOMAIN chans' = Channel
  BY <1>1, <1>3 DEF DataTypes
<1>10. SessionTypes' /\ SessionInv' /\ ProcInv' /\ ListenInv'
  <2>1. \A j \in Channel : chans[j] = <<>> => chans'[j] = <<>>
    BY <1>3, <1>9
  <2> QED
    BY <1>2, <1>3, <1>4, <1>6, <2>1, LoopTurn
<1>11. /\ chans' \in [Channel -> Seq(1 .. MaxCommands)]
       /\ \A j \in Channel : Len(chans'[j]) <= ChannelCapacity
  <2> HIDE DEF q, k
  <2>1. chans' \in [Channel -> Seq(1 .. MaxCommands)]
    BY <1>1, <1>3, <1>8 DEF DataTypes, q, k
  <2>2. \A j \in Channel : Len(chans'[j]) <= ChannelCapacity
    BY <1>1, <1>8, <1>9 DEF DataTypes
  <2> QED
    BY <2>1, <2>2
<1>12. DataTypes'
  BY <1>1, <1>2, <1>11 DEF DataTypes
<1> QED
  BY <1>10, <1>12, TypesSplit DEF Core

LEMMA SendCore ==
    ASSUME Core, NEW c \in Session, Send(c)
    PROVE  Core'
<1>1. SessionTypes /\ DataTypes
  BY TypesSplit DEF Core
<1>2. UNCHANGED <<rows, agents, chans, disk, proc, sent, got, spoiled, unnamed, faults>>
  BY DEF Send, history, serverVars
<1>3. c \in Open /\ sessions[c].pc = "send" /\ Sound(sessions[c])
  BY <1>1, OpenSession, CoreTypes DEF Send
<1>4. PICK r \in SessionRecord :
         /\ Keeps(c, r) /\ r.pc = "loop" /\ r.id = sessions[c].id
         /\ r.ch = sessions[c].ch /\ r.cmd = 0
         /\ r.wire = IF sessions[c].live THEN Append(sessions[c].wire, sessions[c].cmd)
                     ELSE sessions[c].wire
  BY <1>1, <1>3, SendTurns DEF Sound
<1>5. Sound(r)
  <2>1. r.live \/ r.wire = <<>>
    BY <1>3, <1>4 DEF Sound, Keeps
  <2> QED
    BY <1>3, <1>4, <2>1 DEF Sound
<1>6. SessionTypes' /\ SessionInv' /\ ProcInv' /\ ListenInv'
  BY <1>2, <1>3, <1>4, <1>5, LoopTurn
<1>7. DataTypes'
  BY <1>1, <1>2 DEF DataTypes
<1> QED
  BY <1>6, <1>7, TypesSplit DEF Core

\* CreateFails and HandlerReturns: the session is over.
LEMMA CloseCore ==
    ASSUME Core, NEW c \in Session, CreateFails(c) \/ HandlerReturns(c)
    PROVE  Core'
<1>1. SessionTypes /\ DataTypes
  BY TypesSplit DEF Core
<1>2. UNCHANGED <<agents, chans, disk, sent, got, spoiled, unnamed>>
  BY DEF CreateFails, HandlerReturns, history, serverVars
<1>3. c \in Open /\ Turns(c, Closed)
  BY <1>1, OpenSession DEF CreateFails, HandlerReturns, Turns, SessionTypes
<1>4. SessionTypes' /\ Open' = Open \ {c}
  BY <1>1, <1>3, TurnTypes
<1>5. \A d \in Open' : sessions'[d] = sessions[d] /\ d \in Open /\ d # c
  BY <1>3, <1>4 DEF Turns, Open
<1>6. proc' = [h \in Host |-> IF proc[h].session = c THEN Reconnecting(h) ELSE proc[h]]
  <2>1. CASE CreateFails(c)
    BY <2>1 DEF CreateFails
  <2>2. CASE HandlerReturns(c)
    <3>1. proc' = proc /\ ~sessions[c].live
      BY <2>2 DEF HandlerReturns
    <3>2. \A h \in Host : proc[h].session # c
      BY <1>3, <3>1, RegistryAssumption DEF Core, SessionInv, ProcInv, Open, RegistryAssumption
    <3> QED
      BY <1>1, <3>1, <3>2 DEF DataTypes
  <2> QED
    BY <2>1, <2>2
<1>7. \A h \in Host : proc[h].session = c =>
         /\ proc'[h].pc = "register" /\ proc'[h].id = proc[h].id
         /\ proc'[h].session = NoSession
  BY <1>6 DEF Reconnecting
<1>8. SessionInv'
  <2>1. ASSUME NEW d \in Open' PROVE sessions'[d].live <=> proc'[sessions'[d].host].session = d
    <3>1. sessions[d].host \in Host /\ d \in Session /\ d # NoSession
      BY <1>5, CoreTypes, RecordFields, RegistryAssumption DEF RegistryAssumption
    <3>2. sessions[d].live <=> proc[sessions[d].host].session = d
      BY <1>5 DEF Core, SessionInv
    <3>3. proc'[sessions[d].host].session = d <=> proc[sessions[d].host].session = d
      BY <1>5, <1>6, <1>7, <3>1
    <3> QED
      BY <1>5, <3>2, <3>3
  <2> QED
    BY <1>5, <2>1 DEF Core, SessionInv
<1>9. ProcInv'
  <2>1. ASSUME NEW h \in Host, proc[h].session = c
        PROVE  /\ proc'[h].session = NoSession /\ proc'[h].pc # "stream"
    BY <1>7, <2>1
  <2>2. ASSUME NEW h \in Host, proc[h].session # c, proc[h].session # NoSession
        PROVE  /\ proc'[h] = proc[h] /\ proc[h].session \in Open'
               /\ sessions'[proc[h].session] = sessions[proc[h].session]
    BY <1>4, <1>5, <1>6, <2>2 DEF Core, ProcInv
  <2>3. \A h \in Host : proc[h].session # c => proc'[h] = proc[h]
    BY <1>6
  <2> QED
    BY <2>1, <2>2, <2>3 DEF Core, ProcInv
<1>10. ListenInv'
  BY <1>2, <1>5, ListenFrame
<1>11. rows' \in [AgentId -> Name \cup {NoRow}]
  BY <1>1, NamesOfHosts DEF CreateFails, HandlerReturns, DataTypes, Name, serverVars
<1>12. faults' \in 0 .. MaxFaults
  BY <1>1, FaultCounts DEF CreateFails, HandlerReturns, DBFails
<1>13. proc' \in [Host -> Process]
  <2>1. \A h \in Host : proc'[h] \in Process
    BY <1>1, <1>6 DEF DataTypes, Reconnecting, Process
  <2> QED
    BY <1>6, <2>1
<1>14. DataTypes'
  BY <1>1, <1>2, <1>11, <1>12, <1>13 DEF DataTypes
<1> QED
  BY <1>4, <1>8, <1>9, <1>10, <1>14, TypesSplit DEF Core

-----------------------------------------------------------------------------
\* The same for the steps of an agent.
LEMMA AgentLinks ==
    ASSUME Core, NEW h \in Host, NEW c \in Open, NEW r \in SessionRecord,
           proc[h].session = c, Keeps(c, r), Sound(r),
           NEW p \in Process, proc' = [proc EXCEPT ![h] = p], p.session = c, p.pc # "down",
           p.pc \in {"stream", "obey"} <=> r.pc \in Streams
    PROVE  SessionTypes' /\ SessionInv' /\ ProcInv' /\ Open' = Open
<1>1. c \in Session /\ SessionTypes /\ c # NoSession
  BY CoreTypes, RegistryAssumption DEF RegistryAssumption
<1>2. SessionTypes' /\ Open' = Open
  <2>1. r # Closed
    BY RecordFields
  <2> QED
    BY <1>1, <2>1, TurnTypes DEF Keeps
<1>3. /\ sessions'[c] = r /\ r.host = h /\ r.live = sessions[c].live /\ sessions[c].host = h
      /\ \A d \in Open \ {c} : sessions'[d] = sessions[d]
  BY <1>1 DEF Keeps, Turns, Open, Core, ProcInv
<1>4. proc'[h] = p /\ \A g \in Host \ {h} : proc'[g] = proc[g]
  BY DEF Core, RegistryTypeOK
<1>5. \A g \in Host : proc'[g].session = proc[g].session
  BY <1>4
<1>6. SessionInv'
  <2>1. ASSUME NEW d \in Open
        PROVE  sessions'[d].live <=> proc'[sessions'[d].host].session = d
    <3>1. sessions[d].host \in Host /\ sessions'[d].host = sessions[d].host
          /\ sessions'[d].live = sessions[d].live
      BY <1>3, CoreTypes, RecordFields
    <3> QED
      BY <1>5, <3>1 DEF Core, SessionInv
  <2> QED
    BY <1>2, <1>3, <2>1 DEF Core, SessionInv
<1>7. ProcInv'
  <2>1. ASSUME NEW g \in Host \ {h}, proc[g].session # NoSession
        PROVE  proc[g].session # c /\ sessions'[proc[g].session] = sessions[proc[g].session]
    BY <1>3, <2>1 DEF Core, ProcInv
  <2> QED
    BY <1>1, <1>2, <1>3, <1>4, <2>1 DEF Core, ProcInv
<1> QED
  BY <1>2, <1>6, <1>7

\* The current session of h, when it has one.
LEMMA CurrentSession ==
    ASSUME Core, NEW h \in Host, proc[h].session # NoSession
    PROVE  /\ proc[h].session \in Open /\ proc[h].session \in Session
           /\ sessions[proc[h].session].host = h /\ sessions[proc[h].session].live
           /\ Sound(sessions[proc[h].session]) /\ sessions[proc[h].session] \in SessionRecord
<1>1. proc[h].session \in Open /\ sessions[proc[h].session].host = h
  BY DEF Core, ProcInv
<1>2. sessions[proc[h].session].live
  BY <1>1 DEF Core, SessionInv
<1> QED
  BY <1>1, <1>2, CoreTypes

LEMMA CallCore ==
    ASSUME Core, NEW h \in Host, CallAuth(h)
    PROVE  Core'
<1>1. SessionTypes /\ DataTypes
  BY TypesSplit DEF Core
<1>2. UNCHANGED <<rows, agents, chans, disk, sent, got, spoiled, unnamed, faults>>
  BY DEF CallAuth, history, serverVars
<1>3. proc[h].pc = "register" /\ proc[h].session = NoSession
  BY DEF CallAuth
<1>4. PICK c \in Session \ Open, id \in {LoadAgentID(h), proc[h].id} :
         /\ id = IF LoadAgentID(h) # NoId THEN LoadAgentID(h) ELSE proc[h].id
         /\ proc' = [proc EXCEPT ![h].id = id, ![h].session = c]
         /\ \E r \in SessionRecord :
               /\ Turns(c, r) /\ r.host = h /\ r.live /\ r.id = id
               /\ r.pc = IF id = NoId THEN "byName" ELSE "byId"
               /\ r.ch = NoChannel /\ r.cmd = 0 /\ r.wire = <<>>
  BY <1>1, CallTurns, CoreTypes
<1>5. PICK r \in SessionRecord :
               /\ Turns(c, r) /\ r.host = h /\ r.live /\ r.id = id
               /\ r.pc = IF id = NoId THEN "byName" ELSE "byId"
               /\ r.ch = NoChannel /\ r.cmd = 0 /\ r.wire = <<>>
  BY <1>4
<1>6. Sound(r)
  BY <1>5 DEF Sound
<1>7. SessionTypes' /\ Open' = Open \cup {c} /\ sessions'[c] = r
      /\ \A d \in Open : sessions'[d] = sessions[d]
  <2>1. r # Closed
    BY RecordFields
  <2> QED
    BY <1>1, <1>4, <1>5, <2>1, TurnTypes DEF Turns, Open
<1>8. c # NoSession /\ \A g \in Host : proc[g].session # c
  BY <1>4, RegistryAssumption DEF RegistryAssumption, Core, ProcInv
<1>9. /\ proc'[h].pc = "register" /\ proc'[h].id = id /\ proc'[h].session = c
      /\ \A g \in Host \ {h} : proc'[g] = proc[g]
      /\ proc' \in [Host -> Process]
  <2>1. id \in AgentId \cup {NoId} /\ c \in Session /\ proc[h] \in Process
    BY <1>4, CoreTypes
  <2>2. [proc[h] EXCEPT !.id = id, !.session = c] \in Process
    BY <2>1 DEF Process
  <2>3. proc' = [proc EXCEPT ![h] = [proc[h] EXCEPT !.id = id, !.session = c]]
    BY <1>1, <1>4 DEF DataTypes
  <2>4. proc'[h] = [proc[h] EXCEPT !.id = id, !.session = c]
    BY <1>1, <2>3 DEF DataTypes
  <2>5. proc'[h].pc = "register" /\ proc'[h].id = id /\ proc'[h].session = c
    BY <1>3, <2>1, <2>4 DEF Process
  <2>6. \A g \in Host \ {h} : proc'[g] = proc[g]
    BY <1>1, <2>3 DEF DataTypes
  <2>7. proc' \in [Host -> Process]
    BY <1>1, <2>2, <2>3 DEF DataTypes
  <2> QED
    BY <2>5, <2>6, <2>7
<1>10. SessionInv'
  <2>1. ASSUME NEW d \in Open
        PROVE  sessions'[d].live <=> proc'[sessions'[d].host].session = d
    <3>1. sessions[d].host \in Host /\ d # NoSession /\ d # c
      BY <1>4, CoreTypes, RecordFields, RegistryAssumption DEF RegistryAssumption
    <3>2. sessions[d].live <=> proc[sessions[d].host].session = d
      BY DEF Core, SessionInv
    <3>3. proc'[sessions[d].host].session = d <=> proc[sessions[d].host].session = d
      BY <1>3, <1>9, <3>1
    <3> QED
      BY <1>7, <3>2, <3>3
  <2>2. ASSUME NEW d \in Open PROVE Sound(sessions'[d])
    BY <1>7 DEF Core, SessionInv
  <2>3. sessions'[c].live <=> proc'[sessions'[c].host].session = c
    BY <1>5, <1>7, <1>9
  <2> QED
    BY <1>6, <1>7, <2>1, <2>2, <2>3 DEF SessionInv
<1>11. ProcInv'
  <2>1. sessions'[c].pc \notin Streams
    BY <1>5, <1>7 DEF Streams
  <2>2. ASSUME NEW g \in Host \ {h}, proc[g].session # NoSession
        PROVE  /\ proc[g].session \in Open'
               /\ sessions'[proc[g].session] = sessions[proc[g].session]
    BY <1>7, <2>2 DEF Core, ProcInv
  <2>3. \A g \in Host \ {h} :
        /\ proc'[g].session # NoSession =>
              /\ proc'[g].session \in Open' /\ sessions'[proc'[g].session].host = g
              /\ proc'[g].pc # "down"
              /\ proc'[g].pc \in {"stream", "obey"} <=> sessions'[proc'[g].session].pc \in Streams
        /\ proc'[g].pc = "stream" => proc'[g].session # NoSession
    BY <1>9, <2>2 DEF Core, ProcInv
  <2> QED
    BY <1>5, <1>7, <1>9, <2>1, <2>3 DEF ProcInv
<1>12. ListenInv'
  <2>1. \A d \in Open' : sessions'[d].pc \in {"idle"} \cup Streams => d \in Open /\ sessions'[d] = sessions[d]
    BY <1>5, <1>7 DEF Streams
  <2> QED
    BY <1>2, <2>1, ListenFrame
<1>13. DataTypes'
  BY <1>1, <1>2, <1>9 DEF DataTypes
<1> QED
  BY <1>7, <1>10, <1>11, <1>12, <1>13, TypesSplit DEF Core

LEMMA AnswerCore ==
    ASSUME Core, NEW h \in Host, AuthAnswered(h) \/ CallStreamJobs(h)
    PROVE  Core'
<1> DEFINE c == proc[h].session
<1>1. SessionTypes /\ DataTypes
  BY TypesSplit DEF Core
<1>2. UNCHANGED <<rows, agents, chans, sent, got, spoiled, unnamed>>
  BY DEF AuthAnswered, CallStreamJobs, history, serverVars
<1>3. c # NoSession
  BY DEF AuthAnswered, CallStreamJobs
<1>4. /\ c \in Open /\ c \in Session /\ sessions[c].host = h /\ sessions[c].live
      /\ Sound(sessions[c]) /\ proc[h] \in Process
  BY <1>3, CurrentSession, CoreTypes
<1>5. /\ sessions[c].pc \in {"answer", "idle"} /\ sessions[c].id \in AgentId
      /\ proc[h].pc \notin {"stream", "obey"} /\ proc[h].pc # "down"
  <2>1. sessions[c].pc \in {"answer", "idle"}
    BY DEF AuthAnswered, CallStreamJobs
  <2> QED
    BY <1>3, <1>4, <2>1, CoreTypes DEF Core, ProcInv, Streams
<1>6. \E r \in SessionRecord, p \in Process :
         /\ Keeps(c, r) /\ SameLink(c, r) /\ r.id = sessions[c].id
         /\ proc' = [proc EXCEPT ![h] = p] /\ p.session = c
         /\ \/ r.pc = "register" /\ p.pc = "register"
            \/ sessions[c].pc = "idle" /\ r.pc = "open" /\ p.pc = "stream"
  <2>1. CASE AuthAnswered(h)
    <3> DEFINE p == [proc[h] EXCEPT !.id = sessions[c].id]
    <3>1. p \in Process /\ p.session = c /\ p.pc = "register"
      BY <1>4, <1>5 DEF Process
    <3>2. proc' = [proc EXCEPT ![h] = p]
      BY <1>1, <2>1 DEF AuthAnswered, DataTypes
    <3>3. \E r \in SessionRecord : /\ Keeps(c, r) /\ SameLink(c, r) /\ r.id = sessions[c].id
                                   /\ r.pc = "register"
      <4>1. "register" \in Call /\ Goes(c, "register")
        BY <2>1 DEF AuthAnswered, Call
      <4> QED
        BY <1>1, <1>4, <4>1, GoesTurns DEF Keeps, SameLink
    <3> HIDE DEF p
    <3> QED
      BY <3>1, <3>2, <3>3
  <2>2. CASE CallStreamJobs(h)
    <3> DEFINE p == [proc[h] EXCEPT !.pc = "stream"]
    <3>1. p \in Process /\ p.session = c /\ p.pc = "stream"
      BY <1>4 DEF Process
    <3>2. proc' = [proc EXCEPT ![h] = p] /\ sessions[c].pc = "idle"
      BY <1>1, <2>2 DEF CallStreamJobs, DataTypes
    <3>3. \E r \in SessionRecord : /\ Keeps(c, r) /\ SameLink(c, r) /\ r.id = sessions[c].id
                                   /\ r.pc = "open"
      <4>1. "open" \in Call /\ Goes(c, "open")
        BY <2>2 DEF CallStreamJobs, Call
      <4> QED
        BY <1>1, <1>4, <4>1, GoesTurns DEF Keeps, SameLink
    <3> HIDE DEF p
    <3> QED
      BY <3>1, <3>2, <3>3
  <2> QED
    BY <2>1, <2>2
<1>7. PICK r \in SessionRecord, p \in Process :
         /\ Keeps(c, r) /\ SameLink(c, r) /\ r.id = sessions[c].id
         /\ proc' = [proc EXCEPT ![h] = p] /\ p.session = c
         /\ \/ r.pc = "register" /\ p.pc = "register"
            \/ sessions[c].pc = "idle" /\ r.pc = "open" /\ p.pc = "stream"
  BY <1>6
<1> HIDE DEF c
<1>8. SessionTypes' /\ SessionInv' /\ ProcInv' /\ Open' = Open
  <2>1. Sound(r)
    <3>1. sessions[c].wire = <<>> /\ sessions[c].ch = NoChannel
      BY <1>4, <1>5 DEF Sound
    <3> QED
      BY <1>4, <1>5, <1>7, <3>1, RegistryAssumption DEF Sound, SameLink, Keeps, RegistryAssumption
  <2>2. p.pc \in {"stream", "obey"} <=> r.pc \in Streams
    BY <1>7 DEF Streams
  <2> QED
    BY <1>4, <1>7, <2>1, <2>2, AgentLinks DEF c
<1>9. ListenInv'
  <2>1. \A d \in Open' \ {c} : d \in Open /\ sessions'[d] = sessions[d]
    BY <1>7, <1>8 DEF Keeps, Turns, Open
  <2>2. sessions'[c] = r
    BY <1>7 DEF Keeps, Turns
  <2>3. /\ sessions'[c].pc \notin {"loop", "send"} /\ sessions'[c].id = sessions[c].id
        /\ sessions'[c].pc \in {"idle"} \cup Streams => sessions[c].pc \in {"idle"} \cup Streams
    BY <1>7, <2>2 DEF Streams
  <2> QED
    BY <1>2, <1>4, <2>1, <2>3, ListenFrame
<1>10. proc' \in [Host -> Process]
  BY <1>1, <1>7 DEF DataTypes
<1>11. disk' \in [Host -> Identity \cup {NoIdentity}] /\ faults' \in 0 .. MaxFaults
  <2>1. CASE AuthAnswered(h)
    <3>1. [id |-> sessions[c].id, fingerprint |-> Fingerprint[h]] \in Identity
      BY <1>5, NamesOfHosts DEF Identity, c
    <3>2. disk' = disk \/ SaveAgentID(h, sessions[c].id)
      BY <2>1 DEF AuthAnswered, c
    <3>3. faults' \in 0 .. MaxFaults
      BY <1>1, <2>1, FaultCounts DEF AuthAnswered
    <3> QED
      BY <1>1, <3>1, <3>2, <3>3 DEF SaveAgentID, DataTypes
  <2>2. CASE CallStreamJobs(h)
    BY <1>1, <2>2 DEF CallStreamJobs, DataTypes
  <2> QED
    BY <2>1, <2>2
<1>12. DataTypes'
  BY <1>1, <1>2, <1>10, <1>11 DEF DataTypes
<1> QED
  BY <1>8, <1>9, <1>12, TypesSplit DEF Core

LEMMA ReceiveCore ==
    ASSUME Core, NEW h \in Host, Receive(h)
    PROVE  Core'
<1> DEFINE c == proc[h].session
<1>1. SessionTypes /\ DataTypes
  BY TypesSplit DEF Core
<1>2. UNCHANGED <<rows, agents, chans, disk, sent, spoiled, unnamed, faults>>
  BY DEF Receive, serverVars
<1>3. proc[h].pc = "stream" /\ c # NoSession /\ sessions[c].wire # <<>>
  BY DEF Receive, Core, ProcInv
<1>4. /\ c \in Open /\ c \in Session /\ sessions[c].live /\ Sound(sessions[c])
      /\ sessions[c] \in SessionRecord /\ proc[h] \in Process
  BY <1>3, CurrentSession, CoreTypes
<1>5. sessions[c].pc \in {"loop", "send"}
  BY <1>3, <1>4 DEF Sound
<1>6. PICK r \in SessionRecord :
         /\ Keeps(c, r) /\ r.pc = sessions[c].pc /\ r.id = sessions[c].id
         /\ r.ch = sessions[c].ch /\ r.cmd = sessions[c].cmd
         /\ r.wire = Tail(sessions[c].wire)
  BY <1>1, <1>4, ReceiveTurns
<1> DEFINE p == [proc[h] EXCEPT !.pc = "obey"]
<1>7. p \in Process /\ p.session = c /\ p.pc = "obey"
  BY <1>4 DEF Process
<1>8. proc' = [proc EXCEPT ![h] = p]
  BY <1>1 DEF Receive, DataTypes
<1> HIDE DEF p, c
<1>9. Sound(r)
  BY <1>4, <1>5, <1>6 DEF Sound, Keeps
<1>10. SessionTypes' /\ SessionInv' /\ ProcInv' /\ Open' = Open
  <2>1. r.pc \in Streams
    BY <1>5, <1>6 DEF Streams
  <2> QED
    BY <1>4, <1>6, <1>7, <1>8, <1>9, <2>1, AgentLinks DEF c
<1>11. ListenInv'
  <2>1. \A d \in Open' \ {c} : d \in Open /\ sessions'[d] = sessions[d]
    BY <1>6, <1>10 DEF Keeps, Turns, Open
  <2>2. sessions'[c] = r
    BY <1>6 DEF Keeps, Turns
  <2> QED
    BY <1>2, <1>4, <1>6, <2>1, <2>2, ListenFrame
<1>12. got' \in [AgentId -> 0 .. MaxCommands]
  <2>1. Head(sessions[c].wire) \in 1 .. MaxCommands
    BY <1>3, <1>4, RecordFields, HeadTailProperties DEF c
  <2>2. Head(sessions[c].wire) \in 0 .. MaxCommands
    BY <2>1, RegistryAssumption DEF RegistryAssumption
  <2>3. got' = [got EXCEPT ![sessions[c].id] = Head(sessions[c].wire)]
    BY DEF Receive, c
  <2> QED
    BY <1>1, <2>2, <2>3 DEF DataTypes
<1>13. DataTypes'
  BY <1>1, <1>2, <1>7, <1>8, <1>12 DEF DataTypes
<1> QED
  BY <1>10, <1>11, <1>13, TypesSplit DEF Core

\* The agent of h leaves its session: its handler is alone with it.
LEMMA LeaveLinks ==
    ASSUME Core, NEW h \in Host, Leave(Current(h)), NEW p \in Process,
           proc' = [proc EXCEPT ![h] = p], p.session = NoSession, p.pc # "stream"
    PROVE  SessionTypes' /\ SessionInv' /\ ProcInv' /\ Left(Current(h))
<1> DEFINE cs == Current(h)
<1>1. /\ cs \subseteq Open /\ cs \subseteq Session
      /\ \A d \in cs : sessions[d].host = h /\ d = proc[h].session
  BY CurrentSession DEF Current
<1>2. Left(cs) /\ SessionTypes'
  BY <1>1, CoreTypes, LeaveIsLeft
<1>3. proc'[h] = p /\ \A g \in Host \ {h} : proc'[g] = proc[g]
  BY DEF Core, RegistryTypeOK
<1>4. ASSUME NEW d \in Open' \ cs
      PROVE  /\ d \in Open /\ sessions'[d] = sessions[d] /\ d # NoSession
             /\ d # proc[h].session
  <2>1. d \in Session
    BY <1>4 DEF Open
  <2> QED
    BY <1>2, <1>4, <2>1, RegistryAssumption DEF Left, Open, Current, RegistryAssumption
<1>5. ASSUME NEW d \in Open', d \in cs
      PROVE  /\ sessions'[d] \in SessionRecord /\ sessions'[d].ch = sessions[d].ch
             /\ sessions'[d].pc = sessions[d].pc /\ sessions'[d].host = h
             /\ sessions'[d].cmd = sessions[d].cmd
             /\ sessions'[d].pc \notin {"register", "idle"} /\ sessions'[d].id = sessions[d].id
             /\ ~sessions'[d].live /\ sessions'[d].wire = <<>>
  BY <1>1, <1>2, <1>5 DEF Left, Open
<1> HIDE DEF cs
<1>6. SessionInv'
  <2>1. ASSUME NEW d \in Open', d \notin cs
        PROVE  Sound(sessions'[d]) /\ (sessions'[d].live <=> proc'[sessions'[d].host].session = d)
    <3>1. /\ d \in Open /\ sessions'[d] = sessions[d] /\ d # NoSession
          /\ d # proc[h].session
      BY <1>4, <2>1
    <3>2. Sound(sessions[d]) /\ (sessions[d].live <=> proc[sessions[d].host].session = d)
      BY <3>1 DEF Core, SessionInv
    <3>3. sessions[d].host \in Host
      BY <3>1, CoreTypes, RecordFields
    <3> QED
      BY <1>3, <3>1, <3>2, <3>3
  <2>2. ASSUME NEW d \in Open', d \in cs
        PROVE  Sound(sessions'[d]) /\ (sessions'[d].live <=> proc'[sessions'[d].host].session = d)
    <3>1. Sound(sessions[d]) /\ d # NoSession
      BY <1>1, <2>2, CoreTypes, RegistryAssumption DEF RegistryAssumption
    <3>2. Sound(sessions'[d])
      BY <1>5, <2>2, <3>1 DEF Sound
    <3> QED
      BY <1>3, <1>5, <2>2, <3>1, <3>2
  <2> QED
    BY <2>1, <2>2 DEF SessionInv
<1>7. ProcInv'
  <2>1. ASSUME NEW g \in Host \ {h}, proc[g].session # NoSession
        PROVE  /\ proc[g].session \in Open' /\ sessions'[proc[g].session] = sessions[proc[g].session]
    <3>1. proc[g].session \in Open /\ proc[g].session \in Session /\ sessions[proc[g].session].host = g
      BY <2>1, CurrentSession
    <3>2. proc[g].session \notin cs
      BY <1>1, <2>1, <3>1
    <3>3. sessions'[proc[g].session] = sessions[proc[g].session]
      BY <1>2, <3>1, <3>2 DEF Left, cs
    <3> QED
      BY <3>1, <3>3 DEF Open
  <2> QED
    BY <1>3, <2>1 DEF Core, ProcInv
<1> QED
  BY <1>2, <1>6, <1>7 DEF cs

LEMMA LeaveCore ==
    ASSUME Core, NEW h \in Host, Obey(h) \/ Break(h) \/ AgentCrash(h)
    PROVE  Core'
<1>1. SessionTypes /\ DataTypes
  BY TypesSplit DEF Core
<1>2. UNCHANGED <<rows, agents, chans, sent, got, unnamed>> /\ Leave(Current(h))
  BY DEF Obey, Break, AgentCrash, history, serverVars
<1>3. \E p \in Process :
         proc' = [proc EXCEPT ![h] = p] /\ p.session = NoSession /\ p.pc # "stream"
  <2>1. proc[h] \in Process
    BY CoreTypes
  <2>2. Down \in Process /\ Down.session = NoSession /\ Down.pc # "stream"
    BY DEF Down, Process
  <2>3. Lost(h) \in Process /\ Lost(h).session = NoSession /\ Lost(h).pc # "stream"
    <3>1. CASE proc[h].pc = "obey"
      BY <2>1, <3>1 DEF Lost, Process
    <3>2. CASE proc[h].pc # "obey"
      BY <2>1, <3>2 DEF Lost, Reconnecting, Process
    <3> QED
      BY <3>1, <3>2
  <2> QED
    BY <2>2, <2>3 DEF Obey, Break, AgentCrash
<1>4. SessionTypes' /\ SessionInv' /\ ProcInv' /\ Left(Current(h))
  BY <1>2, <1>3, LeaveLinks
<1>5. ListenInv'
  <2>1. ASSUME NEW d \in Open'
        PROVE  /\ d \in Open
               /\ sessions'[d].pc = sessions[d].pc /\ sessions'[d].ch = sessions[d].ch
               /\ sessions'[d].id = sessions[d].id
    <3>1. d \in Session
      BY DEF Open
    <3>2. CASE d \in Current(h)
      <4>1. d \in Open
        BY <3>2, CurrentSession DEF Current
      <4> QED
        BY <1>4, <2>1, <3>1, <3>2, <4>1 DEF Left, Open
    <3>3. CASE d \notin Current(h)
      BY <1>4, <2>1, <3>1, <3>3 DEF Left, Open
    <3> QED
      BY <3>2, <3>3
  <2> QED
    BY <1>2, <2>1, ListenFrame
<1>6. disk' \in [Host -> Identity \cup {NoIdentity}]
  BY <1>1 DEF Obey, Break, AgentCrash, DataTypes
<1>7. faults' \in 0 .. MaxFaults
  BY <1>1, FaultCounts DEF Obey, Break, AgentCrash, history
<1>8. spoiled' \subseteq Host
  <2>1. spoiled' = spoiled \/ spoiled' = spoiled \cup {sessions[proc[h].session].host}
    BY DEF Obey, Break, AgentCrash, CutShort, Spoil, history
  <2>2. CASE Obey(h)
    BY <1>1, <2>2 DEF Obey, history, DataTypes
  <2>3. CASE Break(h) \/ AgentCrash(h)
    <3>1. proc[h].session # NoSession
      BY <2>3 DEF Break, AgentCrash
    <3>2. sessions[proc[h].session].host = h
      BY <3>1, CurrentSession
    <3> QED
      BY <1>1, <2>1, <3>2 DEF DataTypes
  <2> QED
    BY <2>2, <2>3
<1>9. DataTypes'
  BY <1>1, <1>2, <1>3, <1>6, <1>7, <1>8 DEF DataTypes
<1> QED
  BY <1>4, <1>5, <1>9, TypesSplit DEF Core

\* The steps that change no session.
LEMMA ProcessCore ==
    ASSUME Core,
           \/ \E h \in Host : Start(h) \/ UpdateFails(h)
           \/ \E g, h \in Host : Clone(g, h)
    PROVE  Core'
<1>1. SessionTypes /\ DataTypes
  BY TypesSplit DEF Core
<1>2. UNCHANGED <<rows, agents, chans, sessions, sent, got, spoiled, unnamed>>
  BY DEF Start, UpdateFails, Clone, history, serverVars
<1>3. faults' \in 0 .. MaxFaults
  BY <1>1, FaultCounts DEF Start, UpdateFails, Clone
<1>4. disk' \in [Host -> Identity \cup {NoIdentity}]
  BY <1>1 DEF Start, UpdateFails, Clone, DataTypes
<1>5. /\ proc' \in [Host -> Process]
      /\ \A h \in Host :
            \/ proc'[h] = proc[h]
            \/ proc[h].session = NoSession /\ proc'[h].session = NoSession /\ proc'[h].pc # "stream"
            \/ proc[h].pc = "obey" /\ proc'[h].pc = "stream" /\ proc'[h].session = proc[h].session
               /\ proc[h].session # NoSession
  <2>1. CASE \E h \in Host : Start(h)
    <3>1. PICK h \in Host : Start(h)
      BY <2>1
    <3>2. Reconnecting(h) \in Process /\ Reconnecting(h).session = NoSession
          /\ Reconnecting(h).pc # "stream"
      BY CoreTypes DEF Reconnecting, Process
    <3>3. proc[h].session = NoSession /\ proc' = [proc EXCEPT ![h] = Reconnecting(h)]
      BY <3>1 DEF Start, Core, ProcInv
    <3> QED
      BY <1>1, <3>2, <3>3 DEF DataTypes
  <2>2. CASE \E h \in Host : UpdateFails(h)
    <3>1. PICK h \in Host : UpdateFails(h)
      BY <2>2
    <3>2. Reconnecting(h) \in Process /\ Reconnecting(h).session = NoSession
          /\ Reconnecting(h).pc # "stream" /\ proc[h] \in Process
      BY CoreTypes DEF Reconnecting, Process
    <3> DEFINE p == [proc[h] EXCEPT !.pc = "stream"]
    <3>3. p \in Process /\ p.pc = "stream" /\ p.session = proc[h].session
      BY <3>2 DEF Process
    <3>4. proc' = [proc EXCEPT ![h] = IF proc[h].session = NoSession THEN Reconnecting(h) ELSE p]
          /\ proc[h].pc = "obey"
      BY <1>1, <3>1 DEF UpdateFails, DataTypes
    <3> HIDE DEF p
    <3> QED
      BY <1>1, <3>2, <3>3, <3>4 DEF DataTypes
  <2>3. CASE \E g, h \in Host : Clone(g, h)
    BY <1>1, <2>3 DEF Clone, DataTypes
  <2> QED
    BY <2>1, <2>2, <2>3
<1>6. \A h \in Host : proc'[h].session = proc[h].session
  BY <1>5
<1>7. Open' = Open
  BY <1>2 DEF Open
<1>8. SessionInv'
  <2>1. \A d \in Open : sessions[d].host \in Host
    BY CoreTypes, RecordFields
  <2> QED
    BY <1>2, <1>6, <1>7, <2>1 DEF Core, SessionInv
<1>9. ProcInv'
  BY <1>2, <1>5, <1>7 DEF Core, ProcInv
<1>10. ListenInv'
  BY <1>2, <1>7, ListenFrame
<1>11. SessionTypes' /\ DataTypes'
  BY <1>1, <1>2, <1>3, <1>4, <1>5, <1>7 DEF DataTypes, SessionTypes
<1> QED
  BY <1>8, <1>9, <1>10, <1>11, TypesSplit DEF Core

LEMMA CommandCore ==
    ASSUME Core, NEW i \in AgentId, SendCommand(i)
    PROVE  Core'
<1>1. SessionTypes /\ DataTypes
  BY TypesSplit DEF Core
<1>2. UNCHANGED <<rows, agents, sessions, disk, proc, got, spoiled, unnamed, faults>>
  BY DEF SendCommand
<1>3. sent' = sent + 1 /\ sent' \in 1 .. MaxCommands /\ sent' \in 0 .. MaxCommands
  BY <1>1, RegistryAssumption DEF SendCommand, DataTypes, RegistryAssumption
<1>4. agents[i] \in Channel /\ Len(chans[agents[i]]) < ChannelCapacity
  BY <1>1 DEF SendCommand, HasRoom, DataTypes
<1> DEFINE k == agents[i]
           q == Append(chans[k], sent')
<1>5. chans' = [chans EXCEPT ![k] = q]
  BY DEF SendCommand
<1>6. q \in Seq(1 .. MaxCommands) /\ Len(q) = Len(chans[k]) + 1
  BY <1>1, <1>3, <1>4, AppendProperties DEF DataTypes
<1>7. Len(q) <= ChannelCapacity
  BY <1>1, <1>4, <1>6, LenProperties, RegistryAssumption DEF DataTypes, RegistryAssumption
<1> HIDE DEF q
<1>8. chans' \in [Channel -> Seq(1 .. MaxCommands)]
  BY <1>1, <1>5, <1>6 DEF DataTypes
<1>9. \A j \in Channel : Len(chans'[j]) <= ChannelCapacity
  BY <1>1, <1>4, <1>5, <1>7 DEF DataTypes
<1>10. Open' = Open
  BY <1>2 DEF Open
<1>11. SessionInv' /\ ProcInv' /\ SessionTypes'
  BY <1>1, <1>2, <1>10 DEF Core, SessionInv, ProcInv, SessionTypes
<1>12. ListenInv'
  <2>1. NoCommandStranded'
    BY <1>1, <1>2, <1>4, <1>5 DEF Core, ListenInv, NoCommandStranded, DataTypes
  <2> QED
    BY <1>2, <1>10, <2>1 DEF Core, ListenInv
<1>13. DataTypes'
  BY <1>1, <1>2, <1>3, <1>8, <1>9 DEF DataTypes
<1> QED
  BY <1>11, <1>12, <1>13, TypesSplit DEF Core

LEMMA RestartCore ==
    ASSUME Core, ServerRestart
    PROVE  Core'
<1>1. SessionTypes /\ DataTypes
  BY TypesSplit DEF Core
<1>2. UNCHANGED <<rows, disk, sent, got, spoiled, unnamed>>
  BY DEF ServerRestart, history
<1>3. Open' = {} /\ SessionTypes'
  BY DEF ServerRestart, Open, SessionTypes
<1>4. /\ proc' \in [Host -> Process]
      /\ \A h \in Host : proc'[h].session = NoSession /\ proc'[h].pc # "stream"
  <2>1. ASSUME NEW h \in Host
        PROVE  Lost(h) \in Process /\ Lost(h).session = NoSession /\ Lost(h).pc # "stream"
    <3>1. CASE proc[h].pc = "obey"
      BY <3>1, CoreTypes DEF Lost, Process
    <3>2. CASE proc[h].pc # "obey"
      BY <3>2, CoreTypes DEF Lost, Reconnecting, Process
    <3> QED
      BY <3>1, <3>2
  <2>2. \A h \in Host : proc[h].session = NoSession => proc[h].pc # "stream"
    BY DEF Core, ProcInv
  <2>3. proc' = [h \in Host |-> IF proc[h].session = NoSession THEN proc[h] ELSE Lost(h)]
    BY DEF ServerRestart
  <2> QED
    BY <1>1, <2>1, <2>2, <2>3 DEF DataTypes
<1>5. SessionInv' /\ ProcInv'
  BY <1>3, <1>4 DEF SessionInv, ProcInv
<1>6. /\ agents' = [i \in AgentId |-> NoChannel] /\ chans' = [k \in Channel |-> <<>>]
  BY DEF ServerRestart
<1>7. ListenInv'
  BY <1>3, <1>6 DEF ListenInv, NoCommandStranded
<1>8. /\ agents' \in [AgentId -> Channel \cup {NoChannel}]
      /\ chans' \in [Channel -> Seq(1 .. MaxCommands)]
      /\ \A k \in Channel : Len(chans'[k]) <= ChannelCapacity
  BY <1>6, RegistryAssumption DEF RegistryAssumption
<1>9. faults' \in 0 .. MaxFaults
  BY <1>1, FaultCounts DEF ServerRestart
<1>10. DataTypes'
  BY <1>1, <1>2, <1>4, <1>8, <1>9 DEF DataTypes
<1> QED
  BY <1>3, <1>5, <1>7, <1>10, TypesSplit DEF Core

LEMMA CoreInit ==
    ASSUME Init
    PROVE  Core
<1>1. Open = {} /\ SessionTypes
  BY DEF Init, Open, SessionTypes
<1>2. Down \in Process /\ Down.session = NoSession /\ Down.pc = "down"
  BY DEF Down, Process
<1>3. proc \in [Host -> Process]
  BY <1>2 DEF Init
<1>4. DataTypes
  <2>1. 0 \in 0 .. MaxCommands /\ 0 \in 0 .. MaxFaults /\ 0 <= ChannelCapacity
    BY RegistryAssumption DEF RegistryAssumption
  <2>2. \A k \in Channel : chans[k] = <<>> /\ Len(chans[k]) <= ChannelCapacity
    BY <2>1 DEF Init
  <2> QED
    BY <1>3, <2>1, <2>2 DEF Init, DataTypes
<1>5. SessionInv /\ ProcInv
  BY <1>1, <1>2 DEF Init, SessionInv, ProcInv
<1>6. ListenInv
  BY <1>1 DEF Init, ListenInv, NoCommandStranded
<1> QED
  BY <1>1, <1>4, <1>5, <1>6, TypesSplit DEF Core

LEMMA CoreStep ==
    ASSUME Core, [Next]_vars
    PROVE  Core'
<1>1. CASE Next
  BY <1>1, AuthCore, RegisterCore, ChannelCore, TakeCore, SendCore, CloseCore, CallCore,
     AnswerCore, ReceiveCore, LeaveCore, ProcessCore, CommandCore, RestartCore
     DEF Next, Agent, Auth, StreamJobs, Faults
<1>2. CASE UNCHANGED vars
  BY <1>2 DEF vars, serverVars, history, Core, RegistryTypeOK, SessionInv, ProcInv, ListenInv,
              NoCommandStranded, Open
<1> QED
  BY <1>1, <1>2

LEMMA CoreHolds == RegistrySpec => []Core
<1> QED
  BY CoreInit, CoreStep, PTL DEF RegistrySpec

\* Every variable has its type, for any machines, IDs, sessions and faults.
THEOREM RegistryTypes == RegistrySpec => []RegistryTypeOK
<1>1. Core => RegistryTypeOK
  BY DEF Core
<1> QED
  BY <1>1, CoreHolds, PTL

\* A command that was accepted waits in the channel of an entry: entries are
\* never replaced, and a channel is given only to an entry that has none.
THEOREM NothingStranded == RegistrySpec => []NoCommandStranded
<1>1. Core => NoCommandStranded
  BY DEF Core, ListenInv
<1> QED
  BY <1>1, CoreHolds, PTL

\* A handler in its loop reads the channel that SendCommand writes to, and
\* no other agent has that channel.
THEOREM ReadsItsChannel == RegistrySpec => []ListensToItsChannel
<1>1. Core => ListensToItsChannel
  BY CoreTypes DEF Core, ListenInv, ListensToItsChannel, Streams
<1> QED
  BY <1>1, CoreHolds, PTL

-----------------------------------------------------------------------------
(***************************************************************************)
(* Whose agent an ID is.  A host claims the IDs of its sessions, the one   *)
(* its process has in memory and those saved under its fingerprint; no two *)
(* hosts ever claim the same one.                                          *)
(***************************************************************************)
InSession(h, i) == \E c \in Open : sessions[c].host = h /\ sessions[c].id = i
OnDisk(h, i) == \E g \in Host : /\ disk[g] # NoIdentity /\ disk[g].id = i
                                /\ disk[g].fingerprint = Fingerprint[h]
Claims(h, i) == InSession(h, i) \/ proc[h].id = i \/ OnDisk(h, i)

OwnerInv ==
    /\ \A h \in Host, i \in AgentId :
          Claims(h, i) => rows[i] \in {Fingerprint[h], Pending}
    /\ \A g, h \in Host, i \in AgentId : Claims(g, i) /\ Claims(h, i) => g = h

\* No new claim: a row is made, or named by the host that claims it.
LEMMA OwnerFrame ==
    ASSUME OwnerInv,
           \A h \in Host, i \in AgentId : Claims(h, i)' => Claims(h, i),
           \A i \in AgentId : \/ rows'[i] = rows[i] \/ rows[i] = NoRow
                              \/ \E h \in Host : Claims(h, i) /\ rows'[i] = Fingerprint[h]
    PROVE  OwnerInv'
<1>1. ASSUME NEW h \in Host, NEW i \in AgentId, Claims(h, i)'
      PROVE  rows'[i] \in {Fingerprint[h], Pending}
  <2>1. Claims(h, i) /\ rows[i] \in {Fingerprint[h], Pending}
    BY <1>1 DEF OwnerInv
  <2>2. rows[i] # NoRow
    BY <2>1, RegistryAssumption DEF RegistryAssumption
  <2>3. \A g \in Host : Claims(g, i) => g = h
    BY <2>1 DEF OwnerInv
  <2> QED
    BY <2>1, <2>2, <2>3
<1>2. \A g, h \in Host, i \in AgentId : Claims(g, i)' /\ Claims(h, i)' => g = h
  BY DEF OwnerInv
<1> QED
  BY <1>1, <1>2 DEF OwnerInv

\* One new claim, to a row that has the host's name or is made for it.
LEMMA OwnerClaim ==
    ASSUME OwnerInv, NEW h \in Host, NEW i \in AgentId,
           \A g \in Host, k \in AgentId : Claims(g, k)' => Claims(g, k) \/ (g = h /\ k = i),
           \/ rows[i] = Fingerprint[h] /\ rows' = rows
           \/ rows[i] = NoRow /\ rows'[i] = Pending /\ \A k \in AgentId \ {i} : rows'[k] = rows[k]
    PROVE  OwnerInv'
<1>1. \A g \in Host : Claims(g, i) => g = h
  <2>1. ASSUME NEW g \in Host, Claims(g, i) PROVE g = h
    <3>1. rows[i] \in {Fingerprint[g], Pending}
      BY <2>1 DEF OwnerInv
    <3> QED
      BY <3>1, RegistryAssumption DEF RegistryAssumption
  <2> QED
    BY <2>1
<1>2. ASSUME NEW g \in Host, NEW k \in AgentId, Claims(g, k)'
      PROVE  rows'[k] \in {Fingerprint[g], Pending}
  <2>1. CASE k = i
    BY <1>1, <1>2, <2>1
  <2>2. CASE k # i
    <3>1. Claims(g, k) /\ rows'[k] = rows[k]
      BY <1>2, <2>2
    <3> QED
      BY <3>1 DEF OwnerInv
  <2> QED
    BY <2>1, <2>2
<1>3. ASSUME NEW f \in Host, NEW g \in Host, NEW k \in AgentId, Claims(f, k)', Claims(g, k)'
      PROVE  f = g
  <2>1. CASE k = i
    BY <1>1, <1>3, <2>1
  <2>2. CASE k # i
    BY <1>3, <2>2 DEF OwnerInv
  <2> QED
    BY <2>1, <2>2
<1> QED
  BY <1>2, <1>3 DEF OwnerInv

\* What a step of a handler may add to the claims: the ID its session gets.
LEMMA HandlerClaims ==
    ASSUME Core, NEW c \in Open, NEW r \in SessionRecord, Keeps(c, r), UNCHANGED <<proc, disk>>
    PROVE  \A h \in Host, i \in AgentId :
              Claims(h, i)' => Claims(h, i) \/ (h = sessions[c].host /\ i = r.id)
<1>1. /\ sessions'[c] = r /\ r.host = sessions[c].host
      /\ \A d \in Open' \ {c} : d \in Open /\ sessions'[d] = sessions[d]
  BY DEF Keeps, Turns, Open
<1>2. ASSUME NEW h \in Host, NEW i \in AgentId, InSession(h, i)'
      PROVE  InSession(h, i) \/ (h = sessions[c].host /\ i = r.id)
  BY <1>1, <1>2 DEF InSession
<1>3. \A h \in Host, i \in AgentId : OnDisk(h, i)' = OnDisk(h, i) /\ proc'[h] = proc[h]
  BY DEF OnDisk
<1> QED
  BY <1>2, <1>3 DEF Claims

LEMMA NamingOwner ==
    ASSUME Core, NEW c \in Open, sessions[c].id \in AgentId, NameRow(c) \/ UNCHANGED rows
    PROVE  \A i \in AgentId : \/ rows'[i] = rows[i]
                              \/ \E h \in Host : Claims(h, i) /\ rows'[i] = Fingerprint[h]
<1>1. sessions[c].host \in Host /\ Claims(sessions[c].host, sessions[c].id)
  BY CoreTypes, RecordFields DEF Claims, InSession
<1>2. rows \in [AgentId -> Name \cup {NoRow}]
  BY DEF Core, RegistryTypeOK
<1> QED
  BY <1>1, <1>2 DEF NameRow

\* The steps of a handler that keep the ID of its session.
LEMMA SteadyOwner ==
    ASSUME Core, OwnerInv, NEW c \in Session,
           \/ LookUpId(c) \/ LookUpFails(c) \/ NamePlaceholder(c)
           \/ RegisterAgent(c) \/ OpenStream(c) \/ GetCommandChannel(c)
           \/ TakeCommand(c) \/ Send(c)
    PROVE  OwnerInv'
<1>1. SessionTypes /\ DataTypes
  BY TypesSplit DEF Core
<1>2. UNCHANGED <<proc, disk>>
  BY DEF LookUpId, LookUpFails, NamePlaceholder, RegisterAgent, OpenStream, GetCommandChannel,
         TakeCommand, Send, AuthAt
<1>3. c \in Open
  BY <1>1, OpenSession
     DEF LookUpId, LookUpFails, NamePlaceholder, RegisterAgent, OpenStream, GetCommandChannel,
         TakeCommand, Send, AuthAt
<1>4. \E r \in SessionRecord : Keeps(c, r) /\ r.id = sessions[c].id
  <2>1. CASE GetCommandChannel(c)
    <3>1. sessions[c].id \in AgentId
      BY <1>3, <2>1, CoreTypes DEF GetCommandChannel
    <3> QED
      BY <1>1, <2>1, <3>1, ChannelTurns DEF DataTypes
  <2>2. CASE TakeCommand(c)
    BY <1>1, <2>2, TakeTurns DEF DataTypes
  <2>3. CASE Send(c)
    <3>1. sessions[c].cmd # 0
      BY <1>3, <2>3, CoreTypes DEF Send, Sound
    <3> QED
      BY <1>1, <2>3, <3>1, SendTurns
  <2> QED
    BY <1>1, <2>1, <2>2, <2>3, LookUpIdTurns, LookUpFailsTurns, HandlerGoesTurns
<1>5. PICK r \in SessionRecord : Keeps(c, r) /\ r.id = sessions[c].id
  BY <1>4
<1>6. \A h \in Host, i \in AgentId : Claims(h, i)' => Claims(h, i)
  <2>1. \A h \in Host, i \in AgentId :
           Claims(h, i)' => Claims(h, i) \/ (h = sessions[c].host /\ i = r.id)
    BY <1>2, <1>3, <1>5, HandlerClaims
  <2> QED
    BY <1>3, <1>5, <2>1 DEF Claims, InSession
<1>7. \A i \in AgentId : \/ rows'[i] = rows[i]
                         \/ \E h \in Host : Claims(h, i) /\ rows'[i] = Fingerprint[h]
  <2>1. CASE UNCHANGED rows
    BY <2>1
  <2>2. CASE ~UNCHANGED rows
    <3>1. NameRow(c) /\ sessions[c].pc \in {"name", "register"}
      BY <2>2 DEF LookUpId, LookUpFails, NamePlaceholder, RegisterAgent, OpenStream,
                  GetCommandChannel, TakeCommand, Send, AuthAt, serverVars
    <3>2. sessions[c].id \in AgentId
      BY <1>3, <3>1, CoreTypes
    <3> QED
      BY <1>3, <3>1, <3>2, NamingOwner
  <2> QED
    BY <2>1, <2>2
<1> QED
  BY <1>6, <1>7, OwnerFrame

\* LookUpName and CreatePlaceholderAgent, by which a session gets its ID.
LEMMA NewOwner ==
    ASSUME Core, OwnerInv, NEW c \in Session,
           LookUpName(c) \/ \E i \in AgentId : CreatePlaceholderAgent(c, i)
    PROVE  OwnerInv'
<1>1. SessionTypes /\ DataTypes
  BY TypesSplit DEF Core
<1>2. UNCHANGED <<proc, disk>>
  BY DEF LookUpName, CreatePlaceholderAgent, AuthAt
<1>3. c \in Open /\ sessions[c].host \in Host
  BY <1>1, OpenSession, RecordFields DEF LookUpName, CreatePlaceholderAgent, AuthAt
<1> DEFINE h == sessions[c].host
<1>4. CASE LookUpName(c)
  <2>1. rows' = rows
    BY <1>4 DEF LookUpName
  <2>2. PICK r \in SessionRecord :
           /\ Keeps(c, r)
           /\ r.id = sessions[c].id \/ r.id \in Named(c)
    BY <1>1, <1>4, LookUpNameTurns
  <2>3. \A g \in Host, i \in AgentId : Claims(g, i)' => Claims(g, i) \/ (g = h /\ i = r.id)
    BY <1>2, <1>3, <2>2, HandlerClaims
  <2>4. CASE r.id \in Named(c)
    BY <1>3, <2>1, <2>3, <2>4, OwnerClaim DEF Named
  <2>5. CASE r.id = sessions[c].id
    <3>1. \A g \in Host, i \in AgentId : Claims(g, i)' => Claims(g, i)
      BY <1>3, <2>3, <2>5 DEF Claims, InSession
    <3> QED
      BY <2>1, <3>1, OwnerFrame
  <2> QED
    BY <2>2, <2>4, <2>5
<1>5. ASSUME NEW i \in AgentId, CreatePlaceholderAgent(c, i)
      PROVE  OwnerInv'
  <2>1. rows[i] = NoRow /\ rows'[i] = Pending /\ \A k \in AgentId \ {i} : rows'[k] = rows[k]
    BY <1>1, <1>5 DEF CreatePlaceholderAgent, DataTypes
  <2>2. PICK r \in SessionRecord : Keeps(c, r) /\ r.id = i
    BY <1>1, <1>5, CreateTurns
  <2>3. \A g \in Host, k \in AgentId : Claims(g, k)' => Claims(g, k) \/ (g = h /\ k = i)
    BY <1>2, <1>3, <2>2, HandlerClaims
  <2> QED
    BY <1>3, <2>1, <2>3, OwnerClaim
<1> QED
  BY <1>4, <1>5

\* A session, a process or a saved identity that goes claims nothing new.
LEMMA FewerClaims ==
    ASSUME Core, OwnerInv,
           \A d \in Open' : d \in Open /\ sessions'[d].host = sessions[d].host
                                      /\ sessions'[d].id = sessions[d].id,
           \A h \in Host : \/ proc'[h].id \in {proc[h].id, NoId}
                           \/ Claims(h, proc'[h].id),
           \A g \in Host : \/ disk'[g] = NoIdentity \/ \E f \in Host : disk'[g] = disk[f]
                           \/ \E h \in Host : disk'[g].fingerprint = Fingerprint[h]
                                             /\ Claims(h, disk'[g].id),
           \A i \in AgentId : rows'[i] = rows[i] \/ rows[i] = NoRow
    PROVE  OwnerInv'
<1>1. ASSUME NEW h \in Host, NEW i \in AgentId, InSession(h, i)' PROVE InSession(h, i)
  BY <1>1 DEF InSession
<1>2. ASSUME NEW h \in Host, NEW i \in AgentId, proc'[h].id = i PROVE Claims(h, i)
  BY <1>2, RegistryAssumption DEF Claims, RegistryAssumption
<1>3. ASSUME NEW h \in Host, NEW i \in AgentId, OnDisk(h, i)' PROVE Claims(h, i)
  <2>1. PICK g \in Host : /\ disk'[g] # NoIdentity /\ disk'[g].id = i
                          /\ disk'[g].fingerprint = Fingerprint[h]
    BY <1>3 DEF OnDisk
  <2>2. CASE \E f \in Host : disk'[g] = disk[f]
    BY <2>1, <2>2 DEF Claims, OnDisk
  <2>3. CASE \E f \in Host : disk'[g].fingerprint = Fingerprint[f] /\ Claims(f, disk'[g].id)
    <3>1. PICK f \in Host : disk'[g].fingerprint = Fingerprint[f] /\ Claims(f, disk'[g].id)
      BY <2>3
    <3>2. f = h
      BY <2>1, <3>1, RegistryAssumption DEF RegistryAssumption
    <3> QED
      BY <2>1, <3>1, <3>2
  <2> QED
    BY <2>1, <2>2, <2>3
<1>4. \A h \in Host, i \in AgentId : Claims(h, i)' => Claims(h, i)
  <2>1. ASSUME NEW h \in Host, NEW i \in AgentId, Claims(h, i)' PROVE Claims(h, i)
    <3>1. InSession(h, i)' \/ proc'[h].id = i \/ OnDisk(h, i)'
      BY <2>1 DEF Claims
    <3>2. InSession(h, i) => Claims(h, i)
      BY DEF Claims
    <3> QED
      BY <1>1, <1>2, <1>3, <3>1, <3>2
  <2> QED
    BY <2>1
<1> QED
  BY <1>4, OwnerFrame

LEMMA CallOwner ==
    ASSUME Core, OwnerInv, NEW h \in Host, CallAuth(h)
    PROVE  OwnerInv'
<1>1. SessionTypes /\ DataTypes
  BY TypesSplit DEF Core
<1>2. UNCHANGED <<rows, disk>>
  BY DEF CallAuth, serverVars
<1>3. PICK c \in Session \ Open, id \in {LoadAgentID(h), proc[h].id} :
         /\ proc' = [proc EXCEPT ![h].id = id, ![h].session = c]
         /\ \E r \in SessionRecord : Turns(c, r) /\ r.host = h /\ r.id = id
  BY <1>1, CallTurns, CoreTypes
<1>4. PICK r \in SessionRecord : Turns(c, r) /\ r.host = h /\ r.id = id
  BY <1>3
<1>5. id \in AgentId => Claims(h, id)
  <2>1. CASE id = proc[h].id
    BY <2>1 DEF Claims
  <2>2. CASE id = LoadAgentID(h)
    BY <2>2, RegistryAssumption DEF Claims, OnDisk, LoadAgentID, RegistryAssumption
  <2> QED
    BY <2>1, <2>2
<1>6. sessions'[c] = r /\ \A d \in Open' \ {c} : d \in Open /\ sessions'[d] = sessions[d]
  BY <1>3, <1>4 DEF Turns, Open
<1>7. proc'[h].id = id /\ \A g \in Host \ {h} : proc'[g] = proc[g]
  <2>1. proc[h] \in Process
    BY CoreTypes
  <2> QED
    BY <1>1, <1>3, <2>1 DEF DataTypes, Process
<1>8. \A g \in Host, i \in AgentId : Claims(g, i)' => Claims(g, i)
  <2>1. ASSUME NEW g \in Host, NEW i \in AgentId, InSession(g, i)' PROVE Claims(g, i)
    BY <1>4, <1>5, <1>6, <2>1 DEF InSession, Claims
  <2>2. ASSUME NEW g \in Host, NEW i \in AgentId, proc'[g].id = i PROVE Claims(g, i)
    BY <1>5, <1>7, <2>2 DEF Claims
  <2>3. \A g \in Host, i \in AgentId : OnDisk(g, i)' = OnDisk(g, i)
    BY <1>2 DEF OnDisk
  <2> QED
    BY <2>1, <2>2, <2>3 DEF Claims
<1> QED
  BY <1>2, <1>8, OwnerFrame

\* The other steps of the agents.
LEMMA AgentOwner ==
    ASSUME Core, OwnerInv, NEW h \in Host,
           AuthAnswered(h) \/ CallStreamJobs(h) \/ Receive(h)
    PROVE  OwnerInv'
<1> DEFINE c == proc[h].session
<1>1. SessionTypes /\ DataTypes
  BY TypesSplit DEF Core
<1>2. UNCHANGED rows
  BY DEF AuthAnswered, CallStreamJobs, Receive, serverVars
<1>3. c # NoSession
  BY DEF AuthAnswered, CallStreamJobs, Receive, Core, ProcInv
<1>4. /\ c \in Open /\ c \in Session /\ sessions[c].host = h /\ proc[h] \in Process
      /\ sessions[c] \in SessionRecord
  BY <1>3, CurrentSession, CoreTypes
<1>5. PICK r \in SessionRecord : Keeps(c, r) /\ r.id = sessions[c].id
  <2>1. CASE AuthAnswered(h) \/ CallStreamJobs(h)
    <3>1. PICK to \in {"register", "open"} : Goes(c, to)
      BY <2>1 DEF AuthAnswered, CallStreamJobs
    <3>2. to \in Call
      BY DEF Call
    <3> QED
      BY <1>1, <1>4, <3>1, <3>2, GoesTurns DEF Keeps
  <2>2. CASE Receive(h)
    BY <1>1, <1>4, <2>2, ReceiveTurns
  <2> QED
    BY <2>1, <2>2
<1>6. \A d \in Open' : /\ d \in Open /\ sessions'[d].host = sessions[d].host
                       /\ sessions'[d].id = sessions[d].id
  BY <1>4, <1>5 DEF Keeps, Turns, Open
<1>7. Claims(h, sessions[c].id)
  BY <1>4 DEF Claims, InSession
<1>8. ASSUME NEW g \in Host
      PROVE  \/ proc'[g].id \in {proc[g].id, NoId}
             \/ Claims(g, proc'[g].id)
  <2>1. CASE g = h
    <3>1. proc'[h].id \in {proc[h].id, sessions[c].id}
      BY <1>1, <1>4 DEF AuthAnswered, CallStreamJobs, Receive, DataTypes, Process
    <3> QED
      BY <1>7, <2>1, <3>1
  <2>2. CASE g # h
    BY <1>1, <2>2 DEF AuthAnswered, CallStreamJobs, Receive, DataTypes
  <2> QED
    BY <2>1, <2>2
<1>9. ASSUME NEW g \in Host
      PROVE  \/ \E f \in Host : disk'[g] = disk[f]
             \/ \E f \in Host : disk'[g].fingerprint = Fingerprint[f] /\ Claims(f, disk'[g].id)
  <2>1. CASE UNCHANGED disk
    BY <2>1
  <2>2. CASE ~UNCHANGED disk
    <3>1. SaveAgentID(h, sessions[c].id)
      BY <2>2 DEF AuthAnswered, CallStreamJobs, Receive
    <3>2. /\ disk'[h] = [id |-> sessions[c].id, fingerprint |-> Fingerprint[h]]
          /\ \A f \in Host \ {h} : disk'[f] = disk[f]
      BY <1>1, <3>1 DEF SaveAgentID, DataTypes
    <3>3. disk'[h].fingerprint = Fingerprint[h] /\ disk'[h].id = sessions[c].id
      BY <3>2
    <3> QED
      BY <1>7, <3>2, <3>3
  <2> QED
    BY <2>1, <2>2
<1> HIDE DEF c
<1> QED
  BY <1>2, <1>6, <1>8, <1>9, FewerClaims

\* Sessions, processes and identities that end.
LEMMA EndingOwner ==
    ASSUME Core, OwnerInv,
           \/ \E c \in Session : CreateFails(c) \/ HandlerReturns(c)
           \/ \E h \in Host : Obey(h) \/ Break(h) \/ AgentCrash(h) \/ Start(h) \/ UpdateFails(h)
           \/ \E g, h \in Host : Clone(g, h)
           \/ ServerRestart
           \/ \E i \in AgentId : SendCommand(i)
    PROVE  OwnerInv'
<1>1. SessionTypes /\ DataTypes
  BY TypesSplit DEF Core
<1>2. \A d \in Open' : /\ d \in Open /\ sessions'[d].host = sessions[d].host
                       /\ sessions'[d].id = sessions[d].id
  <2>1. CASE \E c \in Session : CreateFails(c) \/ HandlerReturns(c)
    BY <1>1, <2>1 DEF CreateFails, HandlerReturns, Open, SessionTypes
  <2>2. ASSUME NEW h \in Host, Obey(h) \/ Break(h) \/ AgentCrash(h)
        PROVE  \A d \in Open' : /\ d \in Open /\ sessions'[d].host = sessions[d].host
                                /\ sessions'[d].id = sessions[d].id
    <3>1. Left(Current(h))
      <4>1. Current(h) \subseteq Open /\ Leave(Current(h))
        BY <2>2, CurrentSession DEF Current, Obey, Break, AgentCrash
      <4> QED
        BY <1>1, <4>1, LeaveIsLeft
    <3>2. Current(h) \subseteq Open
      BY CurrentSession DEF Current
    <3> QED
      BY <3>1, <3>2 DEF Left, Open
  <2>3. CASE ServerRestart
    BY <2>3 DEF ServerRestart, Open
  <2>4. CASE UNCHANGED sessions
    BY <2>4 DEF Open
  <2> QED
    BY <2>1, <2>2, <2>3, <2>4 DEF Start, UpdateFails, Clone, SendCommand
<1>3. ASSUME NEW h \in Host PROVE proc'[h].id \in {proc[h].id, NoId}
  <2>1. proc[h] \in Process /\ Down.id = NoId /\ Reconnecting(h).id = proc[h].id
    BY CoreTypes DEF Down, Reconnecting
  <2>2. Lost(h).id = proc[h].id
    BY <2>1 DEF Lost, Process
  <2>3. CASE \E c \in Session : CreateFails(c) \/ HandlerReturns(c)
    BY <2>1, <2>3 DEF CreateFails, HandlerReturns
  <2>4. ASSUME NEW g \in Host,
               Obey(g) \/ Break(g) \/ AgentCrash(g) \/ Start(g) \/ UpdateFails(g)
        PROVE  proc'[h].id \in {proc[h].id, NoId}
    <3>1. CASE g = h
      <4>1. [proc[h] EXCEPT !.pc = "stream"].id = proc[h].id
        BY <2>1 DEF Process
      <4>2. proc'[h] \in {Down, Lost(h), Reconnecting(h), [proc[h] EXCEPT !.pc = "stream"]}
        BY <1>1, <2>4, <3>1 DEF Obey, Break, AgentCrash, Start, UpdateFails, DataTypes
      <4> QED
        BY <2>1, <2>2, <4>1, <4>2
    <3>2. CASE g # h
      BY <1>1, <2>4, <3>2 DEF Obey, Break, AgentCrash, Start, UpdateFails, DataTypes
    <3> QED
      BY <3>1, <3>2
  <2>5. CASE ServerRestart
    BY <2>2, <2>5 DEF ServerRestart
  <2>6. CASE UNCHANGED proc
    BY <2>6
  <2> QED
    BY <2>3, <2>4, <2>5, <2>6 DEF Clone, SendCommand
<1>4. ASSUME NEW g \in Host
      PROVE  disk'[g] = NoIdentity \/ \E f \in Host : disk'[g] = disk[f]
  <2>1. CASE \E a, b \in Host : Clone(a, b)
    BY <1>1, <2>1 DEF Clone, DataTypes
  <2>2. CASE \E h \in Host : Obey(h)
    BY <1>1, <2>2 DEF Obey, DataTypes
  <2>3. CASE UNCHANGED disk
    BY <2>3
  <2> QED
    BY <2>1, <2>2, <2>3
       DEF CreateFails, HandlerReturns, Break, AgentCrash, Start, UpdateFails, ServerRestart,
           SendCommand
<1>5. \A i \in AgentId : rows'[i] = rows[i] \/ rows[i] = NoRow
  <2>1. CASE \E c \in Session : CreateFails(c)
    BY <1>1, <2>1 DEF CreateFails, DataTypes
  <2>2. CASE UNCHANGED rows
    BY <2>2
  <2> QED
    BY <2>1, <2>2
       DEF HandlerReturns, Obey, Break, AgentCrash, Start, UpdateFails, Clone, ServerRestart,
           SendCommand, serverVars
<1> QED
  BY <1>2, <1>3, <1>4, <1>5, FewerClaims

LEMMA OwnerInit ==
    ASSUME Init
    PROVE  OwnerInv
<1>1. \A h \in Host, i \in AgentId : ~Claims(h, i)
  BY RegistryAssumption
     DEF Init, Claims, InSession, OnDisk, Open, Down, RegistryAssumption
<1> QED
  BY <1>1 DEF OwnerInv

LEMMA OwnerStep ==
    ASSUME Core, OwnerInv, [Next]_vars
    PROVE  OwnerInv'
<1>1. CASE Next
  BY <1>1, SteadyOwner, NewOwner, CallOwner, AgentOwner, EndingOwner
     DEF Next, Agent, Auth, StreamJobs, Faults
<1>2. CASE UNCHANGED vars
  BY <1>2 DEF vars, serverVars, OwnerInv, Claims, InSession, OnDisk, Open
<1> QED
  BY <1>1, <1>2

LEMMA OwnerHolds == RegistrySpec => []OwnerInv
<1> QED
  BY OwnerInit, OwnerStep, CoreHolds, PTL DEF RegistrySpec

\* The agent a machine is authenticated as is never another machine's,
\* whatever crashes, retries, lost files and copied disks there were.
THEOREM OneOwnerAlways == RegistrySpec => []OneOwner
<1>1. Core /\ OwnerInv => OneOwner
  <2> SUFFICES ASSUME Core, OwnerInv, NEW c \in Open,
                      sessions[c].pc \notin {"byId", "byName", "create"}
               PROVE  rows[sessions[c].id] \in {Fingerprint[sessions[c].host], Pending}
    BY DEF OneOwner
  <2>1. sessions[c].id \in AgentId /\ sessions[c].host \in Host
    BY CoreTypes, RecordFields
  <2>2. Claims(sessions[c].host, sessions[c].id)
    BY DEF Claims, InSession
  <2> QED
    BY <2>1, <2>2 DEF OwnerInv
<1> QED
  BY <1>1, CoreHolds, OwnerHolds, PTL

-----------------------------------------------------------------------------
(***************************************************************************)
(* The order of the commands.  They ascend along the way of an agent's     *)
(* only live stream: what was received, the wire, the command in the hands *)
(* of the handler, the channel.                                            *)
(***************************************************************************)
Ascends(q) == \A m, n \in DOMAIN q : m < n => q[m] < q[n]
Above(n, q) == \A p \in DOMAIN q : n < q[p]
Below(q, n) == \A p \in DOMAIN q : q[p] < n
UpTo(q, n) == \A p \in DOMAIN q : q[p] <= n

ChannelInv ==
    /\ \A k \in Channel : Ascends(chans[k]) /\ UpTo(chans[k], sent)
    /\ \A i \in AgentId : /\ got[i] <= sent
                          /\ agents[i] # NoChannel => Above(got[i], chans[agents[i]])

Streaming(c) == sessions[c].live /\ sessions[c].pc \in {"loop", "send"}

InFlight(c) ==
    /\ Ascends(sessions[c].wire) /\ Above(got[sessions[c].id], sessions[c].wire)
    /\ UpTo(sessions[c].wire, sent)
    /\ \A p \in DOMAIN sessions[c].wire : Above(sessions[c].wire[p], chans[sessions[c].ch])
    /\ sessions[c].pc = "send" =>
          /\ got[sessions[c].id] < sessions[c].cmd /\ sessions[c].cmd <= sent
          /\ Above(sessions[c].cmd, chans[sessions[c].ch])
          /\ Below(sessions[c].wire, sessions[c].cmd)

CommandInv == ChannelInv /\ \A c \in Open : Streaming(c) => InFlight(c)

LEMMA CommandNumbers ==
    ASSUME NEW q \in Seq(1 .. MaxCommands)
    PROVE  \A p \in DOMAIN q : q[p] \in Nat
<1>1. ASSUME NEW p \in 1 .. Len(q) PROVE q[p] \in Nat
  <2>1. q[p] \in 1 .. MaxCommands
    BY ElementOfSeq
  <2> QED
    BY <2>1, RegistryAssumption DEF RegistryAssumption
<1> QED
  BY <1>1, LenProperties

\* Taking the head of an ascending sequence, and appending what is above it.
LEMMA TailOrder ==
    ASSUME NEW q \in Seq(1 .. MaxCommands), q # <<>>
    PROVE  /\ Ascends(q) => Ascends(Tail(q)) /\ Above(Head(q), Tail(q))
           /\ \A n \in Nat : UpTo(q, n) => UpTo(Tail(q), n) /\ Head(q) <= n
           /\ \A n \in Nat : Above(n, q) => Above(n, Tail(q)) /\ n < Head(q)
           /\ \A p \in DOMAIN Tail(q) : p + 1 \in DOMAIN q /\ Tail(q)[p] = q[p + 1]
           /\ Head(q) = q[1] /\ 1 \in DOMAIN q
<1>1. /\ Len(q) \in Nat /\ Len(q) > 0 /\ DOMAIN q = 1 .. Len(q)
      /\ DOMAIN Tail(q) = 1 .. Len(Tail(q)) /\ Len(Tail(q)) = Len(q) - 1
      /\ \A p \in 1 .. Len(Tail(q)) : Tail(q)[p] = q[p + 1]
  BY HeadTailProperties, LenProperties, EmptySeq
<1>2. Head(q) = q[1] /\ 1 \in DOMAIN q
  BY <1>1
<1>3. \A p \in DOMAIN Tail(q) : /\ p \in Nat /\ p + 1 \in DOMAIN q /\ 1 < p + 1
                                /\ Tail(q)[p] = q[p + 1]
  BY <1>1
<1> QED
  BY <1>2, <1>3 DEF Ascends, Above, UpTo

LEMMA AppendOrder ==
    ASSUME NEW q \in Seq(1 .. MaxCommands), NEW n \in 1 .. MaxCommands
    PROVE  /\ Ascends(q) /\ Below(q, n) => Ascends(Append(q, n))
           /\ \A m \in Nat : Above(m, q) /\ m < n => Above(m, Append(q, n))
           /\ \A m \in Nat : UpTo(q, m) /\ n <= m => UpTo(Append(q, n), m)
           /\ \A p \in DOMAIN Append(q, n) :
                 \/ p \in DOMAIN q /\ Append(q, n)[p] = q[p]
                 \/ p \notin DOMAIN q /\ Append(q, n)[p] = n
<1> DEFINE s == Append(q, n)
<1>1. /\ Len(q) \in Nat /\ DOMAIN q = 1 .. Len(q)
      /\ DOMAIN s = 1 .. (Len(q) + 1) /\ s[Len(q) + 1] = n
      /\ \A p \in 1 .. Len(q) : s[p] = q[p]
  BY AppendProperties, LenProperties
<1> HIDE DEF s
<1>2. \A p \in DOMAIN s : \/ p \in DOMAIN q /\ s[p] = q[p]
                          \/ p \notin DOMAIN q /\ p = Len(q) + 1 /\ s[p] = n
  BY <1>1
<1>3. ASSUME Ascends(q), Below(q, n), NEW a \in DOMAIN s, NEW b \in DOMAIN s, a < b
      PROVE  s[a] < s[b]
  <2>1. a \in DOMAIN q
    BY <1>1, <1>3
  <2> QED
    BY <1>2, <1>3, <2>1 DEF Ascends, Below
<1>4. \A m \in Nat : Above(m, q) /\ m < n => Above(m, s)
  BY <1>2 DEF Above
<1>5. \A m \in Nat : UpTo(q, m) /\ n <= m => UpTo(s, m)
  BY <1>2 DEF UpTo
<1> QED
  BY <1>2, <1>3, <1>4, <1>5 DEF Ascends, s

\* A host's one live session is the only live one that has its ID.
LEMMA OneStream ==
    ASSUME Core, OwnerInv, NEW c \in Open, NEW d \in Open,
           sessions[c].live, sessions[d].live, sessions[c].id \in AgentId,
           sessions[c].id = sessions[d].id
    PROVE  c = d
<1>1. sessions[c].host \in Host /\ sessions[d].host \in Host
  BY CoreTypes, RecordFields
<1>2. Claims(sessions[c].host, sessions[c].id) /\ Claims(sessions[d].host, sessions[c].id)
  BY DEF Claims, InSession
<1>3. sessions[c].host = sessions[d].host
  BY <1>1, <1>2 DEF OwnerInv
<1> QED
  BY <1>3 DEF Core, SessionInv

\* The commands on their way are the same, and so is their order.
LEMMA CommandFrame ==
    ASSUME CommandInv, UNCHANGED <<chans, sent, got>>,
           \A d \in Open' : Streaming(d)' => d \in Open /\ sessions'[d] = sessions[d],
           \A i \in AgentId : \/ agents'[i] \in {agents[i], NoChannel}
                              \/ agents'[i] \in Channel /\ chans[agents'[i]] = <<>>
    PROVE  CommandInv'
<1>1. ChannelInv'
  <2>1. \A n : Above(n, <<>>)
    BY DEF Above
  <2> QED
    BY <2>1 DEF CommandInv, ChannelInv
<1>2. ASSUME NEW d \in Open', Streaming(d)' PROVE InFlight(d)'
  <2>1. d \in Open /\ sessions'[d] = sessions[d] /\ Streaming(d)
    BY <1>2 DEF Streaming
  <2>2. InFlight(d)
    BY <2>1 DEF CommandInv
  <2> QED
    BY <2>1, <2>2 DEF InFlight
<1> QED
  BY <1>1, <1>2 DEF CommandInv

\* The steps that move no command.
LEMMA QuietOrder ==
    ASSUME Core, CommandInv,
           \/ \E c \in Session : \/ Auth(c) \/ RegisterAgent(c) \/ OpenStream(c)
                                 \/ HandlerReturns(c)
           \/ \E h \in Host : \/ Start(h) \/ UpdateFails(h) \/ CallAuth(h) \/ AuthAnswered(h)
                              \/ CallStreamJobs(h) \/ Obey(h) \/ Break(h) \/ AgentCrash(h)
           \/ \E g, h \in Host : Clone(g, h)
    PROVE  CommandInv'
<1>1. SessionTypes /\ DataTypes
  BY TypesSplit DEF Core
<1>2. UNCHANGED <<chans, sent, got>>
  BY DEF Auth, RegisterAgent, OpenStream, HandlerReturns, LookUpId, LookUpName, LookUpFails,
         CreateFails, NamePlaceholder, CreatePlaceholderAgent, AuthAt, Start, UpdateFails,
         CallAuth, AuthAnswered, CallStreamJobs, Obey, Break, AgentCrash, Clone, history,
         serverVars
<1>3. ASSUME NEW i \in AgentId
      PROVE  \/ agents'[i] \in {agents[i], NoChannel}
             \/ agents'[i] \in Channel /\ chans[agents'[i]] = <<>>
  <2>1. ASSUME NEW c \in Session, RegisterAgent(c) \/ OpenStream(c)
        PROVE  \/ agents'[i] = agents[i]
               \/ agents'[i] \in Channel /\ chans[agents'[i]] = <<>>
    <3>1. c \in Open /\ sessions[c].pc \in {"register", "open"}
      BY <1>1, <2>1, OpenSession DEF RegisterAgent, OpenStream
    <3>2. sessions[c].id \in AgentId
      BY <3>1, CoreTypes
    <3>3. Register(sessions[c].id) \/ agents' = agents
      BY <2>1 DEF RegisterAgent, OpenStream
    <3> QED
      BY <3>2, <3>3, RegisterGives DEF Unused
  <2>2. CASE UNCHANGED agents
    BY <2>2
  <2> QED
    BY <2>1, <2>2
       DEF Auth, HandlerReturns, LookUpId, LookUpName, LookUpFails,
           CreateFails, NamePlaceholder, CreatePlaceholderAgent, AuthAt, Start, UpdateFails,
           CallAuth, AuthAnswered, CallStreamJobs, Obey, Break, AgentCrash, Clone, serverVars
<1>4. ASSUME NEW d \in Open', Streaming(d)'
      PROVE  d \in Open /\ sessions'[d] = sessions[d]
  <2>1. ASSUME NEW c \in Session, NEW r, Turns(c, r), r.pc \notin {"loop", "send"}
        PROVE  d \in Open /\ sessions'[d] = sessions[d]
    BY <1>4, <2>1 DEF Turns, Open, Streaming
  <2>2. ASSUME NEW c \in Session,
               LookUpId(c) \/ LookUpName(c) \/ LookUpFails(c) \/ NamePlaceholder(c)
               \/ RegisterAgent(c) \/ OpenStream(c)
               \/ \E i \in AgentId : CreatePlaceholderAgent(c, i)
        PROVE  \E r : Turns(c, r) /\ r.pc \notin {"loop", "send"}
    BY <1>1, <2>2, LookUpIdTurns, LookUpNameTurns, LookUpFailsTurns, CreateTurns,
       HandlerGoesTurns DEF Keeps
  <2>3. ASSUME NEW c \in Session, CreateFails(c) \/ HandlerReturns(c)
        PROVE  Turns(c, Closed) /\ Closed.pc \notin {"loop", "send"}
    BY <1>1, <2>3 DEF CreateFails, HandlerReturns, Turns, SessionTypes, Closed
  <2>4. ASSUME NEW h \in Host, CallAuth(h)
        PROVE  \E c \in Session : \E r : Turns(c, r) /\ r.pc \notin {"loop", "send"}
    BY <1>1, <2>4, CallTurns, CoreTypes
  <2>5. ASSUME NEW h \in Host, AuthAnswered(h) \/ CallStreamJobs(h)
        PROVE  \E c \in Session : \E r : Turns(c, r) /\ r.pc \notin {"loop", "send"}
    <3>1. proc[h].session \in Open /\ proc[h].session \in Session
      BY <2>5, CurrentSession DEF AuthAnswered, CallStreamJobs
    <3>2. PICK to \in {"register", "open"} : Goes(proc[h].session, to)
      BY <2>5 DEF AuthAnswered, CallStreamJobs
    <3>3. to \in Call
      BY DEF Call
    <3> QED
      BY <1>1, <3>1, <3>2, <3>3, GoesTurns
  <2>6. ASSUME NEW h \in Host, Obey(h) \/ Break(h) \/ AgentCrash(h)
        PROVE  d \in Open /\ sessions'[d] = sessions[d]
    <3>1. Current(h) \subseteq Open /\ Leave(Current(h))
      BY <2>6, CurrentSession DEF Current, Obey, Break, AgentCrash
    <3>2. Left(Current(h))
      BY <1>1, <3>1, LeaveIsLeft
    <3> QED
      BY <1>4, <3>1, <3>2 DEF Left, Open, Streaming
  <2>7. CASE UNCHANGED sessions
    BY <2>7 DEF Open
  <2> QED
    BY <2>1, <2>2, <2>3, <2>4, <2>5, <2>6, <2>7 DEF Auth, Start, UpdateFails, Clone
<1> QED
  BY <1>2, <1>3, <1>4, CommandFrame

LEMMA RestartOrder ==
    ASSUME Core, CommandInv, ServerRestart
    PROVE  CommandInv'
<1>1. UNCHANGED <<sent, got>> /\ Open' = {}
  BY DEF ServerRestart, history, Open
<1>2. \A k \in Channel : Ascends(chans'[k]) /\ UpTo(chans'[k], sent)
  BY DEF ServerRestart, Ascends, UpTo
<1>3. \A i \in AgentId : agents'[i] = NoChannel
  BY DEF ServerRestart
<1> QED
  BY <1>1, <1>2, <1>3 DEF CommandInv, ChannelInv

LEMMA ChannelOrder ==
    ASSUME Core, CommandInv, NEW c \in Session, GetCommandChannel(c)
    PROVE  CommandInv'
<1>1. SessionTypes /\ DataTypes
  BY TypesSplit DEF Core
<1>2. UNCHANGED <<chans, sent, got, agents>>
  BY DEF GetCommandChannel, history, serverVars
<1>3. c \in Open /\ sessions[c].pc = "channel"
  BY <1>1, OpenSession DEF GetCommandChannel
<1>4. sessions[c].id \in AgentId /\ sessions[c].wire = <<>>
  BY <1>3, CoreTypes DEF Sound
<1>5. PICK r \in SessionRecord : Keeps(c, r) /\ r.pc = "loop" /\ r.wire = <<>>
  BY <1>1, <1>4, ChannelTurns DEF DataTypes
<1>6. ASSUME NEW d \in Open', Streaming(d)' PROVE InFlight(d)'
  <2>1. CASE d = c
    BY <1>5, <2>1 DEF Keeps, Turns, InFlight, Ascends, Above, UpTo
  <2>2. CASE d # c
    <3>1. d \in Open /\ sessions'[d] = sessions[d]
      BY <1>5, <1>6, <2>2 DEF Keeps, Turns, Open
    <3>2. InFlight(d)
      BY <1>6, <3>1 DEF CommandInv, Streaming
    <3> QED
      BY <1>2, <3>1, <3>2 DEF InFlight
  <2> QED
    BY <2>1, <2>2
<1> QED
  BY <1>2, <1>6 DEF CommandInv, ChannelInv

\* A new command is above all there are.
LEMMA SendCommandOrder ==
    ASSUME Core, CommandInv, NEW i \in AgentId, SendCommand(i)
    PROVE  CommandInv'
<1>1. SessionTypes /\ DataTypes
  BY TypesSplit DEF Core
<1>2. UNCHANGED <<agents, sessions, got>> /\ Open' = Open
  BY DEF SendCommand, Open
<1>3. sent \in Nat /\ sent' = sent + 1 /\ sent' \in 1 .. MaxCommands /\ sent' \in Nat
  BY <1>1, RegistryAssumption DEF SendCommand, DataTypes, RegistryAssumption
<1>4. agents[i] \in Channel
  BY <1>1 DEF SendCommand, HasRoom, DataTypes
<1> DEFINE k == agents[i]
<1>5. /\ chans'[k] = Append(chans[k], sent') /\ chans[k] \in Seq(1 .. MaxCommands)
      /\ \A j \in Channel \ {k} : chans'[j] = chans[j]
  BY <1>1, <1>4 DEF SendCommand, DataTypes
<1> HIDE DEF k
<1>6. /\ Ascends(Append(chans[k], sent')) /\ UpTo(Append(chans[k], sent'), sent')
      /\ \A m \in Nat : m <= sent /\ Above(m, chans[k]) => Above(m, Append(chans[k], sent'))
  <2>1. Ascends(chans[k]) /\ UpTo(chans[k], sent)
    BY <1>4 DEF CommandInv, ChannelInv, k
  <2>2. \A p \in DOMAIN chans[k] : chans[k][p] \in Nat
    BY <1>5, CommandNumbers
  <2>3. Below(chans[k], sent') /\ UpTo(chans[k], sent')
    BY <1>3, <2>1, <2>2 DEF UpTo, Below
  <2>4. \A m \in Nat : m <= sent => m < sent'
    BY <1>3
  <2> QED
    BY <1>3, <1>5, <2>1, <2>3, <2>4, AppendOrder
<1>7. \A j \in Channel, m \in Nat : m <= sent /\ Above(m, chans[j]) => Above(m, chans'[j])
  BY <1>5, <1>6
<1>8. ChannelInv'
  <2>1. ASSUME NEW j \in Channel PROVE Ascends(chans'[j]) /\ UpTo(chans'[j], sent')
    <3>1. CASE j = k
      BY <1>5, <1>6, <3>1
    <3>2. CASE j # k
      <4>1. chans'[j] = chans[j] /\ Ascends(chans[j]) /\ UpTo(chans[j], sent)
        BY <1>5, <3>2 DEF CommandInv, ChannelInv
      <4>2. \A p \in DOMAIN chans[j] : chans[j][p] \in Nat
        BY <1>1, CommandNumbers DEF DataTypes
      <4> QED
        BY <1>3, <4>1, <4>2 DEF UpTo
    <3> QED
      BY <3>1, <3>2
  <2>2. ASSUME NEW j \in AgentId
        PROVE  got[j] <= sent' /\ (agents[j] # NoChannel => Above(got[j], chans'[agents[j]]))
    <3>1. got[j] \in Nat /\ got[j] <= sent /\ agents[j] \in Channel \cup {NoChannel}
      BY <1>1 DEF CommandInv, ChannelInv, DataTypes
    <3> QED
      BY <1>3, <1>7, <3>1 DEF CommandInv, ChannelInv
  <2> QED
    BY <1>2, <2>1, <2>2 DEF ChannelInv
<1>9. ASSUME NEW d \in Open, Streaming(d) PROVE InFlight(d)'
  <2> DEFINE w == sessions[d].wire
  <2>1. InFlight(d)
    BY <1>9 DEF CommandInv
  <2>2. /\ w \in Seq(1 .. MaxCommands) /\ sessions[d].cmd \in Nat
        /\ sessions[d].id \in AgentId /\ sessions[d].ch \in Channel
    <3>1. w \in Seq(1 .. MaxCommands) /\ sessions[d].cmd \in Nat
      BY CoreTypes, RecordFields
    <3>2. sessions[d].id \in AgentId
      BY <1>9, CoreTypes DEF Streaming
    <3>3. sessions[d].ch = agents[sessions[d].id] /\ agents[sessions[d].id] # NoChannel
      BY <1>9 DEF Streaming, Core, ListenInv, Streams
    <3> QED
      BY <1>1, <3>1, <3>2, <3>3 DEF DataTypes
  <2>3. \A p \in DOMAIN w : w[p] \in Nat
    BY <2>2, CommandNumbers
  <2>4. \A p \in DOMAIN w : w[p] <= sent /\ Above(w[p], chans[sessions[d].ch])
    BY <2>1 DEF InFlight, UpTo
  <2>5. UpTo(w, sent') /\ \A p \in DOMAIN w : Above(w[p], chans'[sessions[d].ch])
    BY <1>3, <1>7, <2>2, <2>3, <2>4 DEF UpTo
  <2>6. sessions[d].pc = "send" => /\ sessions[d].cmd <= sent'
                                   /\ Above(sessions[d].cmd, chans'[sessions[d].ch])
    BY <1>3, <1>7, <2>1, <2>2 DEF InFlight
  <2> HIDE DEF w
  <2> QED
    BY <1>2, <2>1, <2>5, <2>6 DEF InFlight, w
<1> QED
  BY <1>2, <1>8, <1>9 DEF CommandInv, Streaming

\* The command that leaves the channel is below what stays in it.
LEMMA TakeOrder ==
    ASSUME Core, CommandInv, NEW c \in Session, TakeCommand(c)
    PROVE  CommandInv'
<1>1. SessionTypes /\ DataTypes
  BY TypesSplit DEF Core
<1>2. UNCHANGED <<agents, sent, got>>
  BY DEF TakeCommand, history
<1> DEFINE k == sessions[c].ch
           q == chans[k]
<1>3. /\ c \in Open /\ sessions[c].pc = "loop" /\ k \in Channel
      /\ q # <<>> /\ chans' = [chans EXCEPT ![k] = Tail(q)]
  BY <1>1, TakeTurns DEF DataTypes
<1>4. PICK r \in SessionRecord :
         /\ Keeps(c, r) /\ r.pc = "send" /\ r.id = sessions[c].id
         /\ r.ch = k /\ r.wire = sessions[c].wire
         /\ r.cmd = Head(q) /\ r.cmd \in 1 .. MaxCommands
  BY <1>1, TakeTurns DEF DataTypes
<1>5. /\ chans'[k] = Tail(q) /\ q \in Seq(1 .. MaxCommands) /\ sent \in Nat
      /\ \A j \in Channel \ {k} : chans'[j] = chans[j]
  BY <1>1, <1>3, RegistryAssumption DEF DataTypes, RegistryAssumption
<1>6. \A j \in Channel, m \in Nat : Above(m, chans[j]) => Above(m, chans'[j])
  BY <1>3, <1>5, TailOrder
<1>7. ChannelInv'
  <2>1. ASSUME NEW j \in Channel PROVE Ascends(chans'[j]) /\ UpTo(chans'[j], sent)
    <3>1. Ascends(chans[j]) /\ UpTo(chans[j], sent)
      BY DEF CommandInv, ChannelInv
    <3> QED
      BY <1>3, <1>5, <3>1, TailOrder
  <2>2. \A j \in AgentId : got[j] \in Nat /\ agents[j] \in Channel \cup {NoChannel}
    BY <1>1 DEF DataTypes
  <2> QED
    BY <1>2, <1>6, <2>1, <2>2 DEF CommandInv, ChannelInv
<1>8. ASSUME NEW d \in Open', Streaming(d)' PROVE InFlight(d)'
  <2>1. CASE d = c
    <3>1. Streaming(c) /\ InFlight(c) /\ sessions'[c] = r
      BY <1>3, <1>4, <1>8, <2>1 DEF Keeps, Turns, Streaming, CommandInv
    <3>2. /\ sessions[c].id \in AgentId /\ sessions[c].wire \in Seq(1 .. MaxCommands)
          /\ agents[sessions[c].id] = k /\ agents[sessions[c].id] # NoChannel
      <4>1. sessions[c].id \in AgentId /\ sessions[c].wire \in Seq(1 .. MaxCommands)
        BY <1>3, CoreTypes, RecordFields
      <4>2. agents[sessions[c].id] = k /\ agents[sessions[c].id] # NoChannel
        BY <1>3 DEF Core, ListenInv, Streams
      <4> QED
        BY <4>1, <4>2
    <3>3. Above(got[sessions[c].id], q) /\ Ascends(q) /\ UpTo(q, sent)
      BY <1>3, <3>2 DEF CommandInv, ChannelInv
    <3>4. /\ got[sessions[c].id] < Head(q) /\ Head(q) <= sent
          /\ Above(Head(q), Tail(q))
      <4>1. got[sessions[c].id] \in Nat
        BY <1>1, <3>2 DEF DataTypes
      <4> QED
        BY <1>3, <1>5, <3>3, <4>1, TailOrder
    <3>5. \A p \in DOMAIN sessions[c].wire : sessions[c].wire[p] \in Nat
      BY <3>2, CommandNumbers
    <3>6. \A p \in DOMAIN sessions[c].wire : Above(sessions[c].wire[p], q)
      BY <3>1 DEF InFlight
    <3>7. /\ Below(sessions[c].wire, Head(q))
          /\ \A p \in DOMAIN sessions[c].wire : Above(sessions[c].wire[p], Tail(q))
      BY <1>3, <1>5, <3>5, <3>6, TailOrder DEF Below
    <3> HIDE DEF q, k
    <3> QED
      BY <1>2, <1>4, <1>5, <2>1, <3>1, <3>4, <3>7 DEF InFlight
  <2>2. CASE d # c
    <3>1. d \in Open /\ sessions'[d] = sessions[d] /\ Streaming(d)
      BY <1>4, <1>8, <2>2 DEF Keeps, Turns, Open, Streaming
    <3>2. InFlight(d)
      BY <3>1 DEF CommandInv
    <3>3. /\ sessions[d].wire \in Seq(1 .. MaxCommands) /\ sessions[d].cmd \in Nat
          /\ sessions[d].ch \in Channel
      <4>1. sessions[d].wire \in Seq(1 .. MaxCommands) /\ sessions[d].cmd \in Nat
        BY <3>1, CoreTypes, RecordFields
      <4>2. sessions[d].id \in AgentId
        BY <3>1, CoreTypes DEF Streaming
      <4>3. sessions[d].ch = agents[sessions[d].id] /\ agents[sessions[d].id] # NoChannel
        BY <3>1 DEF Streaming, Core, ListenInv, Streams
      <4> QED
        BY <1>1, <4>1, <4>2, <4>3 DEF DataTypes
    <3>4. \A p \in DOMAIN sessions[d].wire : sessions[d].wire[p] \in Nat
      BY <3>3, CommandNumbers
    <3>5. \A p \in DOMAIN sessions[d].wire : Above(sessions[d].wire[p], chans'[sessions[d].ch])
      BY <1>6, <3>2, <3>3, <3>4 DEF InFlight
    <3>6. sessions[d].pc = "send" => Above(sessions[d].cmd, chans'[sessions[d].ch])
      BY <1>6, <3>2, <3>3 DEF InFlight
    <3> QED
      BY <1>2, <3>1, <3>2, <3>5, <3>6 DEF InFlight
  <2> QED
    BY <2>1, <2>2
<1> QED
  BY <1>7, <1>8 DEF CommandInv

\* What is sent goes to the end of the wire, and is lost without one.
LEMMA SendOrder ==
    ASSUME Core, CommandInv, NEW c \in Session, Send(c)
    PROVE  CommandInv'
<1>1. SessionTypes /\ DataTypes
  BY TypesSplit DEF Core
<1>2. UNCHANGED <<agents, chans, sent, got>>
  BY DEF Send, history, serverVars
<1>3. c \in Open /\ sessions[c].pc = "send" /\ Sound(sessions[c])
  BY <1>1, OpenSession, CoreTypes DEF Send
<1>4. /\ sessions[c].cmd \in 1 .. MaxCommands /\ sessions[c].id \in AgentId
      /\ sessions[c].wire \in Seq(1 .. MaxCommands)
  BY <1>1, <1>3, SendTurns, CoreTypes, RecordFields DEF Sound
<1>5. PICK r \in SessionRecord :
         /\ Keeps(c, r) /\ r.pc = "loop" /\ r.id = sessions[c].id
         /\ r.ch = sessions[c].ch /\ r.cmd = 0
         /\ r.wire = IF sessions[c].live THEN Append(sessions[c].wire, sessions[c].cmd)
                     ELSE sessions[c].wire
  BY <1>1, <1>3, SendTurns DEF Sound
<1>6. ASSUME NEW d \in Open', Streaming(d)' PROVE InFlight(d)'
  <2>1. CASE d = c
    <3> DEFINE w == sessions[c].wire
               n == sessions[c].cmd
    <3>1. InFlight(c) /\ sessions'[c] = r /\ r.wire = Append(w, n)
      BY <1>3, <1>5, <1>6, <2>1 DEF Keeps, Turns, Streaming, CommandInv
    <3>2. /\ Ascends(w) /\ Below(w, n) /\ Above(got[sessions[c].id], w) /\ UpTo(w, sent)
          /\ got[sessions[c].id] < n /\ n <= sent /\ Above(n, chans[sessions[c].ch])
          /\ \A p \in DOMAIN w : Above(w[p], chans[sessions[c].ch])
      BY <1>3, <3>1 DEF InFlight
    <3>3. sent \in Nat /\ got[sessions[c].id] \in Nat
      BY <1>1, <1>4 DEF DataTypes
    <3> HIDE DEF w, n
    <3>4. w \in Seq(1 .. MaxCommands) /\ n \in 1 .. MaxCommands
      BY <1>4 DEF w, n
    <3>5. /\ Ascends(r.wire) /\ Above(got[sessions[c].id], r.wire) /\ UpTo(r.wire, sent)
          /\ \A p \in DOMAIN r.wire : Above(r.wire[p], chans[sessions[c].ch])
      BY <3>1, <3>2, <3>3, <3>4, AppendOrder
    <3> QED
      BY <1>2, <1>5, <2>1, <3>1, <3>5 DEF InFlight
  <2>2. CASE d # c
    <3>1. d \in Open /\ sessions'[d] = sessions[d] /\ Streaming(d)
      BY <1>5, <1>6, <2>2 DEF Keeps, Turns, Open, Streaming
    <3>2. InFlight(d)
      BY <3>1 DEF CommandInv
    <3> QED
      BY <1>2, <3>1, <3>2 DEF InFlight
  <2> QED
    BY <2>1, <2>2
<1> QED
  BY <1>2, <1>6 DEF CommandInv, ChannelInv

\* The next command received under an ID is above the last one.
LEMMA NextCommand ==
    ASSUME Core, CommandInv, NEW h \in Host, Receive(h)
    PROVE  LET c == proc[h].session
               n == Head(sessions[c].wire)
           IN /\ c \in Open /\ c \in Session /\ Streaming(c) /\ sessions[c].id \in AgentId
              /\ sessions[c].wire \in Seq(1 .. MaxCommands) /\ sessions[c].wire # <<>>
              /\ got[sessions[c].id] < n /\ n <= sent /\ n \in 1 .. MaxCommands
              /\ Above(n, chans[sessions[c].ch])
              /\ got' = [got EXCEPT ![sessions[c].id] = n]
<1> DEFINE c == proc[h].session
           n == Head(sessions[c].wire)
<1>1. SessionTypes /\ DataTypes
  BY TypesSplit DEF Core
<1>2. c # NoSession /\ sessions[c].wire # <<>>
  BY DEF Receive, Core, ProcInv
<1>3. /\ c \in Open /\ c \in Session /\ sessions[c].live /\ Sound(sessions[c])
      /\ sessions[c].wire \in Seq(1 .. MaxCommands)
  BY <1>2, CurrentSession, RecordFields
<1>4. Streaming(c) /\ sessions[c].id \in AgentId
  BY <1>2, <1>3, CoreTypes DEF Sound, Streaming
<1>5. InFlight(c)
  BY <1>3, <1>4 DEF CommandInv
<1>6. n \in 1 .. MaxCommands
  BY <1>2, <1>3, HeadTailProperties
<1>7. got[sessions[c].id] \in Nat /\ sent \in Nat
  BY <1>1, <1>4 DEF DataTypes
<1>8. got' = [got EXCEPT ![sessions[c].id] = n]
  BY DEF Receive
<1> HIDE DEF c, n
<1>9. got[sessions[c].id] < n /\ n <= sent
  BY <1>2, <1>3, <1>5, <1>7, TailOrder DEF InFlight, n
<1>10. Above(n, chans[sessions[c].ch])
  BY <1>2, <1>3, <1>5, TailOrder DEF InFlight, n
<1> QED
  BY <1>2, <1>3, <1>4, <1>6, <1>8, <1>9, <1>10 DEF c, n

LEMMA ReceiveOrder ==
    ASSUME Core, OwnerInv, CommandInv, NEW h \in Host, Receive(h)
    PROVE  CommandInv'
<1>1. SessionTypes /\ DataTypes
  BY TypesSplit DEF Core
<1>2. UNCHANGED <<agents, chans, sent>>
  BY DEF Receive, serverVars
<1> DEFINE c == proc[h].session
           w == sessions[c].wire
           n == Head(w)
           i == sessions[c].id
<1>3. /\ c \in Open /\ c \in Session /\ Streaming(c) /\ i \in AgentId
      /\ w \in Seq(1 .. MaxCommands) /\ w # <<>>
      /\ n <= sent /\ n \in 1 .. MaxCommands /\ Above(n, chans[sessions[c].ch])
      /\ got' = [got EXCEPT ![i] = n]
  BY NextCommand
<1>4. PICK r \in SessionRecord :
         /\ Keeps(c, r) /\ r.pc = sessions[c].pc /\ r.id = i
         /\ r.ch = sessions[c].ch /\ r.cmd = sessions[c].cmd /\ r.wire = Tail(w)
  BY <1>1, <1>3, ReceiveTurns
<1>5. sessions[c].ch = agents[i]
  BY <1>3 DEF Core, ListenInv, Streaming
<1>6. InFlight(c)
  BY <1>3 DEF CommandInv
<1>7. got'[i] = n /\ \A j \in AgentId \ {i} : got'[j] = got[j]
  BY <1>1, <1>3 DEF DataTypes
<1>8. ChannelInv'
  <2>1. \A j \in AgentId : /\ got'[j] <= sent
                           /\ agents[j] # NoChannel => Above(got'[j], chans[agents[j]])
    BY <1>3, <1>5, <1>7 DEF CommandInv, ChannelInv
  <2> QED
    BY <1>2, <2>1 DEF CommandInv, ChannelInv
<1>9. ASSUME NEW d \in Open', Streaming(d)' PROVE InFlight(d)'
  <2>1. CASE d = c
    <3>1. sessions'[c] = r
      BY <1>4 DEF Keeps, Turns
    <3>2. /\ Ascends(w) /\ UpTo(w, sent) /\ sent \in Nat
          /\ \A p \in DOMAIN w : Above(w[p], chans[sessions[c].ch])
          /\ sessions[c].pc = "send" =>
                /\ sessions[c].cmd <= sent /\ Above(sessions[c].cmd, chans[sessions[c].ch])
                /\ Below(w, sessions[c].cmd)
      BY <1>1, <1>6, RegistryAssumption DEF InFlight, DataTypes, RegistryAssumption
    <3> HIDE DEF w, n, i, c
    <3>3. /\ Ascends(Tail(w)) /\ Above(n, Tail(w)) /\ UpTo(Tail(w), sent)
          /\ \A p \in DOMAIN Tail(w) : Above(Tail(w)[p], chans[sessions[c].ch])
      BY <1>3, <3>2, TailOrder DEF n
    <3>4. \A m : Below(w, m) => n < m /\ Below(Tail(w), m)
      BY <1>3, TailOrder DEF Below, n
    <3> QED
      BY <1>2, <1>4, <1>7, <2>1, <3>1, <3>2, <3>3, <3>4 DEF InFlight
  <2>2. CASE d # c
    <3>1. d \in Open /\ sessions'[d] = sessions[d] /\ Streaming(d)
      BY <1>4, <1>9, <2>2 DEF Keeps, Turns, Open, Streaming
    <3>2. InFlight(d)
      BY <3>1 DEF CommandInv
    <3>3. sessions[d].id \in AgentId /\ sessions[d].id # i
      <4>1. sessions[d].id \in AgentId
        BY <3>1, CoreTypes DEF Streaming
      <4> HIDE DEF c
      <4> QED
        BY <1>3, <2>2, <3>1, <4>1, OneStream DEF Streaming
    <3>4. got'[sessions[d].id] = got[sessions[d].id]
      BY <1>7, <3>3
    <3> QED
      BY <1>2, <3>1, <3>2, <3>4 DEF InFlight
  <2> QED
    BY <2>1, <2>2
<1> QED
  BY <1>8, <1>9 DEF CommandInv

LEMMA CommandInit ==
    ASSUME Init
    PROVE  CommandInv
BY DEF Init, CommandInv, ChannelInv, Open, Ascends, UpTo

LEMMA CommandStep ==
    ASSUME Core, OwnerInv, CommandInv, [Next]_vars
    PROVE  CommandInv'
<1>1. CASE Next
  BY <1>1, QuietOrder, RestartOrder, ChannelOrder, SendCommandOrder, TakeOrder, SendOrder,
     ReceiveOrder
     DEF Next, Agent, StreamJobs, Faults
<1>2. CASE UNCHANGED vars
  BY <1>2 DEF vars, serverVars, history, CommandInv, ChannelInv, InFlight, Streaming, Open
<1> QED
  BY <1>1, <1>2

LEMMA CommandHolds == RegistrySpec => []CommandInv
<1> QED
  BY CommandInit, CommandStep, CoreHolds, OwnerHolds, PTL DEF RegistrySpec

\* Only Receive writes the last command received.
LEMMA GotFrame ==
    ASSUME Next, got' # got
    PROVE  \E h \in Host : Receive(h)
BY DEF Next, Agent, Auth, StreamJobs, Faults, Start, CallAuth, AuthAnswered, CallStreamJobs,
       Obey, UpdateFails, LookUpId, LookUpName, LookUpFails, CreateFails, NamePlaceholder,
       CreatePlaceholderAgent, AuthAt, RegisterAgent, OpenStream, GetCommandChannel,
       TakeCommand, Send, HandlerReturns, SendCommand, Break, AgentCrash, ServerRestart, Clone,
       history

\* An agent receives commands in the order in which they were accepted and
\* each at most once, although an old handler may read the same channel.
THEOREM ReceivedInOrder == RegistrySpec => CommandsInOrder
<1>1. ASSUME Core, CommandInv, [Next]_vars
      PROVE  [\A i \in AgentId : got'[i] # got[i] => got'[i] > got[i]]_got
  <2>1. CASE got' # got
    <3>1. Next
      BY <1>1, <2>1 DEF vars, history
    <3>2. PICK h \in Host : Receive(h)
      BY <2>1, <3>1, GotFrame
    <3> DEFINE i == sessions[proc[h].session].id
               n == Head(sessions[proc[h].session].wire)
    <3>3. /\ i \in AgentId /\ got[i] < n /\ n \in 1 .. MaxCommands
          /\ got' = [got EXCEPT ![i] = n]
      BY <1>1, <3>2, NextCommand
    <3>4. got \in [AgentId -> 0 .. MaxCommands]
      BY <1>1 DEF Core, RegistryTypeOK
    <3> HIDE DEF i, n
    <3>5. \A j \in AgentId : got'[j] # got[j] => j = i /\ got'[j] = n
      BY <3>3, <3>4
    <3>6. got[i] \in Nat /\ n \in Nat
      BY <3>3, <3>4, RegistryAssumption DEF RegistryAssumption
    <3> QED
      BY <3>3, <3>5, <3>6
  <2> QED
    BY <2>1
<1> QED
  BY <1>1, CoreHolds, CommandHolds, PTL DEF RegistrySpec, CommandsInOrder

-----------------------------------------------------------------------------
(***************************************************************************)
(* One row for each host.  While nothing went wrong with its Auth, what a  *)
(* host remembers, in memory, on disk or in a session, is the row with its *)
(* name, and a session makes one only when there is none.                  *)
(***************************************************************************)
Clear == Host \ (spoiled \cup unnamed)
HasName(h, i) == rows[i] = Fingerprint[h]

SessionNamed(c) ==
    LET h == sessions[c].host IN
    /\ InAuth(c) => sessions[c].live
    /\ sessions[c].pc \in {"create", "name"} => \A i \in AgentId : ~HasName(h, i)
    /\ sessions[c].pc # "name" /\ sessions[c].id # NoId => HasName(h, sessions[c].id)

NameInv ==
    \A h \in Clear :
        /\ \A i, k \in AgentId : HasName(h, i) /\ HasName(h, k) => i = k
        /\ \A c \in Open : sessions[c].host = h => SessionNamed(c)
        /\ proc[h].id # NoId => HasName(h, proc[h].id)
        /\ \A i \in AgentId : OnDisk(h, i) => HasName(h, i)

\* The hosts that are still clear keep their named row.
RowsStay == \A h \in Clear', i \in AgentId : HasName(h, i)' <=> HasName(h, i)

LEMMA NameFrame ==
    ASSUME Core, NameInv, spoiled \subseteq spoiled', unnamed \subseteq unnamed', RowsStay,
           \A d \in Open' : sessions'[d].host \in Clear' =>
              (d \in Open /\ sessions'[d] = sessions[d]) \/ SessionNamed(d)',
           \A h \in Clear' : \/ proc'[h].id \in {NoId, proc[h].id}
                             \/ proc'[h].id \in AgentId /\ HasName(h, proc'[h].id),
           \A h \in Clear', i \in AgentId : OnDisk(h, i)' => OnDisk(h, i) \/ HasName(h, i)
    PROVE  NameInv'
<1> SUFFICES ASSUME NEW h \in Clear'
             PROVE  /\ \A i, k \in AgentId : HasName(h, i)' /\ HasName(h, k)' => i = k
                    /\ \A c \in Open' : sessions'[c].host = h => SessionNamed(c)'
                    /\ proc'[h].id # NoId => rows'[proc'[h].id] = Fingerprint[h]
                    /\ \A i \in AgentId : OnDisk(h, i)' => HasName(h, i)'
  BY DEF NameInv, HasName
<1>1. h \in Clear /\ h \in Host
  BY DEF Clear
<1>2. \A i, k \in AgentId : HasName(h, i)' /\ HasName(h, k)' => i = k
  BY <1>1 DEF NameInv, RowsStay
<1>3. ASSUME NEW c \in Open', sessions'[c].host = h, c \in Open, sessions'[c] = sessions[c]
      PROVE  SessionNamed(c)'
  <2>1. SessionNamed(c)
    BY <1>1, <1>3 DEF NameInv
  <2>2. sessions[c].pc \notin {"byName", "create"} => sessions[c].id \in AgentId
    BY <1>3, CoreTypes
  <2>3. sessions[c].id \in AgentId \cup {NoId}
    BY <1>3, CoreTypes, RecordFields
  <2>4. InAuth(c)' <=> InAuth(c)
    BY <1>3 DEF InAuth
  <2>5. \A i \in AgentId : HasName(h, i)' <=> HasName(h, i)
    BY DEF RowsStay
  <2> QED
    BY <1>3, <2>1, <2>3, <2>4, <2>5 DEF SessionNamed
<1>4. proc'[h].id # NoId => rows'[proc'[h].id] = Fingerprint[h]
  <2>1. proc[h].id \in AgentId \cup {NoId}
    BY <1>1, CoreTypes
  <2>2. proc[h].id # NoId => HasName(h, proc[h].id)
    BY <1>1 DEF NameInv
  <2> QED
    BY <2>1, <2>2 DEF RowsStay, HasName
<1>5. \A i \in AgentId : OnDisk(h, i)' => HasName(h, i)'
  BY <1>1 DEF NameInv, RowsStay
<1> QED
  BY <1>2, <1>3, <1>4, <1>5

\* What NameRow does to the names: nothing that another host sees.
LEMMA NamingOne ==
    ASSUME Core, OwnerInv, NEW c \in Open, sessions[c].id \in AgentId, NameRow(c)
    PROVE  \E h \in Host, k \in AgentId :
              /\ h = sessions[c].host /\ k = sessions[c].id /\ HasName(h, k)'
              /\ \A g \in Host, i \in AgentId :
                    g # h \/ i # k => (HasName(g, i)' <=> HasName(g, i))
<1>1. PICK h \in Host, k \in AgentId : h = sessions[c].host /\ k = sessions[c].id
  BY CoreTypes, RecordFields
<1>2. rows'[k] = Fingerprint[h] /\ \A i \in AgentId \ {k} : rows'[i] = rows[i]
  BY <1>1 DEF NameRow, Core, RegistryTypeOK
<1>3. Claims(h, k)
  BY <1>1 DEF Claims, InSession
<1>4. rows[k] \in {Fingerprint[h], Pending}
  BY <1>3 DEF OwnerInv
<1>5. ASSUME NEW g \in Host, g # h PROVE ~HasName(g, k) /\ ~HasName(g, k)'
  BY <1>2, <1>4, <1>5, RegistryAssumption DEF HasName, RegistryAssumption
<1>6. ASSUME NEW g \in Host, NEW i \in AgentId, g # h \/ i # k
      PROVE  HasName(g, i)' <=> HasName(g, i)
  <2>1. CASE i = k
    BY <1>5, <1>6, <2>1
  <2>2. CASE i # k
    BY <1>2, <2>2 DEF HasName
  <2> QED
    BY <2>1, <2>2
<1>7. HasName(h, k)'
  BY <1>2 DEF HasName
<1> QED
  BY <1>1, <1>6, <1>7

\* A handler's step when the names stay: its own session is what is to see.
LEMMA HandlerName ==
    ASSUME Core, NameInv, NEW c \in Open, NEW r \in SessionRecord, Keeps(c, r),
           spoiled \subseteq spoiled', unnamed \subseteq unnamed', RowsStay,
           UNCHANGED <<proc, disk>>,
           sessions[c].host \in Clear' =>
              /\ r.pc \in {"byId", "byName", "create", "name"} => InAuth(c)
              /\ r.pc \in {"create", "name"} => \A i \in AgentId : ~HasName(r.host, i)
              /\ r.pc # "name" /\ r.id # NoId => HasName(r.host, r.id)
    PROVE  NameInv'
<1>1. /\ sessions'[c] = r /\ r.host = sessions[c].host /\ r.live = sessions[c].live
      /\ \A d \in Open' \ {c} : d \in Open /\ sessions'[d] = sessions[d]
  BY DEF Keeps, Turns, Open
<1>2. ASSUME sessions'[c].host \in Clear' PROVE SessionNamed(c)'
  <2>1. r.host \in Clear /\ r.host \in Clear'
    BY <1>1, <1>2 DEF Clear
  <2>2. SessionNamed(c)
    BY <1>1, <2>1 DEF NameInv
  <2>3. InAuth(c)' => sessions'[c].live
    BY <1>1, <2>1, <2>2 DEF SessionNamed, InAuth
  <2>4. r.id \in AgentId \cup {NoId}
    BY RecordFields
  <2>5. \A i \in AgentId : HasName(r.host, i)' <=> HasName(r.host, i)
    BY <2>1 DEF RowsStay
  <2>6. /\ r.pc \in {"create", "name"} => \A i \in AgentId : ~HasName(r.host, i)'
        /\ r.pc # "name" /\ r.id # NoId => HasName(r.host, r.id)'
    BY <1>1, <2>1, <2>4, <2>5
  <2> QED
    BY <1>1, <2>3, <2>6 DEF SessionNamed
<1>3. \A h \in Clear', i \in AgentId : proc'[h].id = proc[h].id /\ (OnDisk(h, i)' => OnDisk(h, i))
  BY DEF OnDisk
<1> QED
  BY <1>1, <1>2, <1>3, NameFrame

LEMMA RowsStayWhen ==
    ASSUME \A i \in AgentId : rows'[i] = rows[i] \/ (rows[i] = NoRow /\ rows'[i] = Pending)
    PROVE  RowsStay
BY RegistryAssumption DEF RowsStay, HasName, Clear, RegistryAssumption

\* The steps of a handler that keep the ID and make no row.
LEMMA SteadyName ==
    ASSUME Core, OwnerInv, NameInv, NEW c \in Session,
           \/ LookUpId(c) \/ RegisterAgent(c) \/ OpenStream(c) \/ GetCommandChannel(c)
           \/ TakeCommand(c) \/ Send(c)
    PROVE  NameInv'
<1>1. SessionTypes /\ DataTypes
  BY TypesSplit DEF Core
<1>2. UNCHANGED <<proc, disk, spoiled, unnamed>>
  BY DEF LookUpId, RegisterAgent, OpenStream, GetCommandChannel, TakeCommand, Send, AuthAt,
         history
<1>3. c \in Open /\ c \in Session /\ sessions[c].pc \notin {"byName", "create", "name"}
  BY <1>1, OpenSession
     DEF LookUpId, RegisterAgent, OpenStream, GetCommandChannel, TakeCommand, Send, AuthAt
<1>4. sessions[c].id \in AgentId /\ sessions[c].host \in Host
  BY <1>3, CoreTypes, RecordFields
<1>5. \E r \in SessionRecord :
         /\ Keeps(c, r) /\ r.id = sessions[c].id
         /\ r.pc \notin {"create", "name", "byId"}
         /\ r.pc = "byName" => InAuth(c)
  <2>1. CASE LookUpId(c)
    BY <1>1, <2>1, LookUpIdTurns DEF LookUpId, AuthAt, InAuth
  <2>2. CASE GetCommandChannel(c)
    BY <1>1, <1>4, <2>2, ChannelTurns DEF DataTypes
  <2>3. CASE TakeCommand(c)
    BY <1>1, <2>3, TakeTurns DEF DataTypes
  <2>4. CASE Send(c)
    <3>1. sessions[c].cmd # 0
      BY <1>3, <2>4, CoreTypes DEF Send, Sound
    <3> QED
      BY <1>1, <2>4, <3>1, SendTurns
  <2>5. CASE RegisterAgent(c) \/ OpenStream(c)
    <3>1. ~NamePlaceholder(c)
      BY <1>3 DEF NamePlaceholder, AuthAt
    <3> QED
      BY <1>1, <2>5, <3>1, HandlerGoesTurns
  <2> QED
    BY <2>1, <2>2, <2>3, <2>4, <2>5
<1>6. PICK r \in SessionRecord :
         /\ Keeps(c, r) /\ r.id = sessions[c].id
         /\ r.pc \notin {"create", "name", "byId"}
         /\ r.pc = "byName" => InAuth(c)
  BY <1>5
<1>7. sessions[c].host \in Clear => HasName(sessions[c].host, sessions[c].id)
  <2>1. sessions[c].host \in Clear => SessionNamed(c)
    BY <1>3 DEF NameInv
  <2> QED
    BY <1>3, <1>4, <2>1, RegistryAssumption DEF SessionNamed, RegistryAssumption
<1>8. RowsStay
  <2>1. CASE UNCHANGED rows
    BY <2>1, RowsStayWhen
  <2>2. CASE NameRow(c)
    BY <1>2, <1>3, <1>4, <1>7, <2>2, NamingOne DEF RowsStay, Clear
  <2> QED
    BY <2>1, <2>2
       DEF LookUpId, RegisterAgent, OpenStream, GetCommandChannel, TakeCommand, Send, serverVars
<1>9. sessions[c].host \in Clear' =>
         /\ r.pc \in {"byId", "byName", "create", "name"} => InAuth(c)
         /\ r.pc \in {"create", "name"} => \A i \in AgentId : ~HasName(r.host, i)
         /\ r.pc # "name" /\ r.id # NoId => HasName(r.host, r.id)
  BY <1>2, <1>6, <1>7 DEF Keeps, Clear
<1> QED
  BY <1>2, <1>3, <1>6, <1>8, <1>9, HandlerName

\* The steps of Auth by which a host finds its row, or makes one.
LEMMA SeekingName ==
    ASSUME Core, NameInv, NEW c \in Session,
           LookUpName(c) \/ LookUpFails(c) \/ \E i \in AgentId : CreatePlaceholderAgent(c, i)
    PROVE  NameInv'
<1>1. SessionTypes /\ DataTypes
  BY TypesSplit DEF Core
<1>2. UNCHANGED <<proc, disk, unnamed>> /\ spoiled \subseteq spoiled'
  BY DEF LookUpName, LookUpFails, CreatePlaceholderAgent, AuthAt, Spoil
<1>3. c \in Open /\ c \in Session /\ InAuth(c) /\ sessions[c].pc # "name"
  BY <1>1, OpenSession DEF LookUpName, LookUpFails, CreatePlaceholderAgent, AuthAt, InAuth
<1>4. RowsStay
  <2>1. ASSUME NEW i \in AgentId, CreatePlaceholderAgent(c, i)
        PROVE  \A k \in AgentId : rows'[k] = rows[k] \/ (rows[k] = NoRow /\ rows'[k] = Pending)
    BY <1>1, <2>1 DEF CreatePlaceholderAgent, DataTypes
  <2> QED
    BY <2>1, RowsStayWhen DEF LookUpName, LookUpFails
<1>5. sessions[c].host \in Clear' => sessions[c].host \in Clear /\ SessionNamed(c)
  BY <1>2, <1>3 DEF Clear, NameInv
<1>6. \E r \in SessionRecord :
         /\ Keeps(c, r)
         /\ sessions[c].host \in Clear' =>
              /\ r.pc \in {"create", "name"} => \A i \in AgentId : ~HasName(r.host, i)
              /\ r.pc # "name" /\ r.id # NoId => HasName(r.host, r.id)
  <2>1. CASE LookUpName(c)
    <3>1. PICK r \in SessionRecord :
             /\ Keeps(c, r)
             /\ \/ Named(c) = {} /\ r.pc = "create" /\ r.id = sessions[c].id
                \/ r.id \in Named(c) /\ r.pc = "answer"
      BY <1>1, <2>1, LookUpNameTurns
    <3>2. r.host = sessions[c].host
      BY <3>1 DEF Keeps
    <3>3. \A i \in AgentId : i \in Named(c) <=> HasName(r.host, i)
      BY <3>2 DEF Named, HasName
    <3>4. r.id \in Named(c) => r.id \in AgentId
      BY DEF Named
    <3> QED
      BY <1>3, <1>5, <3>1, <3>2, <3>3, <3>4 DEF SessionNamed
  <2>2. CASE LookUpFails(c)
    <3>1. PICK r \in SessionRecord :
             /\ Keeps(c, r) /\ r.id = sessions[c].id
             /\ \/ r.pc = "byName"
                \/ r.pc = "create" /\ Spoil(c)
      BY <1>1, <2>2, LookUpFailsTurns
    <3>2. Spoil(c) => sessions[c].host \notin Clear'
      BY DEF Spoil, Clear
    <3>3. r.host = sessions[c].host
      BY <3>1 DEF Keeps
    <3> QED
      BY <1>3, <1>5, <3>1, <3>2, <3>3 DEF SessionNamed
  <2>3. CASE \E i \in AgentId : CreatePlaceholderAgent(c, i)
    <3>1. sessions[c].pc = "create"
      BY <2>3 DEF CreatePlaceholderAgent, AuthAt
    <3>2. PICK r \in SessionRecord : Keeps(c, r) /\ r.pc = "name"
      BY <1>1, <2>3, CreateTurns
    <3>3. r.host = sessions[c].host
      BY <3>2 DEF Keeps
    <3> QED
      BY <1>5, <3>1, <3>2, <3>3 DEF SessionNamed
  <2> QED
    BY <2>1, <2>2, <2>3
<1>7. PICK r \in SessionRecord :
         /\ Keeps(c, r)
         /\ sessions[c].host \in Clear' =>
              /\ r.pc \in {"create", "name"} => \A i \in AgentId : ~HasName(r.host, i)
              /\ r.pc # "name" /\ r.id # NoId => HasName(r.host, r.id)
  BY <1>6
<1> QED
  BY <1>2, <1>3, <1>4, <1>7, HandlerName

\* A new row gets the name of its host, which has no other.
LEMMA NamingName ==
    ASSUME Core, OwnerInv, NameInv, NEW c \in Session, NamePlaceholder(c)
    PROVE  NameInv'
<1>1. SessionTypes /\ DataTypes
  BY TypesSplit DEF Core
<1>2. UNCHANGED <<proc, disk, spoiled>> /\ unnamed \subseteq unnamed'
  BY DEF NamePlaceholder, AuthAt
<1>3. c \in Open /\ c \in Session /\ InAuth(c) /\ sessions[c].pc = "name"
  BY <1>1, OpenSession DEF NamePlaceholder, AuthAt, InAuth
<1>4. sessions[c].host \in Host /\ sessions[c].id \in AgentId
  BY <1>3, CoreTypes, RecordFields
<1>5. PICK r \in SessionRecord : Keeps(c, r) /\ r.id = sessions[c].id /\ r.pc = "answer"
  <2>1. ~RegisterAgent(c) /\ ~OpenStream(c)
    BY <1>3 DEF RegisterAgent, OpenStream
  <2> QED
    BY <1>1, <2>1, HandlerGoesTurns
<1>6. CASE UNCHANGED rows /\ sessions[c].host \notin Clear'
  BY <1>2, <1>3, <1>5, <1>6, RowsStayWhen, HandlerName
<1>7. CASE NameRow(c) /\ UNCHANGED unnamed
  <2>1. PICK h \in Host, k \in AgentId :
           /\ h = sessions[c].host /\ k = sessions[c].id /\ HasName(h, k)'
           /\ \A g \in Host, i \in AgentId :
                 g # h \/ i # k => (HasName(g, i)' <=> HasName(g, i))
    BY <1>3, <1>4, <1>7, NamingOne
  <2>2. /\ sessions'[c] = r /\ r.host = h /\ r.live = sessions[c].live /\ r.pc = "answer"
        /\ r.id = k
        /\ \A d \in Open' \ {c} : d \in Open /\ sessions'[d] = sessions[d]
    BY <1>5, <2>1 DEF Keeps, Turns, Open
  <2>3. Clear' = Clear /\ \A g \in Host, i \in AgentId : OnDisk(g, i)' <=> OnDisk(g, i)
    BY <1>2, <1>7 DEF Clear, OnDisk
  <2>4. ASSUME NEW g \in Clear', g # h
        PROVE  /\ \A i, j \in AgentId : HasName(g, i)' /\ HasName(g, j)' => i = j
               /\ \A d \in Open' : sessions'[d].host = g => SessionNamed(d)'
               /\ proc'[g].id # NoId => rows'[proc'[g].id] = Fingerprint[g]
               /\ \A i \in AgentId : OnDisk(g, i)' => HasName(g, i)'
    <3>1. /\ g \in Host /\ g \in Clear
          /\ \A i \in AgentId : HasName(g, i)' <=> HasName(g, i)
      BY <2>1, <2>3, <2>4 DEF Clear
    <3>2. ASSUME NEW d \in Open', sessions'[d].host = g PROVE SessionNamed(d)'
      <4>1. d \in Open /\ sessions'[d] = sessions[d] /\ SessionNamed(d)
        BY <2>2, <2>4, <3>1, <3>2 DEF NameInv
      <4>2. sessions[d].id \in AgentId \cup {NoId} /\ (InAuth(d)' <=> InAuth(d))
        BY <4>1, CoreTypes, RecordFields DEF InAuth
      <4> QED
        BY <3>1, <3>2, <4>1, <4>2 DEF SessionNamed
    <3>3. proc'[g].id # NoId => rows'[proc'[g].id] = Fingerprint[g]
      <4>1. proc'[g] = proc[g] /\ proc[g].id \in AgentId \cup {NoId}
        BY <1>2, <3>1, CoreTypes
      <4> QED
        BY <3>1, <4>1 DEF NameInv, HasName
    <3> QED
      BY <2>3, <3>1, <3>2, <3>3 DEF NameInv
  <2>5. ASSUME h \in Clear'
        PROVE  /\ \A i, j \in AgentId : HasName(h, i)' /\ HasName(h, j)' => i = j
               /\ \A d \in Open' : sessions'[d].host = h => SessionNamed(d)'
               /\ proc'[h].id # NoId => rows'[proc'[h].id] = Fingerprint[h]
               /\ \A i \in AgentId : OnDisk(h, i)' => HasName(h, i)'
    <3>1. h \in Clear /\ SessionNamed(c)
      BY <1>3, <2>1, <2>3, <2>5 DEF NameInv
    <3>2. sessions[c].live /\ \A i \in AgentId : ~HasName(h, i)
      BY <1>3, <2>1, <3>1 DEF SessionNamed
    <3>3. \A i, j \in AgentId : HasName(h, i)' /\ HasName(h, j)' => i = j
      BY <2>1, <3>2
    <3>4. ASSUME NEW d \in Open', sessions'[d].host = h PROVE SessionNamed(d)'
      <4>1. CASE d = c
        <5>1. ~InAuth(c)' /\ sessions'[c].pc = "answer"
          BY <2>2 DEF InAuth
        <5>2. rows'[k] = Fingerprint[h]
          BY <2>1 DEF HasName
        <5> QED
          BY <2>2, <4>1, <5>1, <5>2 DEF SessionNamed, HasName
      <4>2. CASE d # c
        <5>1. d \in Open /\ sessions'[d] = sessions[d] /\ SessionNamed(d)
          BY <2>2, <3>1, <3>4, <4>2 DEF NameInv
        <5>2. ~InAuth(d)
          BY <1>3, <2>1, <3>2, <3>4, <4>2, <5>1 DEF SessionNamed, Core, SessionInv
        <5>3. sessions[d].pc \notin {"create", "name"} /\ ~InAuth(d)'
          BY <5>1, <5>2 DEF InAuth
        <5>4. sessions[d].id = NoId
          <6>1. sessions[d].id \in AgentId \cup {NoId}
            BY <5>1, CoreTypes, RecordFields
          <6> QED
            BY <3>2, <3>4, <5>1, <5>3, <6>1 DEF SessionNamed
        <5> QED
          BY <5>1, <5>3, <5>4 DEF SessionNamed
      <4> QED
        BY <4>1, <4>2
    <3>5. proc[h].id = NoId
      <4>1. proc[h].id \in AgentId \cup {NoId}
        BY CoreTypes
      <4> QED
        BY <3>1, <3>2, <4>1 DEF NameInv
    <3>6. \A i \in AgentId : ~OnDisk(h, i)
      BY <3>1, <3>2 DEF NameInv
    <3> QED
      BY <1>2, <2>3, <3>3, <3>4, <3>5, <3>6
  <2> QED
    BY <2>4, <2>5 DEF NameInv, HasName
<1>8. (UNCHANGED rows /\ sessions[c].host \notin Clear') \/ (NameRow(c) /\ UNCHANGED unnamed)
  BY DEF NamePlaceholder, Clear
<1> QED
  BY <1>6, <1>7, <1>8

\* What a clear host remembers is the row with its name.
LEMMA RememberedName ==
    ASSUME Core, NameInv, NEW h \in Clear
    PROVE  /\ proc[h].id \in AgentId \cup {NoId} /\ LoadAgentID(h) \in AgentId \cup {NoId}
           /\ proc[h].id # NoId => HasName(h, proc[h].id)
           /\ LoadAgentID(h) # NoId => HasName(h, LoadAgentID(h))
<1>1. h \in Host
  BY DEF Clear
<1>2. proc[h].id \in AgentId \cup {NoId} /\ LoadAgentID(h) \in AgentId \cup {NoId}
  BY <1>1, CoreTypes
<1>3. LoadAgentID(h) # NoId => OnDisk(h, LoadAgentID(h))
  BY <1>1 DEF LoadAgentID, OnDisk
<1> QED
  BY <1>2, <1>3 DEF NameInv

LEMMA CallName ==
    ASSUME Core, NameInv, NEW h \in Host, CallAuth(h)
    PROVE  NameInv'
<1>1. SessionTypes /\ DataTypes
  BY TypesSplit DEF Core
<1>2. UNCHANGED <<rows, disk, spoiled, unnamed>> /\ Clear' = Clear
  BY DEF CallAuth, history, serverVars, Clear
<1>3. PICK c \in Session \ Open, id \in {LoadAgentID(h), proc[h].id} :
         /\ proc' = [proc EXCEPT ![h].id = id, ![h].session = c]
         /\ \E r \in SessionRecord :
               /\ Turns(c, r) /\ r.host = h /\ r.live /\ r.id = id
               /\ r.pc = IF id = NoId THEN "byName" ELSE "byId"
  BY <1>1, CallTurns, CoreTypes
<1>4. PICK r \in SessionRecord :
         /\ Turns(c, r) /\ r.host = h /\ r.live /\ r.id = id
         /\ r.pc = IF id = NoId THEN "byName" ELSE "byId"
  BY <1>3
<1>5. RowsStay
  BY <1>2, RowsStayWhen
<1>6. h \in Clear => id \in AgentId \cup {NoId} /\ (id # NoId => HasName(h, id))
  BY RememberedName
<1>7. ASSUME NEW d \in Open', sessions'[d].host \in Clear'
      PROVE  (d \in Open /\ sessions'[d] = sessions[d]) \/ SessionNamed(d)'
  <2>1. CASE d = c
    <3>1. sessions'[c] = r /\ r.host \in Clear
      BY <1>2, <1>4, <1>7, <2>1 DEF Turns
    <3>2. id # NoId => rows'[id] = Fingerprint[h]
      BY <1>2, <1>4, <1>6, <3>1 DEF HasName
    <3> QED
      BY <1>4, <2>1, <3>1, <3>2 DEF SessionNamed, HasName
  <2>2. CASE d # c
    BY <1>4, <1>7, <2>2 DEF Turns, Open
  <2> QED
    BY <2>1, <2>2
<1>8. ASSUME NEW g \in Clear'
      PROVE  \/ proc'[g].id \in {NoId, proc[g].id}
             \/ proc'[g].id \in AgentId /\ HasName(g, proc'[g].id)
  <2>1. proc[h] \in Process /\ g \in Host
    BY CoreTypes DEF Clear
  <2>2. CASE g = h
    <3>1. proc'[h].id = id
      BY <1>1, <1>3, <2>1 DEF DataTypes, Process
    <3> QED
      BY <1>2, <1>6, <2>2, <3>1 DEF HasName
  <2>3. CASE g # h
    BY <1>1, <1>3, <2>1, <2>3 DEF DataTypes
  <2> QED
    BY <2>2, <2>3
<1>9. \A g \in Clear', i \in AgentId : OnDisk(g, i)' => OnDisk(g, i)
  BY <1>2 DEF OnDisk
<1> QED
  BY <1>2, <1>5, <1>7, <1>8, <1>9, NameFrame

LEMMA AgentName ==
    ASSUME Core, NameInv, NEW h \in Host,
           AuthAnswered(h) \/ CallStreamJobs(h) \/ Receive(h)
    PROVE  NameInv'
<1>1. SessionTypes /\ DataTypes
  BY TypesSplit DEF Core
<1>2. UNCHANGED <<rows, spoiled, unnamed>> /\ Clear' = Clear
  BY DEF AuthAnswered, CallStreamJobs, Receive, history, serverVars, Clear
<1>3. PICK c \in Open : c = proc[h].session /\ sessions[c].host = h
  <2>1. proc[h].session # NoSession
    BY DEF AuthAnswered, CallStreamJobs, Receive, Core, ProcInv
  <2> QED
    BY <2>1, CurrentSession
<1>4. c \in Session /\ sessions[c] \in SessionRecord /\ Sound(sessions[c]) /\ proc[h] \in Process
  BY CoreTypes
<1>5. \E r \in SessionRecord :
         /\ Keeps(c, r) /\ r.id = sessions[c].id
         /\ r.pc \notin {"byId", "byName", "create", "name"}
         /\ sessions[c].pc # "name" /\ sessions[c].id \in AgentId
  <2>1. CASE AuthAnswered(h) \/ CallStreamJobs(h)
    <3>1. PICK to \in {"register", "open"} : Goes(c, to)
      BY <1>3, <2>1 DEF AuthAnswered, CallStreamJobs
    <3>2. to \in Call /\ sessions[c].pc \in {"answer", "idle"}
      BY <1>3, <2>1 DEF Call, AuthAnswered, CallStreamJobs
    <3>3. sessions[c].id \in AgentId
      BY <3>2, CoreTypes
    <3> QED
      BY <1>1, <3>1, <3>2, <3>3, GoesTurns DEF Keeps
  <2>2. CASE Receive(h)
    <3>1. sessions[c].pc \in {"loop", "send"}
      BY <1>3, <1>4, <2>2 DEF Receive, Sound
    <3>2. sessions[c].id \in AgentId
      BY <3>1, CoreTypes
    <3> QED
      BY <1>1, <1>3, <2>2, <3>1, <3>2, ReceiveTurns
  <2> QED
    BY <2>1, <2>2
<1>6. PICK r \in SessionRecord :
         /\ Keeps(c, r) /\ r.id = sessions[c].id
         /\ r.pc \notin {"byId", "byName", "create", "name"}
         /\ sessions[c].pc # "name" /\ sessions[c].id \in AgentId
  BY <1>5
<1>7. h \in Clear => HasName(h, sessions[c].id)
  <2>1. h \in Clear => SessionNamed(c)
    BY <1>3 DEF NameInv
  <2> QED
    BY <1>3, <1>6, <2>1, RegistryAssumption DEF SessionNamed, RegistryAssumption
<1>8. RowsStay
  BY <1>2, RowsStayWhen
<1>9. ASSUME NEW d \in Open', sessions'[d].host \in Clear'
      PROVE  (d \in Open /\ sessions'[d] = sessions[d]) \/ SessionNamed(d)'
  <2>1. CASE d = c
    <3>1. sessions'[c] = r /\ r.host = h /\ h \in Clear
      BY <1>2, <1>3, <1>6, <1>9, <2>1 DEF Keeps, Turns
    <3>2. rows'[r.id] = Fingerprint[h]
      BY <1>2, <1>6, <1>7, <3>1 DEF HasName
    <3>3. ~InAuth(c)'
      BY <1>6, <3>1 DEF InAuth
    <3> QED
      BY <1>6, <2>1, <3>1, <3>2, <3>3 DEF SessionNamed, HasName
  <2>2. CASE d # c
    BY <1>6, <1>9, <2>2 DEF Keeps, Turns, Open
  <2> QED
    BY <2>1, <2>2
<1>10. ASSUME NEW g \in Clear'
       PROVE  \/ proc'[g].id \in {NoId, proc[g].id}
              \/ proc'[g].id \in AgentId /\ HasName(g, proc'[g].id)
  <2>1. g \in Host
    BY DEF Clear
  <2>2. CASE g = h
    <3>1. proc'[h].id \in {proc[h].id, sessions[c].id}
      BY <1>1, <1>3, <1>4 DEF AuthAnswered, CallStreamJobs, Receive, DataTypes, Process
    <3> QED
      BY <1>2, <1>6, <1>7, <2>2, <3>1
  <2>3. CASE g # h
    BY <1>1, <2>1, <2>3 DEF AuthAnswered, CallStreamJobs, Receive, DataTypes
  <2> QED
    BY <2>2, <2>3
<1>11. ASSUME NEW g \in Clear', NEW i \in AgentId, OnDisk(g, i)'
       PROVE  OnDisk(g, i) \/ HasName(g, i)
  <2>1. g \in Host
    BY DEF Clear
  <2>2. CASE UNCHANGED disk
    BY <1>11, <2>2 DEF OnDisk
  <2>3. CASE ~UNCHANGED disk
    <3>1. SaveAgentID(h, sessions[c].id)
      BY <1>3, <2>3 DEF AuthAnswered, CallStreamJobs, Receive
    <3>2. /\ disk'[h] = [id |-> sessions[c].id, fingerprint |-> Fingerprint[h]]
          /\ \A f \in Host \ {h} : disk'[f] = disk[f]
      BY <1>1, <3>1 DEF SaveAgentID, DataTypes
    <3>3. disk'[h].fingerprint = Fingerprint[h] /\ disk'[h].id = sessions[c].id
      BY <3>2
    <3>4. PICK f \in Host : /\ disk'[f] # NoIdentity /\ disk'[f].id = i
                            /\ disk'[f].fingerprint = Fingerprint[g]
      BY <1>11 DEF OnDisk
    <3>5. CASE f = h
      <4>1. g = h /\ i = sessions[c].id
        BY <2>1, <3>3, <3>4, <3>5, RegistryAssumption DEF RegistryAssumption
      <4> QED
        BY <1>2, <1>7, <4>1
    <3>6. CASE f # h
      BY <3>2, <3>4, <3>6 DEF OnDisk
    <3> QED
      BY <3>5, <3>6
  <2> QED
    BY <2>2, <2>3
<1> QED
  BY <1>2, <1>8, <1>9, <1>10, <1>11, NameFrame

\* The agent leaves: an Auth that is left running spoils its host.
LEMMA LeaveName ==
    ASSUME Core, NameInv, NEW h \in Host, Obey(h) \/ Break(h) \/ AgentCrash(h)
    PROVE  NameInv'
<1>1. SessionTypes /\ DataTypes
  BY TypesSplit DEF Core
<1>2. UNCHANGED <<rows, unnamed>> /\ spoiled \subseteq spoiled'
  BY DEF Obey, Break, AgentCrash, CutShort, Spoil, history, serverVars
<1>3. RowsStay
  BY <1>2, RowsStayWhen
<1>4. Left(Current(h)) /\ Current(h) \subseteq Open
  <2>1. Current(h) \subseteq Open /\ Leave(Current(h))
    BY CurrentSession DEF Current, Obey, Break, AgentCrash
  <2> QED
    BY <1>1, <2>1, LeaveIsLeft
<1>5. ASSUME NEW d \in Open', sessions'[d].host \in Clear'
      PROVE  (d \in Open /\ sessions'[d] = sessions[d]) \/ SessionNamed(d)'
  <2>1. CASE d \notin Current(h)
    BY <1>4, <1>5, <2>1 DEF Left, Open
  <2>2. CASE d \in Current(h)
    <3>1. /\ d \in Open /\ d = proc[h].session /\ d # NoSession /\ sessions[d].host = h
      BY <1>4, <2>2, CurrentSession DEF Current
    <3>2. /\ sessions'[d].pc = sessions[d].pc /\ sessions'[d].host = h
          /\ sessions'[d].id = sessions[d].id
      BY <1>4, <1>5, <2>2, <3>1 DEF Left, Open
    <3>3. h \in Clear /\ SessionNamed(d)
      BY <1>2, <1>5, <3>1, <3>2 DEF Clear, NameInv
    <3>4. ~InAuth(d)
      <4>1. CASE Obey(h)
        BY <3>1, <4>1 DEF Obey, Core, ProcInv, Streams, InAuth
      <4>2. CASE Break(h) \/ AgentCrash(h)
        <5>1. CutShort(d)
          BY <3>1, <4>2 DEF Break, AgentCrash
        <5> QED
          BY <1>5, <3>1, <3>2, <5>1 DEF CutShort, Spoil, Clear
      <4> QED
        BY <4>1, <4>2
    <3>5. ~InAuth(d)' /\ sessions[d].pc \notin {"create", "name"}
      BY <3>2, <3>4 DEF InAuth
    <3>6. sessions[d].id # NoId => rows'[sessions[d].id] = Fingerprint[h]
      BY <1>2, <3>1, <3>3, <3>5 DEF SessionNamed, HasName
    <3> QED
      BY <3>2, <3>5, <3>6 DEF SessionNamed, HasName
  <2> QED
    BY <2>1, <2>2
<1>6. ASSUME NEW g \in Clear' PROVE proc'[g].id \in {NoId, proc[g].id}
  <2>1. proc[g] \in Process /\ g \in Host /\ Down.id = NoId /\ Reconnecting(g).id = proc[g].id
    BY CoreTypes DEF Down, Reconnecting, Clear
  <2>2. Lost(g).id = proc[g].id
    BY <2>1 DEF Lost, Process
  <2>3. proc'[g] \in {Down, Lost(g), proc[g]}
    BY <1>1, <2>1 DEF Obey, Break, AgentCrash, DataTypes
  <2> QED
    BY <2>1, <2>2, <2>3
<1>7. \A g \in Clear', i \in AgentId : OnDisk(g, i)' => OnDisk(g, i)
  <2>1. \A f \in Host : disk'[f] = disk[f] \/ disk'[f] = NoIdentity
    BY <1>1 DEF Obey, Break, AgentCrash, DataTypes
  <2> QED
    BY <2>1 DEF OnDisk
<1> QED
  BY <1>2, <1>3, <1>5, <1>6, <1>7, NameFrame

\* The other steps leave what the sessions that stay open know.
LEMMA EndingName ==
    ASSUME Core, NameInv,
           \/ \E c \in Session : CreateFails(c) \/ HandlerReturns(c)
           \/ \E h \in Host : Start(h) \/ UpdateFails(h)
           \/ \E g, h \in Host : Clone(g, h)
           \/ ServerRestart
           \/ \E i \in AgentId : SendCommand(i)
    PROVE  NameInv'
<1>1. SessionTypes /\ DataTypes
  BY TypesSplit DEF Core
<1>2. UNCHANGED <<spoiled, unnamed>>
  BY DEF CreateFails, HandlerReturns, Start, UpdateFails, Clone, ServerRestart, SendCommand,
         history
<1>3. RowsStay
  <2>1. \A i \in AgentId : rows'[i] = rows[i] \/ (rows[i] = NoRow /\ rows'[i] = Pending)
    <3>1. CASE \E c \in Session : CreateFails(c)
      BY <1>1, <3>1 DEF CreateFails, DataTypes
    <3>2. CASE UNCHANGED rows
      BY <3>2
    <3> QED
      BY <3>1, <3>2
         DEF HandlerReturns, Start, UpdateFails, Clone, ServerRestart, SendCommand, serverVars
  <2> QED
    BY <2>1, RowsStayWhen
<1>4. \A d \in Open' : d \in Open /\ sessions'[d] = sessions[d]
  <2>1. CASE \E c \in Session : CreateFails(c) \/ HandlerReturns(c)
    BY <1>1, <2>1 DEF CreateFails, HandlerReturns, Open, SessionTypes
  <2>2. CASE ServerRestart
    BY <2>2 DEF ServerRestart, Open
  <2>3. CASE UNCHANGED sessions
    BY <2>3 DEF Open
  <2> QED
    BY <2>1, <2>2, <2>3 DEF Start, UpdateFails, Clone, SendCommand
<1>5. ASSUME NEW h \in Clear' PROVE proc'[h].id \in {NoId, proc[h].id}
  <2>1. proc[h] \in Process /\ h \in Host /\ Reconnecting(h).id = proc[h].id
    BY CoreTypes DEF Reconnecting, Clear
  <2>2. Lost(h).id = proc[h].id
    BY <2>1 DEF Lost, Process
  <2>3. [proc[h] EXCEPT !.pc = "stream"].id = proc[h].id
    BY <2>1 DEF Process
  <2>4. CASE \E g \in Host : Start(g) \/ UpdateFails(g)
    <3>1. proc'[h] \in {proc[h], Reconnecting(h), [proc[h] EXCEPT !.pc = "stream"]}
      BY <1>1, <2>1, <2>4 DEF Start, UpdateFails, DataTypes
    <3> QED
      BY <2>1, <2>3, <3>1
  <2>5. CASE \E c \in Session : CreateFails(c)
    BY <2>1, <2>5 DEF CreateFails
  <2>6. CASE ServerRestart
    BY <2>1, <2>2, <2>6 DEF ServerRestart
  <2>7. CASE UNCHANGED proc
    BY <2>7
  <2> QED
    BY <2>4, <2>5, <2>6, <2>7 DEF HandlerReturns, Clone, SendCommand
<1>6. \A g \in Clear', i \in AgentId : OnDisk(g, i)' => OnDisk(g, i)
  <2>1. \A g \in Host : \E f \in Host : disk'[g] = disk[f]
    <3>1. CASE \E a, b \in Host : Clone(a, b)
      BY <1>1, <3>1 DEF Clone, DataTypes
    <3>2. CASE UNCHANGED disk
      BY <3>2
    <3> QED
      BY <3>1, <3>2
         DEF CreateFails, HandlerReturns, Start, UpdateFails, ServerRestart, SendCommand
  <2> QED
    BY <2>1 DEF OnDisk
<1> QED
  BY <1>2, <1>3, <1>4, <1>5, <1>6, NameFrame

LEMMA NameInit ==
    ASSUME Init
    PROVE  NameInv
<1>1. \A h \in Host : proc[h].id = NoId /\ disk[h] = NoIdentity
  BY DEF Init, Down
<1>2. \A h \in Host, i \in AgentId : ~HasName(h, i)
  BY RegistryAssumption DEF Init, HasName, RegistryAssumption
<1>3. Open = {}
  BY DEF Init, Open
<1> QED
  BY <1>1, <1>2, <1>3 DEF NameInv, Clear, OnDisk

LEMMA NameStep ==
    ASSUME Core, OwnerInv, NameInv, [Next]_vars
    PROVE  NameInv'
<1>1. CASE Next
  BY <1>1, SteadyName, SeekingName, NamingName, CallName, AgentName, LeaveName, EndingName
     DEF Next, Agent, Auth, StreamJobs, Faults
<1>2. CASE UNCHANGED vars
  BY <1>2
     DEF vars, serverVars, history, NameInv, HasName, SessionNamed, InAuth, OnDisk, Clear, Open
<1> QED
  BY <1>1, <1>2

LEMMA NameHolds == RegistrySpec => []NameInv
<1> QED
  BY NameInit, NameStep, CoreHolds, OwnerHolds, PTL DEF RegistrySpec

\* A machine keeps one row through restarts of its process, its container
\* and the server, unless its Auth was left running, a lookup by name
\* failed, or its new row was not named.
THEOREM OneRow == RegistrySpec => []OneRowPerHost
<1>1. NameInv => OneRowPerHost
  <2> SUFFICES ASSUME NameInv, NEW h \in Clear
               PROVE  Cardinality({i \in AgentId : rows[i] = Fingerprint[h]}) <= 1
    BY DEF OneRowPerHost, Clear
  <2> DEFINE S == {i \in AgentId : rows[i] = Fingerprint[h]}
  <2>1. \A i, k \in S : i = k
    BY DEF NameInv, HasName
  <2>2. CASE S = {}
    BY <2>2, FS_EmptySet
  <2>3. CASE S # {}
    <3>1. PICK i \in S : S = {i}
      BY <2>1, <2>3
    <3> HIDE DEF S
    <3>2. Cardinality(S) = 1
      BY <3>1, FS_Singleton
    <3> QED
      BY <3>2 DEF S
  <2> QED
    BY <2>2, <2>3
<1> QED
  BY <1>1, NameHolds, PTL

=============================================================================
