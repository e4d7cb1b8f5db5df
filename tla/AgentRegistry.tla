---------------------------- MODULE AgentRegistry ----------------------------
(***************************************************************************)
(* Who an agent is and how commands reach it: Auth, RegisterAgent and the  *)
(* command branch of StreamJobs (internal/adapters/handler/grpc/server.go) *)
(* over AgentManager and the table agents, and the connection loop and     *)
(* saved identity of the agents (internal/agent/agent.go).                 *)
(*                                                                         *)
(* A session is one pass through the agent's loop, as the server sees it:  *)
(* the Auth and RegisterAgent calls and the job stream that follows.  When *)
(* the agent is gone its handler stays until the server notices, so a      *)
(* handler of an earlier pass may run beside that of the present one.      *)
(***************************************************************************)
EXTENDS Naturals, Sequences, FiniteSets

CONSTANTS
    Host,             \* the machines, one agent on each
    Fingerprint,      \* Fingerprint[h]: the hostname h reports
    AgentId,          \* primary keys of agents; the database orders by them
    Session, Channel,
    ChannelCapacity,  \* 10 in the code
    NoRow, Pending, NoId, NoIdentity, NoChannel, NoSession,
    MaxCommands,      \* bound: commands the operator sends
    MaxFaults         \* bound: things that go wrong

\* Register makes a channel with every entry, so there are enough of them.
ASSUME RegistryAssumption ==
    /\ AgentId \subseteq Nat /\ NoId \notin AgentId
    /\ IsFiniteSet(AgentId) /\ IsFiniteSet(Channel)
    /\ Cardinality(AgentId) <= Cardinality(Channel)
    /\ ChannelCapacity \in Nat \ {0} /\ MaxCommands \in Nat /\ MaxFaults \in Nat
    /\ \A g, h \in Host : Fingerprint[g] = Fingerprint[h] => g = h
    /\ \A h \in Host : Fingerprint[h] \notin {NoRow, Pending}
    /\ NoRow # Pending /\ NoChannel \notin Channel /\ NoSession \notin Session

VARIABLES
    rows,      \* table agents: the name of each row
    agents,    \* AgentManager.agents: the channel of each entry
    chans,     \* what each command channel holds
    sessions,
    disk,      \* disk[h]: the file /data/agent_id
    proc,      \* proc[h]: the agent process
    sent,      \* number of commands accepted; commands are numbered
    got,       \* history: the last command received under each ID
    spoiled,   \* history: hosts that may have more than one row
    unnamed,   \* history: hosts whose new row was left without its name
    faults

serverVars == <<rows, agents, chans>>
history == <<sent, got, spoiled, unnamed>>
vars == <<serverVars, sessions, disk, proc, history, faults>>

Name == {Fingerprint[h] : h \in Host} \cup {Pending}
Identity == [id : AgentId, fingerprint : Name]

\* idle: between two calls of the agent.  wire: commands sent, not received.
Call == {"byId", "byName", "create", "name", "answer", "register", "idle",
         "open", "channel", "loop", "send"}
Closed == [pc |-> "closed"]
SessionRecord == [pc : Call, host : Host, live : BOOLEAN, id : AgentId \cup {NoId},
                  ch : Channel \cup {NoChannel}, cmd : 0 .. MaxCommands,
                  wire : Seq(1 .. MaxCommands)]

Process == [pc : {"down", "register", "stream", "obey"}, id : AgentId \cup {NoId},
            session : Session \cup {NoSession}]
Down == [pc |-> "down", id |-> NoId, session |-> NoSession]
Reconnecting(h) == [pc |-> "register", id |-> proc[h].id, session |-> NoSession]

Open == {c \in Session : sessions[c] # Closed}
InAuth(c) == sessions[c].pc \in {"byId", "byName", "create", "name"}
Goes(c, to) == sessions' = [sessions EXCEPT ![c].pc = to]

Fault == faults < MaxFaults /\ faults' = faults + 1
\* A call made with the context of a client that is gone may fail as well.
DBFails(c) == Fault \/ (~sessions[c].live /\ UNCHANGED faults)
Spoil(c) == spoiled' = spoiled \cup {sessions[c].host}

Init ==
    /\ rows = [i \in AgentId |-> NoRow]
    /\ agents = [i \in AgentId |-> NoChannel]
    /\ chans = [k \in Channel |-> <<>>]
    /\ sessions = [c \in Session |-> Closed]
    /\ disk = [h \in Host |-> NoIdentity]
    /\ proc = [h \in Host |-> Down]
    /\ sent = 0 /\ got = [i \in AgentId |-> 0]
    /\ spoiled = {} /\ unnamed = {} /\ faults = 0

-----------------------------------------------------------------------------
(***************************************************************************)
(* AgentManager.                                                           *)
(***************************************************************************)
Unused == {k \in Channel : /\ chans[k] = <<>>
                           /\ \A i \in AgentId : agents[i] # k
                           /\ \A c \in Open : sessions[c].ch # k}

\* Mutant: an agent that registers again gets a new entry.
RegisterAfresh(i) ==
    agents' = IF Unused = {} THEN agents
              ELSE [agents EXCEPT ![i] = CHOOSE k \in Unused : TRUE]

\* AgentManager.Register: an entry that exists keeps its channel.
Register(i) ==
    agents' = IF agents[i] # NoChannel THEN agents
              ELSE [agents EXCEPT ![i] = CHOOSE k \in Unused : TRUE]

\* Mutant: the command is queued although the channel is full.
SendCommandAnyway(i) ==
    /\ sent < MaxCommands /\ agents[i] # NoChannel
    /\ sent' = sent + 1
    /\ chans' = [chans EXCEPT ![agents[i]] = Append(@, sent')]
    /\ UNCHANGED <<rows, agents, sessions, disk, proc, got, spoiled, unnamed, faults>>

\* AgentManager.SendCommand refuses when there is no entry or no room.
HasRoom(i) == agents[i] # NoChannel /\ Len(chans[agents[i]]) < ChannelCapacity

\* handleRestartAgent and handleUpdateAgent.
SendCommand(i) ==
    /\ sent < MaxCommands /\ HasRoom(i)
    /\ sent' = sent + 1
    /\ chans' = [chans EXCEPT ![agents[i]] = Append(@, sent')]
    /\ UNCHANGED <<rows, agents, sessions, disk, proc, got, spoiled, unnamed, faults>>

-----------------------------------------------------------------------------
(***************************************************************************)
(* The agent: Run, register and streamJobs.                                *)
(***************************************************************************)
\* Mutant: the fingerprint in the file is not compared.
LoadAnyAgentID(h) == IF disk[h] = NoIdentity THEN NoId ELSE disk[h].id

\* A file written on another machine is not believed.
LoadAgentID(h) ==
    IF disk[h] = NoIdentity \/ disk[h].fingerprint # Fingerprint[h]
    THEN NoId ELSE disk[h].id

SaveAgentID(h, i) ==
    disk' = [disk EXCEPT ![h] = [id |-> i, fingerprint |-> Fingerprint[h]]]

\* The process starts, by hand or by its supervisor.
Start(h) ==
    /\ proc[h].pc = "down"
    /\ proc' = [proc EXCEPT ![h] = Reconnecting(h)]
    /\ UNCHANGED <<serverVars, sessions, disk, history, faults>>

\* register calls Auth with the saved ID, or else the one it has in memory.
CallAuth(h) ==
    /\ proc[h].pc = "register" /\ proc[h].session = NoSession
    /\ Open # Session
    /\ LET c == CHOOSE d \in Session : d \notin Open
           id == IF LoadAgentID(h) # NoId THEN LoadAgentID(h) ELSE proc[h].id
       IN /\ proc' = [proc EXCEPT ![h].id = id, ![h].session = c]
          /\ sessions' = [sessions EXCEPT ![c] =
                            [pc |-> IF id = NoId THEN "byName" ELSE "byId",
                             host |-> h, live |-> TRUE, id |-> id,
                             ch |-> NoChannel, cmd |-> 0, wire |-> <<>>]]
    /\ UNCHANGED <<serverVars, disk, history, faults>>

\* The answer to Auth: an ID that changed is saved, if the disk allows.
AuthAnswered(h) ==
    LET c == proc[h].session IN
    /\ c # NoSession /\ sessions[c].pc = "answer"
    /\ proc' = [proc EXCEPT ![h].id = sessions[c].id]
    /\ \/ sessions[c].id = LoadAgentID(h) /\ UNCHANGED <<disk, faults>>
       \/ /\ sessions[c].id # LoadAgentID(h)
          /\ \/ SaveAgentID(h, sessions[c].id) /\ UNCHANGED faults
             \/ Fault /\ UNCHANGED disk
    /\ Goes(c, "register")
    /\ UNCHANGED <<serverVars, history>>

\* RegisterAgent was answered: the agent opens its job stream.
CallStreamJobs(h) ==
    LET c == proc[h].session IN
    /\ c # NoSession /\ sessions[c].pc = "idle"
    /\ proc' = [proc EXCEPT ![h].pc = "stream"]
    /\ Goes(c, "open")
    /\ UNCHANGED <<serverVars, disk, history, faults>>

Receive(h) ==
    LET c == proc[h].session IN
    /\ proc[h].pc = "stream" /\ sessions[c].wire # <<>>
    /\ sessions' = [sessions EXCEPT ![c].wire = Tail(@)]
    /\ got' = [got EXCEPT ![sessions[c].id] = Head(sessions[c].wire)]
    /\ proc' = [proc EXCEPT ![h].pc = "obey"]
    /\ UNCHANGED <<serverVars, disk, sent, spoiled, unnamed, faults>>

\* The client's end of a session is gone, and its handler may still run.
Leave(cs) == sessions' = [c \in Session |->
                            IF c \notin cs THEN sessions[c]
                            ELSE IF sessions[c].pc \in {"register", "idle"} THEN Closed
                            ELSE [sessions[c] EXCEPT !.live = FALSE, !.wire = <<>>]]

Current(h) == {proc[h].session} \ {NoSession}

\* Both commands end the process; an update replaces the container, and with
\* it the files that are not on a volume.  What an agent with a free slot may
\* still receive meanwhile is lost in the same exit.
Obey(h) ==
    /\ proc[h].pc = "obey"
    /\ proc' = [proc EXCEPT ![h] = Down]
    /\ Leave(Current(h))
    /\ \/ UNCHANGED disk
       \/ disk' = [disk EXCEPT ![h] = NoIdentity]
    /\ UNCHANGED <<serverVars, history, faults>>

\* SelfUpdate returned an error.
UpdateFails(h) ==
    /\ proc[h].pc = "obey" /\ Fault
    /\ proc' = [proc EXCEPT ![h] = IF @.session = NoSession THEN Reconnecting(h)
                                   ELSE [@ EXCEPT !.pc = "stream"]]
    /\ UNCHANGED <<serverVars, sessions, disk, history>>

-----------------------------------------------------------------------------
(***************************************************************************)
(* The server: the Auth call of session c.                                 *)
(***************************************************************************)
AuthAt(c, at) == sessions[c].pc = at /\ UNCHANGED <<agents, chans, disk, proc, sent, got>>

LookUpId(c) ==
    /\ AuthAt(c, "byId")
    /\ Goes(c, IF rows[sessions[c].id] # NoRow THEN "answer" ELSE "byName")
    /\ UNCHANGED <<rows, spoiled, unnamed, faults>>

Named(c) == {i \in AgentId : rows[i] = Fingerprint[sessions[c].host]}
Lowest(S) == CHOOSE i \in S : \A k \in S : i <= k

\* Mutant: every agent without a saved ID is taken for a new one.
LookUpNoName(c) ==
    /\ AuthAt(c, "byName")
    /\ Goes(c, "create")
    /\ UNCHANGED <<rows, spoiled, unnamed, faults>>

\* First orders by the primary key.
LookUpName(c) ==
    /\ AuthAt(c, "byName")
    /\ IF Named(c) = {} THEN Goes(c, "create")
       ELSE sessions' = [sessions EXCEPT ![c].pc = "answer", ![c].id = Lowest(Named(c))]
    /\ UNCHANGED <<rows, spoiled, unnamed, faults>>

\* An error of a lookup is taken for a row that is not there.
LookUpFails(c) ==
    /\ AuthAt(c, sessions[c].pc)
    /\ \/ sessions[c].pc = "byId" /\ Goes(c, "byName") /\ UNCHANGED spoiled
       \/ sessions[c].pc = "byName" /\ Goes(c, "create") /\ Spoil(c)
    /\ DBFails(c)
    /\ UNCHANGED <<rows, unnamed>>

\* CreatePlaceholderAgent takes a random ID.
CreatePlaceholderAgent(c, i) ==
    /\ AuthAt(c, "create")
    /\ rows[i] = NoRow
    /\ rows' = [rows EXCEPT ![i] = Pending]
    /\ sessions' = [sessions EXCEPT ![c].pc = "name", ![c].id = i]
    /\ UNCHANGED <<spoiled, unnamed, faults>>

\* Auth returns an error, and register tries again; the row may be there.
CreateFails(c) ==
    /\ sessions[c].pc = "create" /\ DBFails(c)
    /\ \/ UNCHANGED rows
       \/ \E i \in AgentId : rows[i] = NoRow /\ rows' = [rows EXCEPT ![i] = Pending]
    /\ sessions' = [sessions EXCEPT ![c] = Closed]
    /\ proc' = [h \in Host |-> IF proc[h].session = c THEN Reconnecting(h) ELSE proc[h]]
    /\ UNCHANGED <<agents, chans, disk, history>>

\* UpdateAgentInfo.  Nothing else that is modelled of the row changes.
NameRow(c) == rows' = [rows EXCEPT ![sessions[c].id] = Fingerprint[sessions[c].host]]

NamePlaceholder(c) ==
    /\ AuthAt(c, "name")
    /\ \/ NameRow(c) /\ UNCHANGED <<unnamed, faults>>
       \/ /\ UNCHANGED rows /\ DBFails(c)
          /\ unnamed' = unnamed \cup {sessions[c].host}
    /\ Goes(c, "answer")
    /\ UNCHANGED spoiled

-----------------------------------------------------------------------------
(***************************************************************************)
(* The server: RegisterAgent and StreamJobs.                               *)
(***************************************************************************)
\* RegisterAgent: a database error is logged and does not stop it.
RegisterAgent(c) ==
    /\ sessions[c].pc = "register"
    /\ \/ NameRow(c) /\ UNCHANGED faults
       \/ UNCHANGED rows /\ DBFails(c)
    /\ Register(sessions[c].id)
    /\ Goes(c, "idle")
    /\ UNCHANGED <<chans, disk, proc, history>>

\* StreamJobs begins: it copies the row, if it can read it, into the memory.
OpenStream(c) ==
    /\ sessions[c].pc = "open"
    /\ \/ Register(sessions[c].id) /\ UNCHANGED faults
       \/ DBFails(c) /\ UNCHANGED agents
    /\ Goes(c, "channel")
    /\ UNCHANGED <<rows, chans, disk, proc, history>>

\* Mutant: the channel goes to one handler of the agent only.
GetCommandChannelOnce(c) ==
    /\ sessions[c].pc = "channel"
    /\ sessions' = [sessions EXCEPT ![c].pc = "loop",
                       ![c].ch = IF \E d \in Open : sessions[d].ch = agents[sessions[c].id]
                                 THEN NoChannel ELSE agents[sessions[c].id]]
    /\ UNCHANGED <<serverVars, disk, proc, history, faults>>

GetCommandChannel(c) ==
    /\ sessions[c].pc = "channel"
    /\ sessions' = [sessions EXCEPT ![c].pc = "loop", ![c].ch = agents[sessions[c].id]]
    /\ UNCHANGED <<serverVars, disk, proc, history, faults>>

TakeCommand(c) ==
    LET k == sessions[c].ch IN
    /\ sessions[c].pc = "loop" /\ k # NoChannel /\ chans[k] # <<>>
    /\ chans' = [chans EXCEPT ![k] = Tail(@)]
    /\ sessions' = [sessions EXCEPT ![c].pc = "send", ![c].cmd = Head(chans[k])]
    /\ UNCHANGED <<rows, agents, disk, proc, history, faults>>

\* Mutant: a command whose Send failed goes back into the channel.
SendAgain(c) ==
    /\ sessions[c].pc = "send"
    /\ sessions' = [sessions EXCEPT ![c].pc = "loop", ![c].cmd = 0,
                                    ![c].wire = IF sessions[c].live
                                                THEN Append(@, sessions[c].cmd) ELSE @]
    /\ chans' = IF sessions[c].live THEN chans
                ELSE [chans EXCEPT ![sessions[c].ch] = Append(@, sessions[c].cmd)]
    /\ UNCHANGED <<rows, agents, disk, proc, history, faults>>

\* What is sent to an agent that is gone is lost, with an error or without.
Send(c) ==
    /\ sessions[c].pc = "send"
    /\ sessions' = [sessions EXCEPT ![c].pc = "loop", ![c].cmd = 0,
                                    ![c].wire = IF sessions[c].live
                                                THEN Append(@, sessions[c].cmd) ELSE @]
    /\ UNCHANGED <<serverVars, disk, proc, history, faults>>

\* The stream's context is done, or nobody takes the answer to Auth.
HandlerReturns(c) ==
    /\ c \in Open /\ ~sessions[c].live
    /\ sessions[c].pc \in {"loop", "answer"}
    /\ sessions' = [sessions EXCEPT ![c] = Closed]
    /\ UNCHANGED <<serverVars, disk, proc, history, faults>>

-----------------------------------------------------------------------------
(***************************************************************************)
(* Faults.                                                                 *)
(***************************************************************************)
\* The Auth call of an agent that is gone runs on, beside the next one.
CutShort(c) == IF InAuth(c) THEN Spoil(c) ELSE UNCHANGED spoiled

\* Run waits for its executions before it registers again.
Lost(h) == IF proc[h].pc = "obey" THEN [proc[h] EXCEPT !.session = NoSession]
           ELSE Reconnecting(h)

\* The connection breaks.  That the agent is late to notice only delays it.
Break(h) ==
    /\ proc[h].session # NoSession /\ Fault
    /\ Leave(Current(h)) /\ CutShort(proc[h].session)
    /\ proc' = [proc EXCEPT ![h] = Lost(h)]
    /\ UNCHANGED <<serverVars, disk, sent, got, unnamed>>

AgentCrash(h) ==
    /\ proc[h].session # NoSession /\ Fault
    /\ Leave(Current(h)) /\ CutShort(proc[h].session)
    /\ proc' = [proc EXCEPT ![h] = Down]
    /\ UNCHANGED <<serverVars, disk, sent, got, unnamed>>

\* Sessions and AgentManager are in memory only.
ServerRestart ==
    /\ Fault
    /\ sessions' = [c \in Session |-> Closed]
    /\ agents' = [i \in AgentId |-> NoChannel]
    /\ chans' = [k \in Channel |-> <<>>]
    /\ proc' = [h \in Host |-> IF proc[h].session = NoSession THEN proc[h] ELSE Lost(h)]
    /\ UNCHANGED <<rows, disk, history>>

\* The machine g is made from a snapshot of h.
Clone(g, h) ==
    /\ proc[g].pc = "down" /\ disk[h] # NoIdentity /\ Fault
    /\ disk' = [disk EXCEPT ![g] = disk[h]]
    /\ UNCHANGED <<serverVars, sessions, proc, history>>

-----------------------------------------------------------------------------
Agent(h) ==
    \/ Start(h) \/ AuthAnswered(h) \/ CallStreamJobs(h)
    \/ CallAuth(h) \/ Receive(h) \/ Obey(h) \/ UpdateFails(h)

Auth(c) ==
    \/ LookUpId(c) \/ LookUpName(c) \/ LookUpFails(c) \/ CreateFails(c)
    \/ NamePlaceholder(c)
    \/ \E i \in AgentId : CreatePlaceholderAgent(c, i)

StreamJobs(c) ==
    \/ OpenStream(c) \/ GetCommandChannel(c)
    \/ TakeCommand(c) \/ Send(c) \/ HandlerReturns(c)

Faults ==
    \/ \E h \in Host : Break(h) \/ AgentCrash(h)
    \/ ServerRestart
    \/ \E g, h \in Host : g # h /\ Clone(g, h)

Next ==
    \/ \E h \in Host : Agent(h)
    \/ \E c \in Session : Auth(c) \/ RegisterAgent(c) \/ StreamJobs(c)
    \/ \E i \in AgentId : SendCommand(i)
    \/ Faults

RegistrySpec == Init /\ [][Next]_vars

\* The supervisor restarts the process, the agent's loop goes on, handlers
\* are goroutines, and the server notices in the end that a client is gone.
AgentWorks(h) ==
    Start(h) \/ CallAuth(h) \/ AuthAnswered(h) \/ CallStreamJobs(h)

HandlerWorks(c) ==
    \/ LookUpId(c) \/ LookUpName(c) \/ NamePlaceholder(c)
    \/ \E i \in AgentId : CreatePlaceholderAgent(c, i)
    \/ RegisterAgent(c) \/ OpenStream(c) \/ GetCommandChannel(c)
    \/ Send(c)

FairRegistrySpec ==
    /\ RegistrySpec
    /\ \A h \in Host : WF_vars(AgentWorks(h)) /\ WF_vars(Obey(h) \/ Receive(h))
    /\ \A c \in Session : /\ WF_vars(HandlerWorks(c)) /\ WF_vars(HandlerReturns(c))
                          /\ WF_vars(TakeCommand(c))

-----------------------------------------------------------------------------
\* Every variable has its type.
RegistryTypeOK ==
    /\ rows \in [AgentId -> Name \cup {NoRow}]
    /\ agents \in [AgentId -> Channel \cup {NoChannel}]
    /\ chans \in [Channel -> Seq(1 .. MaxCommands)]
    /\ \A k \in Channel : Len(chans[k]) <= ChannelCapacity
    /\ DOMAIN sessions = Session
    /\ \A c \in Open : sessions[c] \in SessionRecord
    /\ disk \in [Host -> Identity \cup {NoIdentity}]
    /\ proc \in [Host -> Process]
    /\ sent \in 0 .. MaxCommands /\ got \in [AgentId -> 0 .. MaxCommands]
    /\ spoiled \subseteq Host /\ unnamed \subseteq Host /\ faults \in 0 .. MaxFaults

\* One owner: the agent a machine is authenticated as is not another
\* machine's, whatever crashes, retries, lost files and copied disks there
\* were (the ID check, the name lookup and the fingerprint check together).
OneOwner ==
    \A c \in Open :
        sessions[c].pc \notin {"byId", "byName", "create"} =>
            rows[sessions[c].id] \in {Fingerprint[sessions[c].host], Pending}

\* A machine keeps one row, although its process, its container and the
\* server come and go, unless its Auth was left running, a lookup by name
\* failed, or its new row was not named.
OneRowPerHost ==
    \A h \in Host \ (spoiled \cup unnamed) :
        Cardinality({i \in AgentId : rows[i] = Fingerprint[h]}) <= 1

\* A command that was accepted waits in the channel of an entry, where the
\* next stream of the agent finds it, and not in one that was replaced.
NoCommandStranded ==
    \A k \in Channel : chans[k] # <<>> => \E i \in AgentId : agents[i] = k

\* No two agents share a channel, and a handler in its loop reads the one
\* that SendCommand writes to, after reconnections too.
ListensToItsChannel ==
    \A c \in Open : sessions[c].pc \in {"loop", "send"} =>
        /\ sessions[c].ch # NoChannel
        /\ \A i \in AgentId : agents[i] = sessions[c].ch <=> i = sessions[c].id

\* An agent receives commands in the order in which they were accepted, and
\* each at most once, although an old handler may read the same channel.
CommandsInOrder == [][\A i \in AgentId : got'[i] # got[i] => got'[i] > got[i]]_got

Waiting(n) == \E k \in Channel : \E p \in DOMAIN chans[k] : chans[k][p] = n

\* A command does not wait for ever: the agent reconnects and its handler
\* takes it (unless the agent became another one after a fault in Auth).
CommandsLeave ==
    \A n \in 1 .. MaxCommands : Waiting(n) ~> (~Waiting(n) \/ spoiled # {})
=============================================================================
