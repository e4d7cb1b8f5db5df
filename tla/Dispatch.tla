------------------------------ MODULE Dispatch ------------------------------
(***************************************************************************)
(* How a job gets from the queue to an agent and its outcome back into the *)
(* database: the gRPC server (internal/adapters/handler/grpc/server.go)    *)
(* and the agents (internal/agent/agent.go), on top of JobService.         *)
(*                                                                         *)
(* The goroutines that call JobService are the HTTP handlers, one          *)
(* StreamJobs handler for each agent, and for each slot of an agent's      *)
(* semaphore the handler of the Init and Done calls of the execution in    *)
(* the slot and the handler of the Log calls of its container.             *)
(***************************************************************************)
EXTENDS JobService, Sequences

CONSTANTS
    Client,       \* HTTP handlers
    Capacity,     \* slots of an agent's semaphore
    NoJob, NoSlot,
    TimeLimit,    \* may a job run into its time limit?
    MaxFaults     \* bound: things that go wrong

Slot == AgentId \X (1 .. Capacity)
Logger(s) == <<s[1], s[2], "log">>
SlotsOf(a) == {s \in Slot : s[1] = a}

ASSUME DispatchAssumption ==
    /\ Capacity \in Nat \ {0} /\ MaxFaults \in Nat /\ TimeLimit \in BOOLEAN
    /\ Proc = Client \cup AgentId \cup Slot \cup {Logger(s) : s \in Slot}
    /\ Overlap
    /\ NoJob \notin JobId /\ NoSlot \notin Slot

\* No goroutine does the work of two.
ASSUME GoroutineAssumption ==
    /\ Client \cap (AgentId \cup Slot \cup {Logger(s) : s \in Slot}) = {}
    /\ AgentId \cap (Slot \cup {Logger(s) : s \in Slot}) = {}
    /\ \A s, t \in Slot : Logger(s) # t /\ (Logger(s) = Logger(t) => s = t)

VARIABLES
    link,         \* link[a]: which ends of a's job stream are still there
    known,        \* known[a]: the server has a session for a's token
    stream,       \* stream[a]: where the StreamJobs handler of a is
    tracked,      \* Server.agentJobs, as pairs
    wire,         \* wire[a]: messages sent on a's stream, not yet received
    exec,         \* exec[s]: the execution that holds slot s
    logger,       \* logger[s]: the job whose container output s still reads
    active,       \* active[a][j]: the slot in Agent.activeJobs under j
    faults,       \* how many things went wrong so far
    cut,          \* history: jobs that had an execution cancelled or timed out
    earned        \* history: jobs that had a container end without an error

serverVars == <<link, known, stream, tracked>>
agentVars == <<exec, logger, active>>
history == <<faults, cut, earned>>
dispatchVars == <<serverVars, wire, agentVars, history>>
vars == <<serviceVars, dispatchVars>>

Looping == [pc |-> "loop"]
StreamAt == [pc : {"popped", "assign", "send", "revert"}, job : JobId]

Free == [pc |-> "free"]
Execution == [pc : {"init", "initing", "run", "report", "reporting"}, job : JobId,
              killed : BOOLEAN, failed : BOOLEAN]

Message == [cancel : BOOLEAN, job : JobId]

ServerEnd(a) == link[a] \in {"up", "server"}
AgentEnd(a) == link[a] \in {"up", "agent"}

Fault == faults < MaxFaults /\ faults' = faults + 1 /\ UNCHANGED <<cut, earned>>

-----------------------------------------------------------------------------
(***************************************************************************)
(* HTTP handlers.                                                          *)
(***************************************************************************)
Signal(p) ==
    /\ call[p] # Idle /\ call[p].pc = "signal"
    /\ PublishCancel(p, ServerEnd(call[p].row.agent))

Handle(p) ==
    /\ \/ \E j \in JobId : Request(p, j)
       \/ Save(p) \/ Enqueue(p) \/ PublishJobUpdate(p) \/ Signal(p)
    /\ UNCHANGED dispatchVars

HandleFails(p) ==
    /\ Fault
    /\ SaveFails(p) \/ EnqueueFails(p) \/ PublishCancel(p, FALSE)
    /\ UNCHANGED <<serverVars, wire, agentVars>>

-----------------------------------------------------------------------------
(***************************************************************************)
(* The StreamJobs handler of agent a.                                      *)
(***************************************************************************)
StreamGoes(a, to) == stream' = [stream EXCEPT ![a] = to]

\* Mutant: the entry is read and left in the queue.
PollPeek(a, j) ==
    /\ ServerEnd(a) /\ stream[a] = Looping
    /\ queue[j] > 0
    /\ StreamGoes(a, [pc |-> "popped", job |-> j])
    /\ tracked' = tracked \cup {<<a, j>>}
    /\ UNCHANGED <<serviceVars, link, known, wire, agentVars, history>>

\* Mutant: the assignment is not tracked.
PollUntracked(a, j) ==
    /\ ServerEnd(a) /\ stream[a] = Looping
    /\ GetNextJob(j)
    /\ StreamGoes(a, [pc |-> "popped", job |-> j])
    /\ UNCHANGED <<link, known, tracked, wire, agentVars, history>>

\* A tick of the loop that finds a job.
Poll(a, j) ==
    /\ ServerEnd(a) /\ stream[a] = Looping
    /\ GetNextJob(j)
    /\ StreamGoes(a, [pc |-> "popped", job |-> j])
    /\ tracked' = tracked \cup {<<a, j>>}
    /\ UNCHANGED <<link, known, wire, agentVars, history>>

\* The entry left Redis and its reply was lost, or came after the deadline.
PollLoses(a, j) ==
    /\ ServerEnd(a) /\ stream[a] = Looping
    /\ Fault
    /\ GetNextJob(j)
    /\ UNCHANGED <<serverVars, wire, agentVars>>

Assign(a) ==
    /\ stream[a].pc = "popped"
    /\ AssignJob(a, stream[a].job, a)
    /\ StreamGoes(a, [stream[a] EXCEPT !.pc = "assign"])
    /\ UNCHANGED <<link, known, tracked, wire, agentVars, history>>

\* Mutant: the loop continues after the assignment.
AssignGoesOnStops(a) ==
    /\ stream[a].pc = "assign"
    /\ Save(a) \/ PublishJobUpdate(a)
    /\ StreamGoes(a, IF call'[a] = Idle THEN Looping ELSE stream[a])
    /\ UNCHANGED <<link, known, tracked, wire, agentVars, history>>

AssignGoesOn(a) ==
    /\ stream[a].pc = "assign"
    /\ Save(a) \/ PublishJobUpdate(a)
    /\ StreamGoes(a, [stream[a] EXCEPT !.pc = IF call'[a] = Idle THEN "send" ELSE @])
    /\ UNCHANGED <<link, known, tracked, wire, agentVars, history>>

\* A call made with the context of a stream that is gone may fail as well.
FaultOn(a) == Fault \/ (~ServerEnd(a) /\ UNCHANGED history)

\* The loop continues and forgets the job.
AssignFails(a) ==
    /\ FaultOn(a)
    /\ \/ stream[a].pc = "popped" /\ UNCHANGED serviceVars
       \/ stream[a].pc = "assign" /\ SaveFails(a)
    /\ StreamGoes(a, Looping)
    /\ UNCHANGED <<link, known, tracked, wire, agentVars>>

\* What is sent when the agent's end is gone is lost.
Transmit(a, m) ==
    wire' = IF link[a] = "up" THEN [wire EXCEPT ![a] = Append(@, m)] ELSE wire

Send(a) ==
    /\ stream[a].pc = "send" /\ ServerEnd(a)
    /\ Transmit(a, [cancel |-> FALSE, job |-> stream[a].job])
    /\ StreamGoes(a, Looping)
    /\ UNCHANGED <<serviceVars, link, known, tracked, agentVars, history>>

\* The handler returns: its subscription to cancel signals is gone.
HandlerReturns(a) ==
    /\ link' = [link EXCEPT ![a] = IF @ = "server" THEN "down" ELSE @]
    /\ StreamGoes(a, Looping)

Untrack(a, j) == tracked' = tracked \ {<<a, j>>}

\* "Re-queueing": the status alone goes back to pending.
SendFails(a) ==
    /\ stream[a].pc = "send" /\ link[a] # "up"
    /\ UpdateJobStatus(a, stream[a].job, "pending")
    /\ StreamGoes(a, [stream[a] EXCEPT !.pc = "revert"])
    /\ UNCHANGED <<link, known, tracked, wire, agentVars, history>>

RevertGoesOn(a) ==
    /\ stream[a].pc = "revert"
    /\ Save(a) \/ PublishJobUpdate(a)
    /\ IF call'[a] = Idle
       THEN HandlerReturns(a) /\ Untrack(a, stream[a].job)
       ELSE UNCHANGED <<link, stream, tracked>>
    /\ UNCHANGED <<known, wire, agentVars, history>>

\* The stream's context is done, so the calls made with it fail.
RevertFails(a) ==
    /\ \/ stream[a].pc = "send" /\ link[a] # "up" /\ UNCHANGED serviceVars
       \/ stream[a].pc = "revert" /\ SaveFails(a)
    /\ HandlerReturns(a) /\ Untrack(a, stream[a].job)
    /\ UNCHANGED <<known, wire, agentVars, history>>

ForwardCancel(a, j) ==
    /\ ServerEnd(a) /\ stream[a] = Looping
    /\ <<a, j>> \in cancels
    /\ cancels' = cancels \ {<<a, j>>}
    /\ IF <<a, j>> \in tracked
       THEN Transmit(a, [cancel |-> TRUE, job |-> j])
       ELSE UNCHANGED wire
    /\ UNCHANGED <<jobs, queue, call, announced, enqueued, refused>>
    /\ UNCHANGED <<serverVars, agentVars, history>>

-----------------------------------------------------------------------------
(***************************************************************************)
(* The agent: streamJobs and executeJob.                                   *)
(***************************************************************************)
\* streamJobs takes a slot of the semaphore before it reads the stream.
HasRoom(a) == \E s \in SlotsOf(a) : exec[s] = Free

\* Mutant: the message is executed and not removed from the stream.
RecvJobTwice(a, s) ==
    /\ AgentEnd(a) /\ wire[a] # <<>> /\ ~Head(wire[a]).cancel
    /\ exec[s] = Free /\ call[s] = Idle /\ logger[s] = NoJob
    /\ LET j == Head(wire[a]).job
       IN /\ exec' = [exec EXCEPT ![s] = [pc |-> "init", job |-> j,
                                          killed |-> FALSE, failed |-> FALSE]]
          /\ active' = [active EXCEPT ![a][j] = s]
    /\ UNCHANGED <<serviceVars, serverVars, wire, logger, history>>

RecvJob(a, s) ==
    /\ AgentEnd(a) /\ wire[a] # <<>> /\ ~Head(wire[a]).cancel
    /\ exec[s] = Free /\ call[s] = Idle /\ logger[s] = NoJob
    /\ LET j == Head(wire[a]).job
       IN /\ exec' = [exec EXCEPT ![s] = [pc |-> "init", job |-> j,
                                          killed |-> FALSE, failed |-> FALSE]]
          /\ active' = [active EXCEPT ![a][j] = s]
    /\ wire' = [wire EXCEPT ![a] = Tail(@)]
    /\ UNCHANGED <<serviceVars, serverVars, logger, history>>

RecvCancel(a) ==
    /\ AgentEnd(a) /\ wire[a] # <<>> /\ Head(wire[a]).cancel
    /\ HasRoom(a)
    /\ LET target == active[a][Head(wire[a]).job]
       IN exec' = [s \in Slot |-> IF s = target
                                  THEN [exec[s] EXCEPT !.killed = TRUE] ELSE exec[s]]
    /\ wire' = [wire EXCEPT ![a] = Tail(@)]
    /\ UNCHANGED <<serviceVars, serverVars, logger, active, history>>

\* executeJob returns: its deferred calls free the slot and the map entry.
Return(s) ==
    /\ exec' = [exec EXCEPT ![s] = Free]
    /\ active' = [active EXCEPT ![s[1]][exec[s].job] = NoSlot]

Init(s) ==
    /\ exec[s].pc = "init"
    /\ UpdateJobStatus(s, exec[s].job, "running")
    /\ exec' = [exec EXCEPT ![s].pc = "initing"]
    /\ UNCHANGED <<serverVars, wire, logger, active, history>>

\* Once the reply is there the container starts.
InitGoesOn(s) ==
    /\ exec[s].pc = "initing"
    /\ Save(s) \/ PublishJobUpdate(s)
    /\ IF call'[s] = Idle
       THEN /\ exec' = [exec EXCEPT ![s].pc = "run"]
            /\ logger' = [logger EXCEPT ![s] = exec[s].job]
       ELSE UNCHANGED <<exec, logger>>
    /\ UNCHANGED <<serverVars, wire, active, history>>

\* executeJob gives the job up without a Done.
InitFails(s) ==
    /\ Fault
    /\ \/ exec[s].pc = "init" /\ UNCHANGED serviceVars
       \/ exec[s].pc = "initing" /\ SaveFails(s)
    /\ Return(s)
    /\ UNCHANGED <<serverVars, wire, logger>>

Log(s) ==
    /\ logger[s] # NoJob /\ known[s[1]] /\ AgentEnd(s[1])
    /\ jobs[logger[s]].logs < MaxLogs
    /\ ProcessLog(Logger(s), logger[s], FALSE)
    /\ UNCHANGED dispatchVars

LogGoesOn(s) == Save(Logger(s)) /\ UNCHANGED dispatchVars

LogFails(s) ==
    /\ Fault /\ SaveFails(Logger(s))
    /\ UNCHANGED <<serverVars, wire, agentVars>>

\* docker.Run returns by itself only when all output has been sent.
ContainerExits(s, failed) ==
    /\ exec[s].pc = "run" /\ call[Logger(s)] = Idle
    /\ exec' = [exec EXCEPT ![s].pc = "report", ![s].failed = failed]
    /\ logger' = [logger EXCEPT ![s] = NoJob]
    /\ earned' = IF failed THEN earned ELSE earned \cup {exec[s].job}
    /\ UNCHANGED <<serviceVars, serverVars, wire, active, faults, cut>>

\* The job's context is done: executeJob does not wait for docker.Run, and
\* the goroutine that reads the container's output may still be sending.
JobCtxDone(s) ==
    /\ exec[s].pc = "run" /\ (exec[s].killed \/ TimeLimit)
    /\ exec' = [exec EXCEPT ![s].pc = "report", ![s].failed = TRUE]
    /\ cut' = cut \cup {exec[s].job}
    /\ UNCHANGED <<serviceVars, serverVars, wire, logger, active, faults, earned>>

LoggerStops(s) ==
    /\ logger[s] # NoJob /\ exec[s].pc # "run" /\ call[Logger(s)] = Idle
    /\ logger' = [logger EXCEPT ![s] = NoJob]
    /\ UNCHANGED <<serviceVars, serverVars, wire, exec, active, history>>

\* Mutant: the error in the report is ignored.
DoneIgnoresError(s) ==
    /\ exec[s].pc = "report" /\ known[s[1]]
    /\ UpdateJobStatus(s, exec[s].job, "success")
    /\ exec' = [exec EXCEPT ![s].pc = "reporting"]
    /\ UNCHANGED <<serverVars, wire, logger, active, history>>

Done(s) ==
    /\ exec[s].pc = "report" /\ known[s[1]]
    /\ UpdateJobStatus(s, exec[s].job, IF exec[s].failed THEN "failure" ELSE "success")
    /\ exec' = [exec EXCEPT ![s].pc = "reporting"]
    /\ UNCHANGED <<serverVars, wire, logger, active, history>>

\* Mutant: the slot of the semaphore is not released.
DoneKeepsSlot(s) ==
    /\ exec[s].pc = "reporting"
    /\ Save(s) \/ PublishJobUpdate(s)
    /\ IF call'[s] = Idle THEN Untrack(s[1], exec[s].job) ELSE UNCHANGED tracked
    /\ UNCHANGED <<link, known, stream, wire, agentVars, history>>

DoneGoesOn(s) ==
    /\ exec[s].pc = "reporting"
    /\ Save(s) \/ PublishJobUpdate(s)
    /\ IF call'[s] = Idle
       THEN Return(s) /\ Untrack(s[1], exec[s].job)
       ELSE UNCHANGED <<exec, active, tracked>>
    /\ UNCHANGED <<link, known, stream, wire, logger, history>>

DoneFails(s) ==
    /\ Fault
    /\ \/ exec[s].pc = "report" /\ UNCHANGED serviceVars
       \/ exec[s].pc = "reporting" /\ SaveFails(s)
    /\ Return(s)
    /\ UNCHANGED <<serverVars, wire, logger>>

\* The server was restarted and does not know the token.
DoneRejected(s) ==
    /\ exec[s].pc = "report" /\ ~known[s[1]]
    /\ Return(s)
    /\ UNCHANGED <<serviceVars, serverVars, wire, logger, history>>

\* A handler goes on although the execution that called it has given up.
OrphanGoesOn(s) ==
    /\ exec[s].pc \notin {"initing", "reporting"}
    /\ Save(s) \/ SaveFails(s) \/ PublishJobUpdate(s)
    /\ UNCHANGED dispatchVars

-----------------------------------------------------------------------------
(***************************************************************************)
(* Connections, crashes and restarts.                                      *)
(***************************************************************************)
\* The session's context is cancelled: running jobs are killed, and those
\* that wait for the answer to Init return.
Abandoned(e, waiting) == e.pc \in {"init", "initing"} \cup waiting

SessionEnds(ended, waiting) ==
    /\ exec' = [s \in Slot |->
                  CASE s[1] \in ended /\ Abandoned(exec[s], waiting) -> Free
                    [] s[1] \in ended /\ exec[s].pc = "run" ->
                          [exec[s] EXCEPT !.killed = TRUE]
                    [] OTHER -> exec[s]]
    /\ active' = [a \in AgentId |-> [j \in JobId |->
                    IF a \in ended /\ \E s \in SlotsOf(a) :
                                        Abandoned(exec[s], waiting) /\ exec[s].job = j
                    THEN NoSlot ELSE active[a][j]]]
    /\ UNCHANGED logger

Unsubscribed(as) == {c \in cancels : c[1] \notin as}

LoseSignals(as) ==
    /\ cancels' = Unsubscribed(as)
    /\ UNCHANGED <<jobs, queue, call, announced, enqueued, refused>>

\* The connection breaks, and either end may be the first to notice.
Break(a) ==
    /\ Fault
    /\ link[a] = "up"
    /\ wire' = [wire EXCEPT ![a] = <<>>]
    /\ \/ /\ link' = [link EXCEPT ![a] = "agent"]
          /\ LoseSignals({a})
          /\ UNCHANGED agentVars
       \/ /\ link' = [link EXCEPT ![a] = "server"]
          /\ SessionEnds({a}, {})
          /\ UNCHANGED serviceVars
    /\ UNCHANGED <<known, stream, tracked>>

AgentNotices(a) ==
    /\ link[a] = "agent"
    /\ link' = [link EXCEPT ![a] = "down"]
    /\ SessionEnds({a}, {})
    /\ UNCHANGED <<serviceVars, known, stream, tracked, wire, history>>

ServerNotices(a) ==
    /\ link[a] = "server" /\ stream[a] = Looping
    /\ link' = [link EXCEPT ![a] = "down"]
    /\ LoseSignals({a})
    /\ UNCHANGED <<known, stream, tracked, wire, agentVars, history>>

AgentCrash(a) ==
    /\ Fault
    /\ link' = [link EXCEPT ![a] = IF ServerEnd(a) THEN "server" ELSE "down"]
    /\ wire' = [wire EXCEPT ![a] = <<>>]
    /\ exec' = [s \in Slot |-> IF s[1] = a THEN Free ELSE exec[s]]
    /\ logger' = [s \in Slot |-> IF s[1] = a THEN NoJob ELSE logger[s]]
    /\ active' = [active EXCEPT ![a] = [j \in JobId |-> NoSlot]]
    /\ UNCHANGED <<serviceVars, known, stream, tracked>>

\* Sessions, tracking, handlers and subscriptions are in memory only.
ServerRestart ==
    /\ Fault
    /\ link' = [a \in AgentId |-> "down"]
    /\ known' = [a \in AgentId |-> FALSE]
    /\ stream' = [a \in AgentId |-> Looping]
    /\ tracked' = {}
    /\ wire' = [a \in AgentId |-> <<>>]
    /\ call' = [p \in Proc |-> Idle]
    /\ cancels' = {}
    /\ SessionEnds(AgentId, {"reporting"})
    /\ UNCHANGED <<jobs, queue, announced, enqueued, refused>>

\* Auth, RegisterAgent and StreamJobs; Run first waits for its executions.
Connect(a) ==
    /\ link[a] = "down" /\ stream[a] = Looping /\ call[a] = Idle
    /\ \A s \in SlotsOf(a) : exec[s] = Free
    /\ link' = [link EXCEPT ![a] = "up"]
    /\ known' = [known EXCEPT ![a] = TRUE]
    /\ UNCHANGED <<serviceVars, stream, tracked, wire, agentVars, history>>

-----------------------------------------------------------------------------
DispatchInit ==
    /\ ServiceInit
    /\ link = [a \in AgentId |-> "down"]
    /\ known = [a \in AgentId |-> FALSE]
    /\ stream = [a \in AgentId |-> Looping]
    /\ tracked = {}
    /\ wire = [a \in AgentId |-> <<>>]
    /\ exec = [s \in Slot |-> Free]
    /\ logger = [s \in Slot |-> NoJob]
    /\ active = [a \in AgentId |-> [j \in JobId |-> NoSlot]]
    /\ faults = 0 /\ cut = {} /\ earned = {}

StreamJobs(a) ==
    \/ \E j \in JobId : Poll(a, j) \/ PollLoses(a, j) \/ ForwardCancel(a, j)
    \/ Assign(a) \/ AssignGoesOn(a) \/ AssignFails(a)
    \/ Send(a) \/ SendFails(a) \/ RevertGoesOn(a) \/ RevertFails(a)

ExecuteJob(s) ==
    \/ Init(s) \/ InitGoesOn(s) \/ InitFails(s)
    \/ \E failed \in BOOLEAN : ContainerExits(s, failed)
    \/ JobCtxDone(s)
    \/ Done(s) \/ DoneGoesOn(s) \/ DoneFails(s) \/ DoneRejected(s)
    \/ OrphanGoesOn(s)

ReadOutput(s) == Log(s) \/ LogGoesOn(s) \/ LogFails(s) \/ LoggerStops(s)

Recv(a) == RecvCancel(a) \/ \E s \in SlotsOf(a) : RecvJob(a, s)

DispatchNext ==
    \/ \E p \in Client : Handle(p) \/ HandleFails(p)
    \/ \E a \in AgentId :
          StreamJobs(a) \/ Recv(a) \/ Connect(a)
          \/ Break(a) \/ AgentNotices(a) \/ ServerNotices(a) \/ AgentCrash(a)
    \/ \E s \in Slot : ExecuteJob(s) \/ ReadOutput(s)
    \/ ServerRestart

DispatchSpec == DispatchInit /\ [][DispatchNext]_vars

HandleGoesOn(p) ==
    /\ Save(p) \/ Enqueue(p) \/ PublishJobUpdate(p) \/ Signal(p)
    /\ UNCHANGED dispatchVars

\* Every goroutine that can go on does, agents reconnect, and containers end;
\* clients need not ask for anything, nothing need fail.
FairDispatchSpec ==
    /\ DispatchSpec
    /\ \A p \in Client : WF_vars(HandleGoesOn(p))
    /\ \A a \in AgentId : WF_vars(StreamJobs(a)) /\ WF_vars(Recv(a)) /\ WF_vars(Connect(a))
    /\ \A s \in Slot : WF_vars(ExecuteJob(s)) /\ WF_vars(LogGoesOn(s) \/ LoggerStops(s))

-----------------------------------------------------------------------------
(***************************************************************************)
(* Properties.                                                             *)
(***************************************************************************)
\* Every variable has the values the code gives it.
DispatchTypeOK ==
    /\ TypeOK
    /\ link \in [AgentId -> {"up", "agent", "server", "down"}]
    /\ known \in [AgentId -> BOOLEAN]
    /\ stream \in [AgentId -> StreamAt \cup {Looping}]
    /\ tracked \subseteq AgentId \X JobId
    /\ wire \in [AgentId -> Seq(Message)]
    /\ exec \in [Slot -> Execution \cup {Free}]
    /\ logger \in [Slot -> JobId \cup {NoJob}]
    /\ active \in [AgentId -> [JobId -> Slot \cup {NoSlot}]]
    /\ faults \in 0 .. MaxFaults
    /\ cut \subseteq JobId /\ earned \subseteq JobId


\* Where a job is once it has left the queue: in the hands of a handler, on
\* the wire, or in a slot.
Places(j) ==
    {<<"stream", a>> : a \in {b \in AgentId : stream[b].pc \in {"popped", "assign", "send"}
                                              /\ stream[b].job = j}}
    \cup (UNION {{<<"wire", a, i>> : i \in {n \in DOMAIN wire[a] :
                                      wire[a][n] = [cancel |-> FALSE, job |-> j]}}
                 : a \in AgentId})
    \cup {<<"slot", s>> : s \in {t \in Slot : exec[t] # Free /\ exec[t].job = j}}

\* A queue entry is never in two places: no interleaving of streams, agents
\* and failures lets two agents have the job for one Enqueue.
AtMostOnce == \A j \in JobId : queue[j] + Cardinality(Places(j)) <= enqueued[j]

\* As long as a job was queued only once, the server knows which agent has
\* it, so that a cancel signal is forwarded.  A restarted server knows no
\* token, and has an agent end its executions before it connects again.
TrackedWhileHeld ==
    \A s \in Slot : exec[s] # Free /\ known[s[1]] /\ enqueued[exec[s].job] = 1
                       => <<s[1], exec[s].job>> \in tracked

\* Success is only stored for a job with a container that ended without an
\* error, whatever stale row a late log line or a cancel saves.
SuccessEarned ==
    \A j \in JobId :
        /\ (Exists(j) /\ jobs[j].status = "success") => j \in earned
        /\ \A p \in Proc : (WorkingOn(p, j) /\ call[p].row.status = "success")
                              => j \in earned

LeftBehind(j) ==
    /\ Exists(j) /\ jobs[j].status \in {"pending", "running"}
    /\ queue[j] = 0 /\ Places(j) = {} /\ Quiet(j)

\* A job that is pending or running is in the queue or in somebody's hands,
\* unless something failed or one of its executions was cut short (its
\* Done then races with the log lines of the container).
NoJobLeftBehind ==
    \A j \in JobId : LeftBehind(j) => faults > 0 \/ j \in cut

\* Without faults every job that is created comes to an end, and stays so.
EveryJobEnds ==
    \A j \in JobId :
        Exists(j) ~> [](Exists(j) /\ jobs[j].status \in {"success", "failure", "cancelled"})

\* "Re-queueing" (server.go:226): when a handler whose Send failed has set
\* the status of the job back to pending, the job is in the queue.
SendFailureRequeues ==
    [][\A a \in AgentId :
         (stream[a].pc = "revert" /\ stream'[a] = Looping
            /\ jobs'[stream[a].job].status = "pending")
         => queue'[stream[a].job] > 0]_vars
=============================================================================
