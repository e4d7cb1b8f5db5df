------------------------------ MODULE JobOutput ------------------------------
(***************************************************************************)
(* What becomes of a job's container and of the lines it prints:           *)
(* executeJob (internal/agent/agent.go) and DockerExecutor.Run             *)
(* (internal/agent/docker.go) on one agent, the Docker daemon, and on the  *)
(* server Log and ProcessLog, which keep the end of the output.            *)
(*                                                                         *)
(* executeJob starts Run in a goroutine and Run starts a reader of the     *)
(* output.  When the job's context is done executeJob does not wait for    *)
(* Run, and Run does not wait for the reader.                              *)
(***************************************************************************)
EXTENDS Naturals, Sequences, FiniteSets

CONSTANTS
    Job,
    Capacity,     \* slots of the semaphore
    MaxLines,     \* bound: lines a container prints
    Width,        \* Width[n]: the size of line n
    Progress,     \* the lines that tell a progress
    MaxLog, Keep, \* maxLogSize, and 80% of it
    NoCopy,
    MaxFaults     \* bound: things that go wrong

Line == 1 .. MaxLines

ASSUME OutputAssumption ==
    /\ Capacity \in Nat \ {0} /\ MaxLines \in Nat /\ MaxFaults \in Nat
    /\ Width \in [Line -> Nat \ {0}] /\ Progress \subseteq Line
    /\ MaxLog \in Nat /\ Keep \in Nat /\ Keep + 1 < MaxLog

VARIABLES
    exec,       \* exec[j]: where executeJob is; the slot is held up to Done
    killed,     \* the jobs whose context is done
    run,        \* run[j]: where DockerExecutor.Run is, and the error it has
    container,  \* container[j], at the daemon
    printed,    \* printed[j]: lines the container printed
    long,       \* long[j]: the line that is too long for the reader, or 0
    reader,     \* reader[j]: the goroutine that scans the output
    read,       \* read[j]: lines it has scanned
    pending,    \* pending[j]: entries of its Log call still to be processed
    stored,     \* stored[j]: the column logs of the job's row
    copy,       \* copy[j]: that column in the hands of CancelJob or Done
    outcome,    \* outcome[j]: what was reported
    accepted,   \* history: accepted[j]: entries stored so far
    abandoned,  \* history: jobs cancelled, killed, or with a call that failed
    stray,      \* history: containers nobody will remove
    faults

agentVars == <<exec, killed, run, outcome>>
hostVars == <<container, printed, long>>
readerVars == <<reader, read, pending>>
logVars == <<stored, copy, accepted>>
history == <<abandoned, stray>>
vars == <<agentVars, hostVars, readerVars, logVars, history, faults>>

Entry == [line : Line, progress : BOOLEAN]
Header == [line |-> 0, progress |-> FALSE]

Holding == {j \in Job : exec[j] \in {"run", "report", "reporting"}}
Exists(j) == container[j] \in {"created", "running", "exited"}

Fault == faults < MaxFaults /\ faults' = faults + 1
\* A call to the daemon fails, necessarily once the job's context is done.
CallFails(j) == Fault \/ (j \in killed /\ UNCHANGED faults)

RunAt(j, pc) == run[j].pc = pc
RunGoes(j, to) == run' = [run EXCEPT ![j].pc = to]
RunFails(j, to) == run' = [run EXCEPT ![j] = [pc |-> to, failed |-> TRUE]]

Init ==
    /\ exec = [j \in Job |-> "queued"] /\ killed = {}
    /\ run = [j \in Job |-> [pc |-> "none", failed |-> FALSE]]
    /\ outcome = [j \in Job |-> "none"]
    /\ container = [j \in Job |-> "none"]
    /\ printed = [j \in Job |-> 0] /\ long = [j \in Job |-> 0]
    /\ reader = [j \in Job |-> "none"] /\ read = [j \in Job |-> 0]
    /\ pending = [j \in Job |-> <<>>]
    /\ stored = [j \in Job |-> <<>>] /\ copy = [j \in Job |-> NoCopy]
    /\ accepted = [j \in Job |-> <<>>]
    /\ abandoned = {} /\ stray = {} /\ faults = 0

-----------------------------------------------------------------------------
(***************************************************************************)
(* executeJob.                                                             *)
(***************************************************************************)
\* The agent takes a slot, receives the job and starts Run.
Receive(j) ==
    /\ exec[j] = "queued" /\ Cardinality(Holding) < Capacity
    /\ exec' = [exec EXCEPT ![j] = "run"]
    /\ RunGoes(j, "create")
    /\ UNCHANGED <<killed, outcome, hostVars, readerVars, logVars, history, faults>>

\* The job runs into its time limit, is cancelled, or its session ends.
CtxDone(j) ==
    /\ exec[j] = "run" /\ j \notin killed
    /\ killed' = killed \cup {j} /\ abandoned' = abandoned \cup {j}
    /\ UNCHANGED <<exec, run, outcome, hostVars, readerVars, logVars, stray, faults>>

Outcome(j, o) ==
    /\ exec[j] = "run"
    /\ exec' = [exec EXCEPT ![j] = "report"]
    /\ outcome' = [outcome EXCEPT ![j] = o]
    /\ UNCHANGED <<killed, run, hostVars, readerVars, logVars, history, faults>>

\* The two branches of the select; both may be ready.
RunReturned(j) == RunAt(j, "end") /\ Outcome(j, IF run[j].failed THEN "failure" ELSE "success")
NoLongerWaiting(j) == j \in killed /\ Outcome(j, "failure")

-----------------------------------------------------------------------------
(***************************************************************************)
(* DockerExecutor.Run.  A call that fails may have had its effect.         *)
(***************************************************************************)
Create(j) ==
    /\ RunAt(j, "create") /\ j \notin killed
    /\ container' = [container EXCEPT ![j] = "created"]
    /\ RunGoes(j, "start")
    /\ UNCHANGED <<exec, killed, outcome, printed, long, readerVars, logVars, history, faults>>

\* Without the reply Run does not know the container.
CreateFails(j) ==
    /\ RunAt(j, "create") /\ CallFails(j)
    /\ \/ UNCHANGED <<container, stray>>
       \/ /\ container' = [container EXCEPT ![j] = "created"]
          /\ stray' = stray \cup {j}
    /\ RunFails(j, "end")
    /\ UNCHANGED <<exec, killed, outcome, printed, long, readerVars, logVars, abandoned>>

Start(j) ==
    /\ RunAt(j, "start") /\ j \notin killed
    /\ container' = [container EXCEPT ![j] = "running"]
    /\ \E n \in 0 .. MaxLines : long' = [long EXCEPT ![j] = n]
    /\ RunGoes(j, "logs")
    /\ UNCHANGED <<exec, killed, outcome, printed, readerVars, logVars, history, faults>>

\* Mutant: the removal is deferred only after the container has started.
StartFailsForGood(j) ==
    /\ RunAt(j, "start") /\ CallFails(j)
    /\ UNCHANGED container
    /\ RunFails(j, "end") /\ abandoned' = abandoned \cup {j}
    /\ UNCHANGED <<exec, killed, outcome, printed, long, readerVars, logVars, stray>>

StartFails(j) ==
    /\ RunAt(j, "start") /\ CallFails(j)
    /\ \E to \in {"created", "running"} : container' = [container EXCEPT ![j] = to]
    /\ RunFails(j, "remove") /\ abandoned' = abandoned \cup {j}
    /\ UNCHANGED <<exec, killed, outcome, printed, long, readerVars, logVars, stray>>

\* ContainerLogs; without the stream Run goes on all the same.
FollowLogs(j) ==
    /\ RunAt(j, "logs")
    /\ \/ /\ j \notin killed /\ reader' = [reader EXCEPT ![j] = "reading"]
          /\ UNCHANGED <<abandoned, faults>>
       \/ CallFails(j) /\ abandoned' = abandoned \cup {j} /\ UNCHANGED reader
    /\ RunGoes(j, "wait")
    /\ UNCHANGED <<exec, killed, outcome, hostVars, read, pending, logVars, stray>>

\* Mutant: Run does not wait for the reader.
WaitOnly(j) ==
    /\ RunAt(j, "wait") /\ container[j] = "exited"
    /\ \E failed \in BOOLEAN :
          run' = [run EXCEPT ![j] = [pc |-> "remove", failed |-> failed]]
    /\ UNCHANGED <<exec, killed, outcome, hostVars, readerVars, logVars, history, faults>>

\* The container has exited, with some code: wg.Wait comes next.
Wait(j) ==
    /\ RunAt(j, "wait") /\ container[j] = "exited"
    /\ \E failed \in BOOLEAN :
          run' = [run EXCEPT ![j] = [pc |-> "drain", failed |-> failed]]
    /\ UNCHANGED <<exec, killed, outcome, hostVars, readerVars, logVars, history, faults>>

WaitFails(j) ==
    /\ RunAt(j, "wait") /\ CallFails(j)
    /\ RunFails(j, "remove") /\ abandoned' = abandoned \cup {j}
    /\ UNCHANGED <<exec, killed, outcome, hostVars, readerVars, logVars, stray>>

Drained(j) ==
    /\ RunAt(j, "drain") /\ reader[j] # "reading"
    /\ RunGoes(j, "remove")
    /\ UNCHANGED <<exec, killed, outcome, hostVars, readerVars, logVars, history, faults>>

\* Mutant: the removal uses the job's context, and its error is ignored.
CleanupWithCtx(j) ==
    /\ RunAt(j, "remove")
    /\ container' = IF j \in killed THEN container
                    ELSE [container EXCEPT ![j] = "removed"]
    /\ RunGoes(j, "end")
    /\ UNCHANGED <<exec, killed, outcome, printed, long, readerVars, logVars, history, faults>>

\* cleanup has a context of its own and removes by force.
Cleanup(j) ==
    /\ RunAt(j, "remove")
    /\ container' = [container EXCEPT ![j] = "removed"]
    /\ RunGoes(j, "end")
    /\ UNCHANGED <<exec, killed, outcome, printed, long, readerVars, logVars, history, faults>>

CleanupFails(j) ==
    /\ RunAt(j, "remove") /\ Fault
    /\ stray' = stray \cup {j}
    /\ RunGoes(j, "end")
    /\ UNCHANGED <<exec, killed, outcome, hostVars, readerVars, logVars, abandoned>>

-----------------------------------------------------------------------------
(***************************************************************************)
(* The container and the reader of its output.                             *)
(***************************************************************************)
PrintLine(j) ==
    /\ container[j] = "running" /\ printed[j] < MaxLines
    /\ printed' = [printed EXCEPT ![j] = @ + 1]
    /\ UNCHANGED <<agentVars, container, long, readerVars, logVars, history, faults>>

Exit(j) ==
    /\ container[j] = "running"
    /\ container' = [container EXCEPT ![j] = "exited"]
    /\ UNCHANGED <<agentVars, printed, long, readerVars, logVars, history, faults>>

HasProgress(n) == n \in Progress

\* The entries of the Log call for line n.
Entries(n) ==
    <<[line |-> n, progress |-> FALSE]>> \o
    (IF HasProgress(n) THEN <<[line |-> n, progress |-> TRUE]>> ELSE <<>>)

\* Mutant: the end of the output is taken for one more line.
ScanEmptyLast(j) ==
    /\ reader[j] = "reading" /\ pending[j] = <<>> /\ read[j] <= printed[j]
    /\ read' = [read EXCEPT ![j] = @ + 1]
    /\ pending' = [pending EXCEPT ![j] = Entries(read'[j])]
    /\ UNCHANGED <<agentVars, hostVars, reader, logVars, history, faults>>

\* The reader makes one call at a time; a line beyond the buffer ends it.
Scan(j) ==
    LET n == read[j] + 1 IN
    /\ reader[j] = "reading" /\ pending[j] = <<>> /\ n <= printed[j]
    /\ IF n = long[j]
       THEN reader' = [reader EXCEPT ![j] = "stopped"] /\ UNCHANGED <<read, pending>>
       ELSE /\ read' = [read EXCEPT ![j] = n]
            /\ pending' = [pending EXCEPT ![j] = Entries(n)]
            /\ UNCHANGED reader
    /\ UNCHANGED <<agentVars, hostVars, logVars, history, faults>>

\* The end of the output, or of the stream: the context is done, or the
\* container was removed.
StreamEnds(j) ==
    /\ reader[j] = "reading" /\ pending[j] = <<>>
    /\ \/ container[j] = "exited" /\ read[j] = printed[j]
       \/ container[j] = "removed" \/ j \in killed
    /\ reader' = [reader EXCEPT ![j] = "stopped"]
    /\ UNCHANGED <<agentVars, hostVars, read, pending, logVars, history, faults>>

-----------------------------------------------------------------------------
(***************************************************************************)
(* The server: Log, ProcessLog, and the calls that save the row as well.   *)
(***************************************************************************)
LineSize(e) == IF e = Header \/ e.progress THEN 1 ELSE Width[e.line]

\* Sizes(log)[n]: the size of the first n lines.
Sizes(log) ==
    LET s[n \in 0 .. Len(log)] == IF n = 0 THEN 0 ELSE s[n - 1] + LineSize(log[n])
    IN  s

Size(log) == Sizes(log)[Len(log)]

\* Mutant: the beginning is kept and the end cut off.
TruncateEnd(log) ==
    LET kept == {k \in DOMAIN log : Sizes(log)[k] <= Keep}
    IN <<Header>> \o SubSeq(log, 1, Cardinality(kept))

\* The line that holds the last position to go goes as a whole.
Truncate(log) ==
    LET kept == {k \in DOMAIN log : Sizes(log)[k - 1] > Size(log) - Keep}
    IN <<Header>> \o SubSeq(log, Len(log) - Cardinality(kept) + 1, Len(log))

\* Mutant: a log of just the limit is not truncated.
AppendLate(log, e) == Append(IF Size(log) > MaxLog THEN Truncate(log) ELSE log, e)

AppendLine(log, e) == Append(IF Size(log) >= MaxLog THEN Truncate(log) ELSE log, e)

Store(j) ==
    /\ stored' = [stored EXCEPT ![j] = AppendLine(@, Head(pending[j]))]
    /\ accepted' = [accepted EXCEPT ![j] = Append(@, Head(pending[j]))]

\* Log stores every entry as a line, that of the progress too.
ProcessLog(j) ==
    /\ pending[j] # <<>>
    /\ Store(j)
    /\ pending' = [pending EXCEPT ![j] = Tail(@)]
    /\ UNCHANGED <<agentVars, hostVars, reader, read, copy, history, faults>>

\* Mutant: an entry is sent again when its reply was lost.
LogFailsAndRetries(j) ==
    /\ pending[j] # <<>> /\ Fault
    /\ Store(j)
    /\ abandoned' = abandoned \cup {j}
    /\ UNCHANGED <<agentVars, hostVars, reader, read, pending, copy, stray>>

\* ProcessLog fails on the entry, or the call does not arrive.
LogFails(j) ==
    /\ pending[j] # <<>> /\ Fault
    /\ \E rest \in {Tail(pending[j]), <<>>} : pending' = [pending EXCEPT ![j] = rest]
    /\ abandoned' = abandoned \cup {j}
    /\ UNCHANGED <<agentVars, hostVars, reader, read, logVars, stray>>

\* CancelJob reads the row while the job runs, and later saves its copy.
CancelJob(j) ==
    /\ exec[j] = "run" /\ j \notin killed /\ copy[j] = NoCopy
    /\ copy' = [copy EXCEPT ![j] = stored[j]]
    /\ abandoned' = abandoned \cup {j}
    /\ UNCHANGED <<agentVars, hostVars, readerVars, stored, accepted, stray, faults>>

Done(j) ==
    /\ exec[j] = "report" /\ copy[j] = NoCopy
    /\ copy' = [copy EXCEPT ![j] = stored[j]]
    /\ exec' = [exec EXCEPT ![j] = "reporting"]
    /\ UNCHANGED <<killed, run, outcome, hostVars, readerVars, stored, accepted, history, faults>>

SaveCopy(j) ==
    /\ copy[j] # NoCopy
    /\ stored' = [stored EXCEPT ![j] = copy[j]]
    /\ copy' = [copy EXCEPT ![j] = NoCopy]
    /\ exec' = [exec EXCEPT ![j] = IF @ = "reporting" THEN "done" ELSE @]
    /\ UNCHANGED <<killed, run, outcome, hostVars, readerVars, accepted, history, faults>>

\* The process ends: by a restart command, an update or a crash.  What it
\* started at the daemon stays.
AgentExits ==
    /\ Fault /\ \E j \in Job : exec[j] # "queued"
    /\ exec' = [j \in Job |-> IF exec[j] = "queued" THEN "queued" ELSE "done"]
    /\ run' = [j \in Job |-> IF RunAt(j, "none") THEN run[j]
                             ELSE [pc |-> "end", failed |-> TRUE]]
    /\ reader' = [j \in Job |-> IF reader[j] = "reading" THEN "stopped" ELSE reader[j]]
    /\ pending' = [j \in Job |-> <<>>]
    /\ stray' = stray \cup {j \in Job : Exists(j)}
    /\ abandoned' = abandoned \cup {j \in Job : exec[j] # "queued"}
    /\ UNCHANGED <<killed, outcome, hostVars, read, logVars>>

-----------------------------------------------------------------------------
Execute(j) == Receive(j) \/ CtxDone(j) \/ RunReturned(j) \/ NoLongerWaiting(j)

Run(j) ==
    \/ Create(j) \/ CreateFails(j) \/ Start(j) \/ StartFails(j) \/ FollowLogs(j)
    \/ Wait(j) \/ WaitFails(j) \/ Drained(j) \/ Cleanup(j) \/ CleanupFails(j)

Container(j) == PrintLine(j) \/ Exit(j)
Reader(j) == Scan(j) \/ StreamEnds(j)
Server(j) == ProcessLog(j) \/ LogFails(j) \/ CancelJob(j) \/ Done(j) \/ SaveCopy(j)

Next ==
    \/ \E j \in Job : Execute(j) \/ Run(j) \/ Container(j) \/ Reader(j) \/ Server(j)
    \/ AgentExits

OutputSpec == Init /\ [][Next]_vars

\* Goroutines and handlers go on, and commands end; whether a job is
\* cancelled or anything fails is open.
RunWorks(j) ==
    \/ Create(j) \/ Start(j) \/ FollowLogs(j) \/ Wait(j) \/ Drained(j) \/ Cleanup(j)
    \/ j \in killed /\ (CreateFails(j) \/ StartFails(j) \/ WaitFails(j))

FairOutputSpec ==
    /\ OutputSpec
    /\ \A j \in Job : /\ WF_vars(RunWorks(j)) /\ WF_vars(Exit(j))
                      /\ WF_vars(Reader(j)) /\ WF_vars(ProcessLog(j))
                      /\ WF_vars(RunReturned(j) \/ NoLongerWaiting(j))
                      /\ WF_vars(Done(j)) /\ WF_vars(SaveCopy(j))

-----------------------------------------------------------------------------
\* Every variable has its type, and executions stay within the semaphore.
OutputTypeOK ==
    /\ exec \in [Job -> {"queued", "run", "report", "reporting", "done"}]
    /\ Cardinality(Holding) <= Capacity
    /\ killed \subseteq Job /\ abandoned \subseteq Job /\ stray \subseteq Job
    /\ run \in [Job -> [pc : {"none", "create", "start", "logs", "wait", "drain",
                             "remove", "end"}, failed : BOOLEAN]]
    /\ outcome \in [Job -> {"none", "success", "failure"}]
    /\ container \in [Job -> {"none", "created", "running", "exited", "removed"}]
    /\ \A f \in {printed, long, read} : f \in [Job -> 0 .. MaxLines]
    /\ reader \in [Job -> {"none", "reading", "stopped"}]
    /\ pending \in [Job -> Seq(Entry)] /\ accepted \in [Job -> Seq(Entry)]
    /\ stored \in [Job -> Seq(Entry \cup {Header})]
    /\ copy \in [Job -> Seq(Entry \cup {Header}) \cup {NoCopy}]
    /\ faults \in 0 .. MaxFaults

Before(d, e) == \/ d.line < e.line
                \/ d.line = e.line /\ ~d.progress /\ e.progress

\* What is stored of a job's output is in the order in which it was printed,
\* no entry twice, also when a call fails or a stale copy is saved.
LogInOrder ==
    \A j \in Job : \A k, l \in DOMAIN stored[j] :
        k < l => Before(stored[j][k], stored[j][l])

\* The stored log is the end of what was accepted, the whole of it or after
\* one header, unless another call saved its copy over it.
LogKept ==
    \A j \in Job \ abandoned :
        \/ stored[j] = accepted[j]
        \/ \E k \in 1 .. Len(accepted[j]) :
              stored[j] = <<Header>> \o SubSeq(accepted[j], k + 1, Len(accepted[j]))

\* The log exceeds its limit by its last line at most: what comes before that
\* is below the limit, whatever was appended, truncated and saved over it.
LogSizeBounded ==
    \A j \in Job : \A n \in 0 .. Len(stored[j]) - 1 : Sizes(stored[j])[n] < MaxLog

Complete(j) ==
    \A n \in 1 .. printed[j] : \A p \in DOMAIN Entries(n) :
        \E k \in DOMAIN accepted[j] : accepted[j][k] = Entries(n)[p]

\* When Done reports a job that ran to its end, all that its container
\* printed was stored before, unless a line was too long for the reader.
CompleteWhenDone ==
    \A j \in Job \ abandoned :
        (exec[j] \in {"reporting", "done"} /\ long[j] \notin 1 .. printed[j]) =>
            Complete(j)

\* A container belongs to a Run that will remove it, whichever of its calls
\* fails and whenever its context ends, but for a create whose reply was
\* lost, a removal that failed and an agent that exited.
NoStrayContainer ==
    \A j \in Job \ stray : Exists(j) => run[j].pc \notin {"none", "end"}

\* Documented (agent.go:30): the semaphore limits concurrent job execution,
\* no more containers run than there are slots.
SlotsLimitContainers ==
    Cardinality({j \in Job : container[j] = "running"}) <= Capacity

\* An execution ends, and its container with it, also when it is killed.
ContainersRemoved ==
    \A j \in Job : (exec[j] = "run") ~>
        (exec[j] = "done" /\ (Exists(j) => j \in stray))
=============================================================================
