----------------------------- MODULE JobService -----------------------------
(***************************************************************************)
(* JobService (internal/core/services/job_service.go) over its database,   *)
(* its Redis queue and its Redis publish/subscribe channels.               *)
(*                                                                         *)
(* Every operation is a goroutine that reads a job's row, edits its own    *)
(* copy, saves the whole copy back and then talks to Redis.  No lock is    *)
(* held in between, so each of those is a step of its own and the calls    *)
(* of other goroutines, for the same job or another, come between them.    *)
(***************************************************************************)
EXTENDS Naturals, FiniteSets

CONSTANTS
    Proc,         \* goroutines that call the service
    JobId,        \* identifiers of jobs
    AgentId,      \* identifiers of agents
    NoAgent,      \* a nil AgentID
    NoRow,        \* a job that is not in the database
    MaxRetries,   \* Job.MaxRetries
    Reported,     \* bound: statuses the gRPC server reports for agents
    MaxLogs,      \* bound: log lines kept for one job
    MaxEnqueue,   \* bound: attempts to put one job into the queue
    Watched,      \* jobs whose announcements somebody listens to
    Faulty,       \* may a call to the database or to Redis fail?
    Overlap       \* may calls for the same job overlap?

ASSUME ConstantsAssumption ==
    /\ NoAgent \notin AgentId
    /\ MaxRetries \in Nat /\ MaxLogs \in Nat /\ MaxEnqueue \in Nat
    /\ Watched \subseteq JobId
    /\ Faulty \in BOOLEAN /\ Overlap \in BOOLEAN

VARIABLES
    jobs,         \* the jobs table
    queue,        \* queue[j]: entries of j in the sorted set of the queue
    call,         \* call[p]: the call goroutine p is in
    announced,    \* announced[j]: last status that came on the job channel
    cancels,      \* cancel signals waiting in the agents' subscriptions
    enqueued,     \* history: how many times j was put into the queue
    refused       \* history: how many times putting j there failed

serviceVars == <<jobs, queue, call, announced, cancels, enqueued, refused>>

Status == {"pending", "running", "success", "failure", "cancelled"}

ASSUME ReportedAssumption == Reported \subseteq Status \ {"cancelled"}

\* The columns of a job that the operations read or write.  Logs is the
\* number of lines stored, progress whether any progress was recorded.
Row == [status : Status, agent : AgentId \cup {NoAgent}, cancelled : BOOLEAN,
        retryCount : Nat, progress : {0, 1}, logs : Nat]

NewRow == [status |-> "pending", agent |-> NoAgent, cancelled |-> FALSE,
           retryCount |-> 0, progress |-> 0, logs |-> 0]

Op == {"create", "assign", "status", "log", "progress", "cancel", "retry"}

ASSUME NoRowAssumption == NoRow \notin Row

Idle == [pc |-> "idle"]
Call == [pc : {"save", "enqueue", "publish", "signal"},
         op : Op, job : JobId, row : Row]

Exists(j) == jobs[j] # NoRow

WorkingOn(p, j) == call[p] # Idle /\ call[p].job = j
Quiet(j) == \A p \in Proc : ~WorkingOn(p, j)

Dispatched(j) == enqueued[j] > queue[j]

-----------------------------------------------------------------------------
(***************************************************************************)
(* The steps that start a call.  Each but CreateJob ends with the row read *)
(* and its copy edited; a read or a check that fails changes nothing.      *)
(***************************************************************************)
Start(p, op, j, pc, row) ==
    /\ call[p] = Idle
    /\ Overlap \/ Quiet(j)
    /\ call' = [call EXCEPT ![p] = [pc |-> pc, op |-> op, job |-> j, row |-> row]]

\* Mutant: the job is stored and never queued.
CreateJobUnqueued(p, j) ==
    /\ call[p] = Idle /\ Quiet(j) /\ ~Exists(j)
    /\ jobs' = [jobs EXCEPT ![j] = NewRow]
    /\ UNCHANGED <<call, queue, announced, cancels, enqueued, refused>>

CreateJob(p, j) ==
    /\ ~Exists(j)
    /\ Start(p, "create", j, "enqueue", NewRow)
    /\ jobs' = [jobs EXCEPT ![j] = NewRow]
    /\ UNCHANGED <<queue, announced, cancels, enqueued, refused>>

GetJob(p, op, j, row) ==
    /\ Exists(j)
    /\ Start(p, op, j, "save", row)
    /\ UNCHANGED <<jobs, queue, announced, cancels, enqueued, refused>>

AssignJob(p, j, a) ==
    GetJob(p, "assign", j, [jobs[j] EXCEPT !.agent = a, !.status = "running"])

UpdateJobStatus(p, j, s) ==
    GetJob(p, "status", j, [jobs[j] EXCEPT !.status = s])

\* The line may carry a progress, which replaces the recorded one.
ProcessLog(p, j, withProgress) ==
    GetJob(p, "log", j,
           [jobs[j] EXCEPT !.logs = @ + 1, !.progress = IF withProgress THEN 1 ELSE @])

UpdateJobProgress(p, j) ==
    GetJob(p, "progress", j, [jobs[j] EXCEPT !.progress = 1])

\* Mutant: a job can be cancelled whatever its status.
CancelJobAnyStatus(p, j) ==
    GetJob(p, "cancel", j, [jobs[j] EXCEPT !.status = "cancelled", !.cancelled = TRUE])

\* Mutant: the Cancelled flag is forgotten.
CancelJobUnmarked(p, j) ==
    /\ jobs[j] # NoRow /\ jobs[j].status \in {"pending", "running"}
    /\ GetJob(p, "cancel", j, [jobs[j] EXCEPT !.status = "cancelled"])

CancelJob(p, j) ==
    /\ jobs[j] # NoRow /\ jobs[j].status \in {"pending", "running"}
    /\ GetJob(p, "cancel", j, [jobs[j] EXCEPT !.status = "cancelled", !.cancelled = TRUE])

\* Mutant: one retry too many.
RetryJobOffByOne(p, j) ==
    /\ jobs[j] # NoRow /\ jobs[j].status \in {"failure", "cancelled"}
    /\ jobs[j].retryCount <= MaxRetries
    /\ GetJob(p, "retry", j,
              [jobs[j] EXCEPT !.status = "pending", !.cancelled = FALSE,
                              !.retryCount = @ + 1, !.progress = 0])

\* Mutant: the retry is not counted.
RetryJobUncounted(p, j) ==
    /\ jobs[j] # NoRow /\ jobs[j].status \in {"failure", "cancelled"}
    /\ jobs[j].retryCount < MaxRetries
    /\ GetJob(p, "retry", j,
              [jobs[j] EXCEPT !.status = "pending", !.cancelled = FALSE, !.progress = 0])

RetryJob(p, j) ==
    /\ jobs[j] # NoRow /\ jobs[j].status \in {"failure", "cancelled"}
    /\ jobs[j].retryCount < MaxRetries
    /\ GetJob(p, "retry", j,
              [jobs[j] EXCEPT !.status = "pending", !.cancelled = FALSE,
                              !.retryCount = @ + 1, !.progress = 0])

-----------------------------------------------------------------------------
(***************************************************************************)
(* The steps that go on with a call.                                       *)
(***************************************************************************)
\* Mutant: the check for a nil AgentID is missing.
AfterPublishUnchecked(c) == IF c.op = "cancel" THEN [c EXCEPT !.pc = "signal"] ELSE Idle

AfterPublish(c) ==
    IF c.op = "cancel" /\ c.row.agent # NoAgent THEN [c EXCEPT !.pc = "signal"] ELSE Idle

\* Mutant: a retry is saved and not queued.
AfterSaveUnqueued(c) ==
    CASE c.op \in {"assign", "status", "cancel"} ->
            IF c.job \in Watched THEN [c EXCEPT !.pc = "publish"] ELSE AfterPublish(c)
      [] OTHER -> Idle

\* Mutant: a cancellation is signalled and not announced.
AfterSaveSilent(c) ==
    CASE c.op = "retry" -> [c EXCEPT !.pc = "enqueue"]
      [] c.op \in {"assign", "status"} /\ c.job \in Watched -> [c EXCEPT !.pc = "publish"]
      [] OTHER -> AfterPublish(c)

\* Where a call goes once its row is saved.  A log line and a progress are
\* published to the viewers of the log only, which keep no state here; an
\* announcement that nobody listens to is not worth a step.
AfterSave(c) ==
    CASE c.op = "retry" -> [c EXCEPT !.pc = "enqueue"]
      [] c.op \in {"assign", "status", "cancel"} ->
            IF c.job \in Watched THEN [c EXCEPT !.pc = "publish"] ELSE AfterPublish(c)
      [] OTHER -> Idle

\* gorm's Save: every column is written, whatever the row has become.
Save(p) ==
    /\ call[p] # Idle /\ call[p].pc = "save"
    /\ jobs' = [jobs EXCEPT ![call[p].job] = call[p].row]
    /\ call' = [call EXCEPT ![p] = AfterSave(@)]
    /\ UNCHANGED <<queue, announced, cancels, enqueued, refused>>

SaveFails(p) ==
    /\ Faulty
    /\ call[p] # Idle /\ call[p].pc = "save"
    /\ call' = [call EXCEPT ![p] = Idle]
    /\ UNCHANGED <<jobs, queue, announced, cancels, enqueued, refused>>

Enqueue(p) ==
    /\ call[p] # Idle /\ call[p].pc = "enqueue"
    /\ queue' = [queue EXCEPT ![call[p].job] = @ + 1]
    /\ enqueued' = [enqueued EXCEPT ![call[p].job] = @ + 1]
    /\ call' = [call EXCEPT ![p] = Idle]
    /\ UNCHANGED <<jobs, announced, cancels, refused>>

\* The row stays as it was saved: nothing undoes it.
EnqueueFails(p) ==
    /\ Faulty
    /\ call[p] # Idle /\ call[p].pc = "enqueue"
    /\ refused' = [refused EXCEPT ![call[p].job] = @ + 1]
    /\ call' = [call EXCEPT ![p] = Idle]
    /\ UNCHANGED <<jobs, queue, announced, cancels, enqueued>>

\* A publication that fails is logged and the call goes on.
PublishJobUpdate(p) ==
    /\ call[p] # Idle /\ call[p].pc = "publish"
    /\ \E event \in {call[p].row.status} \cup (IF Faulty THEN {"lost"} ELSE {}) :
          announced' = [announced EXCEPT ![call[p].job] = event]
    /\ call' = [call EXCEPT ![p] = AfterPublish(@)]
    /\ UNCHANGED <<jobs, queue, cancels, enqueued, refused>>

\* The signal reaches the agent's subscription if there is one just now.
PublishCancel(p, subscribed) ==
    /\ call[p] # Idle /\ call[p].pc = "signal"
    /\ cancels' = IF subscribed
                  THEN cancels \cup {<<call[p].row.agent, call[p].job>>}
                  ELSE cancels
    /\ call' = [call EXCEPT ![p] = Idle]
    /\ UNCHANGED <<jobs, queue, announced, enqueued, refused>>

\* Mutant: an empty reply is taken for a job.
GetNextJobUnchecked(j) ==
    /\ queue' = [queue EXCEPT ![j] = @ - 1]
    /\ UNCHANGED <<jobs, call, announced, cancels, enqueued, refused>>

\* GetNextJob: ZPOPMIN takes one entry; which one is RedisQueue's matter.
GetNextJob(j) ==
    /\ queue[j] > 0
    /\ queue' = [queue EXCEPT ![j] = @ - 1]
    /\ UNCHANGED <<jobs, call, announced, cancels, enqueued, refused>>

-----------------------------------------------------------------------------
ServiceInit ==
    /\ jobs = [j \in JobId |-> NoRow]
    /\ queue = [j \in JobId |-> 0]
    /\ call = [p \in Proc |-> Idle]
    /\ announced = [j \in JobId |-> "none"]
    /\ cancels = {}
    /\ enqueued = [j \in JobId |-> 0]
    /\ refused = [j \in JobId |-> 0]

\* What HTTP clients ask for.
Request(p, j) ==
    \/ CreateJob(p, j)
    \/ CancelJob(p, j)
    \/ enqueued[j] + refused[j] < MaxEnqueue /\ RetryJob(p, j)

\* What the gRPC server asks for, on behalf of agents: only for a job that
\* some stream has taken from the queue.
AgentCall(p, j) ==
    /\ Dispatched(j)
    /\ \/ \E a \in AgentId : AssignJob(p, j, a)
       \/ \E s \in Reported : UpdateJobStatus(p, j, s)
       \/ /\ Exists(j) /\ jobs[j].logs < MaxLogs
          /\ \E withProgress \in BOOLEAN : ProcessLog(p, j, withProgress)
       \/ UpdateJobProgress(p, j)

Continue(p) ==
    \/ Save(p) \/ SaveFails(p)
    \/ Enqueue(p) \/ EnqueueFails(p)
    \/ PublishJobUpdate(p)
    \/ \E subscribed \in BOOLEAN : PublishCancel(p, subscribed)

ServiceNext ==
    \/ \E p \in Proc :
          \/ \E j \in JobId : Request(p, j) \/ AgentCall(p, j)
          \/ Continue(p)
    \/ \E j \in JobId : GetNextJob(j)

ServiceSpec == ServiceInit /\ [][ServiceNext]_serviceVars

\* A goroutine that was given work goes on with it; nobody has to call.
FairServiceSpec == ServiceSpec /\ \A p \in Proc : WF_serviceVars(Continue(p))
-----------------------------------------------------------------------------
(***************************************************************************)
(* Properties.                                                             *)
(***************************************************************************)
\* Every variable has the values the code gives it.
TypeOK ==
    /\ jobs \in [JobId -> Row \cup {NoRow}]
    /\ queue \in [JobId -> Nat]
    /\ call \in [Proc -> Call \cup {Idle}]
    /\ announced \in [JobId -> Status \cup {"none", "lost"}]
    /\ cancels \subseteq AgentId \X JobId
    /\ enqueued \in [JobId -> Nat]
    /\ refused \in [JobId -> Nat]

\* The rows there are: those in the table and the copies calls work on.
Rows == {jobs[j] : j \in {i \in JobId : Exists(i)}}
        \cup {call[p].row : p \in {q \in Proc : call[q] # Idle}}

\* The number of retries never exceeds Job.MaxRetries, however many RetryJob
\* calls pass its check on the same row at the same time.
RetryBound == \A r \in Rows : r.retryCount <= MaxRetries

\* A job whose status is cancelled carries the Cancelled flag, whichever
\* stale copy of the row was the last to be saved.
CancelledMarked == \A r \in Rows : r.status = "cancelled" => r.cancelled

Enqueueing(j) == {p \in Proc : WorkingOn(p, j) /\ call[p].pc = "enqueue"}

\* Every retry that is counted in the row, and the creation, has put the job
\* into the queue, is about to, or has failed to and told its caller; no
\* interleaving of calls uses a retry up for nothing.
RetriesCovered ==
    \A j \in JobId : Exists(j) =>
        jobs[j].retryCount + 1
            <= enqueued[j] + refused[j] + Cardinality(Enqueueing(j))

\* What the limit on retries is for: a job runs at most 1 + MaxRetries times.
EntriesBounded == \A j \in JobId : enqueued[j] <= 1 + MaxRetries

\* Between calls a job has been offered to the queue exactly once for its
\* creation and once for each retry that its row counts.
EntriesExact ==
    \A j \in JobId : Exists(j) /\ Quiet(j) =>
        enqueued[j] + refused[j] = 1 + jobs[j].retryCount

\* Between calls, the last status announced is the one in the table, unless
\* the publication failed; a job waiting for an agent is announced by nobody.
AnnouncedCurrent ==
    \A j \in Watched : Exists(j) /\ Quiet(j) =>
        \/ jobs[j].status = "pending"
        \/ announced[j] \in {jobs[j].status, "lost"}

\* The contract, seen through the columns it is about.
Record(j) == IF Exists(j)
             THEN [status |-> jobs[j].status, agent |-> jobs[j].agent,
                   retryCount |-> jobs[j].retryCount]
             ELSE NoRow
Contract == INSTANCE JobContract WITH record <- [j \in JobId |-> Record(j)]

ASSUME ContractAssumption == NoRow \notin Contract!Record

\* Calls that do not overlap on a job implement its life cycle.
ImplementsContract == Contract!Spec

\* A job that is created is put into the queue, or its creator is told that
\* it was not; likewise for every retry that is saved.
EveryJobOffered ==
    \A j \in JobId : \A n \in 0 .. MaxRetries :
        (Exists(j) /\ jobs[j].retryCount >= n) ~> (enqueued[j] + refused[j] > n)
=============================================================================
