------------------------- MODULE JobContractProofs -------------------------
(***************************************************************************)
(* When calls for one job do not overlap, JobService implements the life   *)
(* cycle JobContract and queues a job exactly once for its creation and    *)
(* for each retry.  The argument: a call that is about to save has the     *)
(* only copy of the row that anybody edits, so the copy differs from the   *)
(* stored row by one edit of the contract.  The announcements follow        *)
(* the stored status for the same reason.                                  *)
(***************************************************************************)
EXTENDS JobServiceProofs

USE DEF Exists

\* How the copy that a call saves differs from the row that is stored.
Edit(op, old, new) ==
    /\ op # "create"
    /\ op # "assign" => new.agent = old.agent
    /\ op # "retry" => new.retryCount = old.retryCount
    /\ op = "assign" => new.agent \in AgentId /\ new.status = "running"
    /\ op = "status" => new.status \in Status \ {"cancelled"}
    /\ op \in {"log", "progress"} => new.status = old.status
    /\ op = "cancel" => old.status \in {"pending", "running"} /\ new.status = "cancelled"
    /\ op = "retry" => /\ old.status \in {"failure", "cancelled"}
                       /\ new.status = "pending"
                       /\ old.retryCount < MaxRetries
                       /\ new.retryCount = old.retryCount + 1

\* One call at a time for a job, with a fresh copy of its row.
Alone == \A p, q \in Proc :
            call[p] # Idle /\ call[q] # Idle /\ call[p].job = call[q].job => p = q

Fresh == \A p \in Proc : call[p] # Idle =>
            /\ Exists(call[p].job)
            /\ call[p].pc = "save" =>
                  Edit(call[p].op, jobs[call[p].job], call[p].row)

SerialInv == Alone /\ Fresh

LEMMA GetJobSerial ==
    ASSUME ~Overlap, TypeInv, SerialInv,
           NEW p \in Proc, NEW j \in JobId, NEW op \in Op, NEW row \in Row,
           GetJob(p, op, j, row), Edit(op, jobs[j], row)
    PROVE  SerialInv'
<1> DEFINE c == [pc |-> "save", op |-> op, job |-> j, row |-> row]
<1>1. /\ call' = [call EXCEPT ![p] = c]
      /\ jobs' = jobs /\ jobs[j] # NoRow
      /\ \A q \in Proc : call[q] # Idle => call[q].job # j
  BY DEF GetJob, Start, Quiet, WorkingOn
<1>2. /\ \A q \in Proc \ {p} : call'[q] = call[q]
      /\ call'[p] = c
  BY <1>1 DEF TypeInv, TypeOK
<1>3. Alone'
  BY <1>1, <1>2 DEF SerialInv, Alone
<1>4. Fresh'
  BY <1>1, <1>2 DEF SerialInv, Fresh, Edit
<1> QED
  BY <1>3, <1>4 DEF SerialInv

LEMMA RequestSerial ==
    ASSUME ~Overlap, TypeInv, SerialInv, NEW p \in Proc, NEW j \in JobId, Request(p, j)
    PROVE  SerialInv'
<1>1. CASE CreateJob(p, j)
  <2> DEFINE c == [pc |-> "enqueue", op |-> "create", job |-> j, row |-> NewRow]
  <2>1. /\ call' = [call EXCEPT ![p] = c]
        /\ jobs' = [jobs EXCEPT ![j] = NewRow]
        /\ \A q \in Proc : call[q] # Idle => call[q].job # j
    BY <1>1 DEF CreateJob, Start, Quiet, WorkingOn
  <2>2. /\ \A q \in Proc \ {p} : call'[q] = call[q]
        /\ call'[p] = c
        /\ \A i \in JobId \ {j} : jobs'[i] = jobs[i]
        /\ jobs'[j] # NoRow
    BY <2>1, NewRowType, NoRowAssumption DEF TypeInv, TypeOK
  <2>3. \A q \in Proc : call[q] # Idle => call[q].job \in JobId
    BY DEF TypeInv, TypeOK, Call
  <2>4. Alone'
    BY <2>1, <2>2 DEF SerialInv, Alone
  <2>5. Fresh'
    BY <2>1, <2>2, <2>3 DEF SerialInv, Fresh, Edit
  <2> QED
    BY <2>4, <2>5 DEF SerialInv
<1>2. CASE CancelJob(p, j)
  <2> DEFINE r == [jobs[j] EXCEPT !.status = "cancelled", !.cancelled = TRUE]
  <2>1. jobs[j] \in Row /\ jobs[j].status \in {"pending", "running"}
    BY <1>2 DEF CancelJob, GetJob, TypeInv, TypeOK
  <2>2. r \in Row /\ Edit("cancel", jobs[j], r)
    BY <2>1 DEF Row, Status, Edit
  <2>3. GetJob(p, "cancel", j, r)
    BY <1>2 DEF CancelJob
  <2> QED
    BY <2>2, <2>3, GetJobSerial DEF Op
<1>3. CASE RetryJob(p, j)
  <2> DEFINE r(n) == [jobs[j] EXCEPT !.status = "pending", !.cancelled = FALSE,
                                     !.retryCount = n, !.progress = 0]
  <2>1. /\ jobs[j] \in Row /\ jobs[j].status \in {"failure", "cancelled"}
        /\ jobs[j].retryCount < MaxRetries
    BY <1>3 DEF RetryJob, GetJob, TypeInv, TypeOK
  <2>2. \A n \in Nat : n = jobs[j].retryCount + 1 => r(n) \in Row /\ Edit("retry", jobs[j], r(n))
    BY <2>1 DEF Row, Status, Edit
  <2>3. jobs[j].retryCount + 1 \in Nat
    BY <2>1 DEF Row
  <2>4. GetJob(p, "retry", j, r(jobs[j].retryCount + 1))
    BY <1>3 DEF RetryJob
  <2> QED
    BY <2>2, <2>3, <2>4, GetJobSerial DEF Op
<1> QED
  BY <1>1, <1>2, <1>3 DEF Request

LEMMA AgentCallSerial ==
    ASSUME ~Overlap, TypeInv, SerialInv, NEW p \in Proc, NEW j \in JobId, AgentCall(p, j)
    PROVE  SerialInv'
<1>1. ASSUME jobs[j] # NoRow
      PROVE  jobs[j] \in Row
  BY <1>1 DEF TypeInv, TypeOK
<1>2. ASSUME NEW a \in AgentId, AssignJob(p, j, a)
      PROVE  SerialInv'
  <2> DEFINE r == [jobs[j] EXCEPT !.agent = a, !.status = "running"]
  <2>1. r \in Row /\ Edit("assign", jobs[j], r)
    BY <1>1, <1>2 DEF AssignJob, GetJob, Row, Status, Edit
  <2>2. GetJob(p, "assign", j, r)
    BY <1>2 DEF AssignJob
  <2> QED
    BY <2>1, <2>2, GetJobSerial DEF Op
<1>3. ASSUME NEW s \in Reported, UpdateJobStatus(p, j, s)
      PROVE  SerialInv'
  <2> DEFINE r == [jobs[j] EXCEPT !.status = s]
  <2>1. r \in Row /\ Edit("status", jobs[j], r)
    BY <1>1, <1>3, ReportedAssumption DEF UpdateJobStatus, GetJob, Row, Status, Edit
  <2>2. GetJob(p, "status", j, r)
    BY <1>3 DEF UpdateJobStatus
  <2> QED
    BY <2>1, <2>2, GetJobSerial DEF Op
<1>4. ASSUME NEW w \in BOOLEAN, ProcessLog(p, j, w)
      PROVE  SerialInv'
  <2> DEFINE r(n, q) == [jobs[j] EXCEPT !.logs = n, !.progress = q]
             q0 == IF w THEN 1 ELSE jobs[j].progress
  <2>1. jobs[j] \in Row
    BY <1>1, <1>4 DEF ProcessLog, GetJob
  <2>2. \A n \in Nat, q \in {0, 1} : r(n, q) \in Row /\ Edit("log", jobs[j], r(n, q))
    BY <2>1 DEF Row, Status, Edit
  <2>3. jobs[j].logs + 1 \in Nat /\ q0 \in {0, 1}
    BY <2>1 DEF Row
  <2>4. GetJob(p, "log", j, r(jobs[j].logs + 1, q0))
    BY <1>4 DEF ProcessLog
  <2> HIDE DEF q0
  <2> QED
    BY <2>2, <2>3, <2>4, GetJobSerial DEF Op
<1>5. CASE UpdateJobProgress(p, j)
  <2> DEFINE r == [jobs[j] EXCEPT !.progress = 1]
  <2>1. r \in Row /\ Edit("progress", jobs[j], r)
    BY <1>1, <1>5 DEF UpdateJobProgress, GetJob, Row, Status, Edit
  <2>2. GetJob(p, "progress", j, r)
    BY <1>5 DEF UpdateJobProgress
  <2> QED
    BY <2>1, <2>2, GetJobSerial DEF Op
<1> QED
  BY <1>2, <1>3, <1>4, <1>5 DEF AgentCall

\* A call that goes on stays with its job, and never returns to its save.
LEMMA NextCallJob ==
    ASSUME NEW c \in Call
    PROVE  /\ AfterPublish(c) # Idle => AfterPublish(c).job = c.job
                                        /\ AfterPublish(c).pc # "save"
           /\ AfterSave(c) # Idle => AfterSave(c).job = c.job
                                     /\ AfterSave(c).pc # "save"
BY DEF AfterPublish, AfterSave, Call

LEMMA ContinueSerial ==
    ASSUME TypeInv, SerialInv, NEW p \in Proc, Continue(p)
    PROVE  SerialInv'
<1>1. call[p] \in Call /\ call[p] # Idle
  BY DEF TypeInv, TypeOK, Continue, Save, SaveFails, Enqueue, EnqueueFails,
         PublishJobUpdate, PublishCancel
<1>2. call[p].job \in JobId /\ call[p].row \in Row
  BY <1>1 DEF Call
<1>3. /\ \A q \in Proc \ {p} : call'[q] = call[q]
      /\ call'[p] # Idle => call'[p].job = call[p].job /\ call'[p].pc # "save"
  BY <1>1, NextCallJob DEF TypeInv, TypeOK, Continue, Save, SaveFails, Enqueue,
         EnqueueFails, PublishJobUpdate, PublishCancel
<1>4. Alone'
  BY <1>1, <1>3 DEF SerialInv, Alone
<1>5. CASE Save(p)
  <2>1. /\ \A i \in JobId \ {call[p].job} : jobs'[i] = jobs[i]
        /\ jobs'[call[p].job] # NoRow
    BY <1>2, <1>5, NoRowAssumption DEF Save, TypeInv, TypeOK
  <2>2. \A q \in Proc \ {p} : call[q] # Idle =>
            call[q].job \in JobId \ {call[p].job}
    BY <1>1 DEF SerialInv, Alone, TypeInv, TypeOK, Call
  <2>3. Fresh'
    BY <1>2, <1>3, <2>1, <2>2 DEF SerialInv, Fresh, Edit
  <2> QED
    BY <1>4, <2>3 DEF SerialInv
<1>6. CASE jobs' = jobs
  <2>1. Fresh'
    BY <1>1, <1>3, <1>6 DEF SerialInv, Fresh, Edit
  <2> QED
    BY <1>4, <2>1 DEF SerialInv
<1> QED
  BY <1>5, <1>6 DEF Continue, SaveFails, Enqueue, EnqueueFails, PublishJobUpdate,
         PublishCancel

LEMMA SerialInvariant ==
    ASSUME ~Overlap
    PROVE  ServiceSpec => []SerialInv
<1>1. ServiceInit => SerialInv
  BY DEF ServiceInit, SerialInv, Alone, Fresh
<1>2. TypeInv /\ SerialInv /\ [ServiceNext]_serviceVars => SerialInv'
  <2> SUFFICES ASSUME TypeInv, SerialInv, [ServiceNext]_serviceVars PROVE SerialInv'
    OBVIOUS
  <2>1. CASE UNCHANGED serviceVars
    BY <2>1 DEF serviceVars, SerialInv, Alone, Fresh, Edit
  <2>2. ASSUME NEW j \in JobId, GetNextJob(j)
        PROVE  SerialInv'
    BY <2>2 DEF GetNextJob, SerialInv, Alone, Fresh, Edit
  <2>3. CASE ServiceNext
    BY <2>2, <2>3, RequestSerial, AgentCallSerial, ContinueSerial DEF ServiceNext
  <2> QED
    BY <2>1, <2>3
<1> QED
  BY <1>1, <1>2, TypeInvariant, PTL DEF ServiceSpec

-----------------------------------------------------------------------------
(***************************************************************************)
(* The refinement.  Only two kinds of steps change what the contract sees: *)
(* CreateJob, which is its Create, and Save, which is the step of the      *)
(* contract that goes with the call's operation.                           *)
(***************************************************************************)
Seen == [j \in JobId |-> Record(j)]
View(r) == [status |-> r.status, agent |-> r.agent, retryCount |-> r.retryCount]

\* What the contract's Assign and Retry make of a record, field by field.
LEMMA RecordEdits ==
    ASSUME NEW r, NEW a, NEW n
    PROVE  /\ [View(r) EXCEPT !.agent = a, !.status = "running"]
                = [status |-> "running", agent |-> a, retryCount |-> r.retryCount]
           /\ [View(r) EXCEPT !.status = "pending", !.retryCount = n]
                = [status |-> "pending", agent |-> r.agent, retryCount |-> n]
<1> DEFINE w == [status |-> r.status, agent |-> a, retryCount |-> r.retryCount]
           u == [status |-> "pending", agent |-> r.agent, retryCount |-> r.retryCount]
<1>1. [View(r) EXCEPT !.agent = a] = w /\ [View(r) EXCEPT !.status = "pending"] = u
  BY DEF View
<1>2. [w EXCEPT !.status = "running"]
        = [status |-> "running", agent |-> a, retryCount |-> r.retryCount]
  OBVIOUS
<1>3. [u EXCEPT !.retryCount = n]
        = [status |-> "pending", agent |-> r.agent, retryCount |-> n]
  OBVIOUS
<1> HIDE DEF w, u
<1> QED
  BY <1>1, <1>2, <1>3

LEMMA SaveRefines ==
    ASSUME TypeInv, SerialInv, NEW p \in Proc, Save(p)
    PROVE  Contract!Next \/ Seen' = Seen
<1> DEFINE c == call[p]
           j == c.job
           old == jobs[j]
           new == c.row
<1>1. /\ c \in Call /\ c # Idle /\ c.pc = "save"
      /\ j \in JobId /\ new \in Row /\ c.op \in Op
      /\ old # NoRow /\ old \in Row
      /\ Edit(c.op, old, new)
  BY DEF Save, TypeInv, TypeOK, SerialInv, Fresh, Call
<1>2. /\ Seen \in [JobId -> {View(r) : r \in Row} \cup {NoRow}]
      /\ Seen[j] = View(old)
  BY <1>1 DEF Seen, Record, View, TypeInv, TypeOK
<1>3. Seen' = [Seen EXCEPT ![j] = View(new)]
  BY <1>1, NoRowAssumption DEF Seen, Record, View, Save, TypeInv, TypeOK
<1>4. Seen[j] # NoRow
  BY <1>1, <1>2, ContractAssumption DEF View, Row, Contract!Record, Contract!Status, Status
<1>5. CASE c.op = "assign"
  <2>1. new.agent \in AgentId /\ View(new) = [View(old) EXCEPT !.agent = new.agent, !.status = "running"]
    <3>1. new.agent \in AgentId /\ new.status = "running" /\ new.retryCount = old.retryCount
      BY <1>1, <1>5 DEF Edit
    <3>2. View(new) = [status |-> "running", agent |-> new.agent, retryCount |-> old.retryCount]
      BY <3>1 DEF View
    <3> QED
      BY <3>1, <3>2, RecordEdits
  <2>2. Contract!Assign(j, new.agent)
    BY <1>2, <1>3, <1>4, <2>1 DEF Contract!Assign, Contract!Created, Seen
  <2> QED
    BY <1>1, <2>1, <2>2 DEF Contract!Next
<1>6. CASE c.op = "status"
  <2>1. new.status \in Status \ {"cancelled"} /\ View(new) = [View(old) EXCEPT !.status = new.status]
    BY <1>1, <1>6 DEF View, Edit
  <2>2. Contract!Report(j, new.status)
    BY <1>2, <1>3, <1>4, <2>1 DEF Contract!Report, Contract!Created, Seen
  <2> QED
    BY <1>1, <2>1, <2>2 DEF Contract!Next, Contract!Status, Status
<1>7. CASE c.op \in {"log", "progress"}
  <2>1. View(new) = View(old)
    BY <1>1, <1>7 DEF View, Edit
  <2> QED
    BY <1>1, <1>2, <1>3, <2>1
<1>8. CASE c.op = "cancel"
  <2>1. /\ View(old).status \in {"pending", "running"}
        /\ View(new) = [View(old) EXCEPT !.status = "cancelled"]
    BY <1>1, <1>8 DEF View, Edit
  <2>2. Contract!Cancel(j)
    BY <1>2, <1>3, <1>4, <2>1 DEF Contract!Cancel, Contract!Created, Contract!Active, Seen
  <2> QED
    BY <1>1, <2>2 DEF Contract!Next
<1>9. CASE c.op = "retry"
  <2>1. /\ View(old).status \in {"failure", "cancelled"}
        /\ View(old).retryCount < MaxRetries
        /\ View(new) = [View(old) EXCEPT !.status = "pending", !.retryCount = @ + 1]
    <3>1. /\ old.status \in {"failure", "cancelled"} /\ old.retryCount < MaxRetries
          /\ new.status = "pending" /\ new.agent = old.agent
          /\ new.retryCount = old.retryCount + 1
      BY <1>1, <1>9 DEF Edit
    <3>2. View(new) = [status |-> "pending", agent |-> old.agent,
                       retryCount |-> old.retryCount + 1]
      BY <3>1 DEF View
    <3>3. View(old).retryCount = old.retryCount /\ View(old).status = old.status
      BY DEF View
    <3> DEFINE n == View(old).retryCount + 1
    <3>4. n = old.retryCount + 1
      BY <3>3
    <3> HIDE DEF n
    <3>5. [View(old) EXCEPT !.status = "pending", !.retryCount = n]
            = [status |-> "pending", agent |-> old.agent, retryCount |-> n]
      BY RecordEdits
    <3>6. View(new) = [View(old) EXCEPT !.status = "pending", !.retryCount = n]
      BY <3>2, <3>4, <3>5
    <3> QED
      BY <3>1, <3>3, <3>6 DEF n
  <2>2. Contract!Retry(j)
    BY <1>2, <1>3, <1>4, <2>1 DEF Contract!Retry, Contract!Created, Contract!Retryable, Seen
  <2> QED
    BY <1>1, <2>2 DEF Contract!Next
<1> QED
  BY <1>1, <1>5, <1>6, <1>7, <1>8, <1>9 DEF Edit, Op

LEMMA CreateRefines ==
    ASSUME TypeInv, NEW p \in Proc, NEW j \in JobId, CreateJob(p, j)
    PROVE  Contract!Next
<1>1. jobs[j] = NoRow /\ jobs' = [jobs EXCEPT ![j] = NewRow]
  BY DEF CreateJob
<1>2. Seen' = [Seen EXCEPT ![j] = View(NewRow)] /\ Seen[j] = NoRow
  BY <1>1, NewRowType, NoRowAssumption DEF Seen, Record, View, TypeInv, TypeOK
<1>3. Contract!Create(j)
  BY <1>2 DEF Contract!Create, Contract!Created, Seen, View, NewRow
<1> QED
  BY <1>3 DEF Contract!Next

\* When no two calls for the same job overlap, every step of the service is a
\* step of the life cycle of JobContract or invisible to it: a status is
\* reported, assigned, cancelled or retried only from the states the contract
\* allows, whatever calls for other jobs, and failures, come in between.
THEOREM SerialServiceImplementsContract ==
    ASSUME ~Overlap
    PROVE  ServiceSpec => ImplementsContract
<1>1. ServiceInit => Contract!Init
  BY DEF ServiceInit, Contract!Init, Record
<1>2. TypeInv /\ SerialInv /\ [ServiceNext]_serviceVars => [Contract!Next]_Seen
  <2> SUFFICES ASSUME TypeInv, SerialInv, [ServiceNext]_serviceVars
               PROVE  Contract!Next \/ Seen' = Seen
    OBVIOUS
  <2>1. ASSUME jobs' = jobs
        PROVE  Seen' = Seen
    BY <2>1 DEF Seen, Record
  <2>2. CASE UNCHANGED serviceVars
    BY <2>1, <2>2 DEF serviceVars
  <2>3. ASSUME NEW p \in Proc, NEW j \in JobId, Request(p, j)
        PROVE  Contract!Next \/ Seen' = Seen
    BY <2>1, <2>3, CreateRefines DEF Request, CancelJob, RetryJob, GetJob
  <2>4. ASSUME NEW p \in Proc, NEW j \in JobId, AgentCall(p, j)
        PROVE  Seen' = Seen
    BY <2>1, <2>4 DEF AgentCall, AssignJob, UpdateJobStatus, ProcessLog, UpdateJobProgress, GetJob
  <2>5. ASSUME NEW p \in Proc, Continue(p)
        PROVE  Contract!Next \/ Seen' = Seen
    BY <2>1, <2>5, SaveRefines DEF Continue, SaveFails, Enqueue, EnqueueFails,
       PublishJobUpdate, PublishCancel
  <2>6. ASSUME NEW j \in JobId, GetNextJob(j)
        PROVE  Seen' = Seen
    BY <2>1, <2>6 DEF GetNextJob
  <2> QED
    BY <2>2, <2>3, <2>4, <2>5, <2>6 DEF ServiceNext
<1> QED
  BY <1>1, <1>2, TypeInvariant, SerialInvariant, PTL
  DEF ServiceSpec, ImplementsContract, Contract!Spec, Seen

-----------------------------------------------------------------------------
(***************************************************************************)
(* The queue and the row keep the same account: a job was offered to the   *)
(* queue once for its creation and once for each retry in its row, except  *)
(* that the call which is about to offer it still owes one.                *)
(***************************************************************************)
Owing(j) == \E p \in Proc : call[p] # Idle /\ call[p].job = j /\ call[p].pc = "enqueue"
Offers(j) == enqueued[j] + refused[j]

Account(j) ==
    /\ ~Exists(j) => Offers(j) = 0
    /\ Exists(j) /\ Owing(j) => Offers(j) = jobs[j].retryCount
    /\ Exists(j) /\ ~Owing(j) => Offers(j) = jobs[j].retryCount + 1

AccountInv == \A j \in JobId : Account(j)

LEMMA GetJobAccount ==
    ASSUME ~Overlap, TypeInv, AccountInv,
           NEW p \in Proc, NEW j \in JobId, NEW op, NEW row, GetJob(p, op, j, row)
    PROVE  AccountInv'
<1>1. /\ call[p] = Idle
      /\ call' = [call EXCEPT ![p] = [pc |-> "save", op |-> op, job |-> j, row |-> row]]
      /\ UNCHANGED <<jobs, enqueued, refused>>
  BY DEF GetJob, Start
<1>2. ASSUME NEW i \in JobId
      PROVE  Owing(i)' <=> Owing(i)
  BY <1>1 DEF Owing, TypeInv, TypeOK
<1> QED
  BY <1>1, <1>2 DEF AccountInv, Account, Offers

LEMMA CreateAccount ==
    ASSUME ~Overlap, TypeInv, AccountInv, NEW p \in Proc, NEW j \in JobId, CreateJob(p, j)
    PROVE  AccountInv'
<1> DEFINE c == [pc |-> "enqueue", op |-> "create", job |-> j, row |-> NewRow]
<1>1. /\ jobs[j] = NoRow /\ jobs' = [jobs EXCEPT ![j] = NewRow]
      /\ call[p] = Idle /\ call' = [call EXCEPT ![p] = c]
      /\ UNCHANGED <<enqueued, refused>>
  BY DEF CreateJob, Start
<1>2. c # Idle
  BY DEF Idle
<1>3. ASSUME NEW i \in JobId, i # j
      PROVE  Account(i)'
  <2>1. Owing(i)' <=> Owing(i)
    BY <1>1, <1>3 DEF Owing, TypeInv, TypeOK
  <2> QED
    BY <1>1, <1>3, <2>1 DEF AccountInv, Account, Offers, TypeInv, TypeOK
<1>4. Account(j)'
  <2>1. Owing(j)'
    BY <1>1, <1>2 DEF Owing, TypeInv, TypeOK
  <2>2. jobs'[j] = NewRow
    BY <1>1 DEF TypeInv, TypeOK
  <2>3. Offers(j)' = 0
    BY <1>1 DEF AccountInv, Account, Offers
  <2> QED
    BY <2>1, <2>2, <2>3, NewRowType, NoRowAssumption DEF Account, NewRow
<1> QED
  BY <1>3, <1>4 DEF AccountInv

\* A call goes from its save to the queue exactly when it saved a retry.
LEMMA AfterSaveOwes ==
    ASSUME NEW c \in Call
    PROVE  /\ AfterPublish(c) # Idle => AfterPublish(c).pc = "signal"
           /\ c.op = "retry" => AfterSave(c) # Idle /\ AfterSave(c).pc = "enqueue"
                                /\ AfterSave(c).job = c.job
           /\ c.op # "retry" /\ AfterSave(c) # Idle => AfterSave(c).pc # "enqueue"
BY DEF AfterPublish, AfterSave, Call, Idle

LEMMA SaveAccount ==
    ASSUME TypeInv, SerialInv, AccountInv, NEW p \in Proc, Save(p)
    PROVE  AccountInv'
<1> DEFINE c == call[p]
<1>0. PICK j \in JobId : j = c.job
  BY DEF Save, TypeInv, TypeOK, Call
<1>1. /\ c \in Call /\ c # Idle /\ c.pc = "save"
      /\ c.job = j /\ c.row \in Row
      /\ jobs[j] # NoRow /\ jobs[j] \in Row
      /\ Edit(c.op, jobs[j], c.row)
  BY <1>0 DEF Save, TypeInv, TypeOK, SerialInv, Fresh, Call
<1>2. /\ \A i \in JobId \ {j} : jobs'[i] = jobs[i]
      /\ jobs'[j] = c.row
      /\ \A q \in Proc \ {p} : call'[q] = call[q]
      /\ call'[p] = AfterSave(c)
      /\ UNCHANGED <<enqueued, refused>>
  BY <1>1 DEF Save, TypeInv, TypeOK
<1>3. AfterSave(c) # Idle => AfterSave(c).job = j
  BY <1>1, NextCallJob
<1>4. ASSUME NEW i \in JobId, i # j
      PROVE  Account(i)'
  <2>1. Owing(i)' <=> Owing(i)
    BY <1>1, <1>2, <1>3, <1>4 DEF Owing
  <2> QED
    BY <1>2, <1>4, <2>1 DEF AccountInv, Account, Offers
<1>5. ~Owing(j)
  BY <1>1 DEF Owing, SerialInv, Alone
<1>6. Offers(j) = jobs[j].retryCount + 1
  BY <1>1, <1>5 DEF AccountInv, Account
<1>7. CASE c.op = "retry"
  <2>1. Owing(j)'
    BY <1>1, <1>2, <1>7, AfterSaveOwes DEF Owing
  <2>2. jobs'[j].retryCount = jobs[j].retryCount + 1
    BY <1>1, <1>2, <1>7 DEF Edit
  <2>3. Account(j)'
    BY <1>1, <1>2, <1>6, <2>1, <2>2, NoRowAssumption DEF Account, Offers
  <2> QED
    BY <1>4, <2>3 DEF AccountInv
<1>8. CASE c.op # "retry"
  <2>1. ~Owing(j)'
    <3>1. \A q \in Proc \ {p} : call[q] # Idle => call[q].job # j
      BY <1>1 DEF SerialInv, Alone
    <3>2. AfterSave(c) # Idle => AfterSave(c).pc # "enqueue"
      BY <1>1, <1>8, AfterSaveOwes
    <3> QED
      BY <1>2, <3>1, <3>2 DEF Owing
  <2>2. jobs'[j].retryCount = jobs[j].retryCount
    BY <1>1, <1>2, <1>8 DEF Edit
  <2>3. Account(j)'
    BY <1>1, <1>2, <1>6, <2>1, <2>2, NoRowAssumption DEF Account, Offers
  <2> QED
    BY <1>4, <2>3 DEF AccountInv
<1> QED
  BY <1>7, <1>8

\* The offer itself, whether Redis takes it or not, settles the account.
LEMMA OfferAccount ==
    ASSUME TypeInv, SerialInv, AccountInv, NEW p \in Proc, Enqueue(p) \/ EnqueueFails(p)
    PROVE  AccountInv'
<1> DEFINE c == call[p]
<1>0. PICK j \in JobId : j = c.job
  BY DEF Enqueue, EnqueueFails, TypeInv, TypeOK, Call
<1>1. /\ c \in Call /\ c # Idle /\ c.pc = "enqueue" /\ c.job = j
      /\ jobs[j] # NoRow /\ jobs[j] \in Row
  BY <1>0 DEF Enqueue, EnqueueFails, TypeInv, TypeOK, SerialInv, Fresh, Call
<1>2. /\ \A i \in JobId \ {j} : Offers(i)' = Offers(i)
      /\ Offers(j)' = Offers(j) + 1
      /\ \A q \in Proc \ {p} : call'[q] = call[q]
      /\ call'[p] = Idle
      /\ UNCHANGED jobs
  BY <1>1 DEF Enqueue, EnqueueFails, Offers, TypeInv, TypeOK
<1>3. ASSUME NEW i \in JobId, i # j
      PROVE  Account(i)'
  <2>1. Owing(i)' <=> Owing(i)
    BY <1>1, <1>2, <1>3 DEF Owing
  <2> QED
    BY <1>2, <1>3, <2>1 DEF AccountInv, Account
<1>4. Account(j)'
  <2>1. Owing(j) /\ ~Owing(j)'
    BY <1>1, <1>2 DEF Owing, SerialInv, Alone
  <2>2. Offers(j) = jobs[j].retryCount
    BY <1>1, <2>1 DEF AccountInv, Account
  <2> QED
    BY <1>1, <1>2, <2>1, <2>2 DEF Account
<1> QED
  BY <1>3, <1>4 DEF AccountInv

LEMMA ContinueAccount ==
    ASSUME TypeInv, SerialInv, AccountInv, NEW p \in Proc, Continue(p)
    PROVE  AccountInv'
<1>1. CASE \/ SaveFails(p) \/ PublishJobUpdate(p)
           \/ \E subscribed \in BOOLEAN : PublishCancel(p, subscribed)
  <2>1. /\ call[p] \in Call /\ call[p] # Idle /\ call[p].pc # "enqueue"
        /\ \A q \in Proc \ {p} : call'[q] = call[q]
        /\ call'[p] # Idle => call'[p].pc # "enqueue"
        /\ UNCHANGED <<jobs, enqueued, refused>>
    BY <1>1, AfterSaveOwes DEF SaveFails, PublishJobUpdate, PublishCancel, TypeInv, TypeOK
  <2>2. ASSUME NEW i \in JobId
        PROVE  Owing(i)' <=> Owing(i)
    BY <2>1 DEF Owing
  <2> QED
    BY <2>1, <2>2 DEF AccountInv, Account, Offers
<1> QED
  BY <1>1, SaveAccount, OfferAccount DEF Continue

LEMMA AccountInvariant ==
    ASSUME ~Overlap
    PROVE  ServiceSpec => []AccountInv
<1>1. ServiceInit => AccountInv
  BY DEF ServiceInit, AccountInv, Account, Offers
<1>2. TypeInv /\ SerialInv /\ AccountInv /\ [ServiceNext]_serviceVars => AccountInv'
  <2> SUFFICES ASSUME TypeInv, SerialInv, AccountInv, [ServiceNext]_serviceVars
               PROVE  AccountInv'
    OBVIOUS
  <2>1. CASE UNCHANGED serviceVars
    BY <2>1 DEF serviceVars, AccountInv, Account, Offers, Owing
  <2>2. ASSUME NEW j \in JobId, GetNextJob(j)
        PROVE  AccountInv'
    BY <2>2 DEF GetNextJob, AccountInv, Account, Offers, Owing
  <2>3. ASSUME NEW p \in Proc, NEW j \in JobId, Request(p, j)
        PROVE  AccountInv'
    BY <2>3, CreateAccount, GetJobAccount DEF Request, CancelJob, RetryJob
  <2>4. ASSUME NEW p \in Proc, NEW j \in JobId, AgentCall(p, j)
        PROVE  AccountInv'
    BY <2>4, GetJobAccount
    DEF AgentCall, AssignJob, UpdateJobStatus, ProcessLog, UpdateJobProgress
  <2> QED
    BY <2>1, <2>2, <2>3, <2>4, ContinueAccount DEF ServiceNext
<1> QED
  BY <1>1, <1>2, TypeInvariant, SerialInvariant, PTL DEF ServiceSpec

\* When calls for one job do not overlap, a job that no call is working on
\* has been offered to the queue exactly once for its creation and once for
\* every retry in its row: no retry is lost, and none enqueues the job twice.
THEOREM SerialEntriesExact ==
    ASSUME ~Overlap
    PROVE  ServiceSpec => []EntriesExact
<1>1. TypeInv /\ AccountInv => EntriesExact
  <2> SUFFICES ASSUME TypeInv, AccountInv, NEW j \in JobId, Exists(j), Quiet(j)
               PROVE  enqueued[j] + refused[j] = 1 + jobs[j].retryCount
    BY DEF EntriesExact
  <2>1. ~Owing(j) /\ jobs[j].retryCount \in Nat
    BY DEF Owing, Quiet, WorkingOn, TypeInv, TypeOK, Row
  <2> QED
    BY <2>1 DEF AccountInv, Account, Offers
<1> QED
  BY <1>1, TypeInvariant, AccountInvariant, PTL

-----------------------------------------------------------------------------
(***************************************************************************)
(* Announcements.  The status in the table is the announced one, except    *)
(* between the save of a call and its publication; as long as a call has   *)
(* not saved, what it found still holds.                                   *)
(***************************************************************************)
Current(j) ==
    \/ jobs[j].status = "pending"
    \/ announced[j] \in {jobs[j].status, "lost"}

\* The call that has still to announce holds the row that it saved.
Announcing(p) ==
    IF call[p].pc = "publish" THEN call[p].row = jobs[call[p].job]
    ELSE Current(call[p].job) /\ (call[p].pc = "enqueue" => jobs[call[p].job].status = "pending")

AnnounceInv ==
    \A j \in Watched : Exists(j) =>
        /\ Quiet(j) => Current(j)
        /\ \A p \in Proc : WorkingOn(p, j) => Announcing(p)

\* What must be seen of a step: how it leaves the job of goroutine p.
LEMMA OthersAnnounce ==
    ASSUME ~Overlap, TypeInv, SerialInv, SerialInv', AnnounceInv, NEW p \in Proc, NEW j \in JobId,
           \A q \in Proc \ {p} : call'[q] = call[q],
           call[p] # Idle => call[p].job = j,
           call'[p] # Idle => call'[p].job = j,
           \A i \in JobId \ {j} : jobs'[i] = jobs[i] /\ announced'[i] = announced[i],
           j \in Watched /\ jobs'[j] # NoRow =>
              /\ call'[p] = Idle => \/ jobs'[j].status = "pending"
                                    \/ announced'[j] \in {jobs'[j].status, "lost"}
              /\ call'[p] # Idle =>
                    IF call'[p].pc = "publish" THEN call'[p].row = jobs'[j]
                    ELSE /\ \/ jobs'[j].status = "pending"
                            \/ announced'[j] \in {jobs'[j].status, "lost"}
                         /\ call'[p].pc = "enqueue" => jobs'[j].status = "pending",
           call[p] # Idle \/ call'[p] # Idle
    PROVE  AnnounceInv'
<1>1. ASSUME NEW i \in Watched, i # j, jobs'[i] # NoRow
      PROVE  /\ Quiet(i)' => Current(i)'
             /\ \A q \in Proc : WorkingOn(q, i)' => Announcing(q)'
  <2>1. i \in JobId /\ jobs'[i] = jobs[i] /\ announced'[i] = announced[i]
    BY <1>1, ConstantsAssumption
  <2>2. Current(i)' <=> Current(i)
    BY <2>1 DEF Current
  <2>3. \A q \in Proc : WorkingOn(q, i)' <=> WorkingOn(q, i)
    BY <1>1 DEF WorkingOn
  <2>4. Quiet(i)' => Current(i)'
    BY <1>1, <2>1, <2>2, <2>3 DEF Quiet, AnnounceInv
  <2>5. ASSUME NEW q \in Proc, WorkingOn(q, i)'
        PROVE  Announcing(q)'
    <3>1. call'[q] = call[q] /\ call[q].job = i /\ Announcing(q)
      BY <1>1, <2>1, <2>3, <2>5 DEF WorkingOn, AnnounceInv
    <3> QED
      BY <2>1, <3>1 DEF Announcing, Current
  <2> QED
    BY <2>4, <2>5
<1>2. ASSUME j \in Watched, jobs'[j] # NoRow
      PROVE  /\ Quiet(j)' => Current(j)'
             /\ \A q \in Proc : WorkingOn(q, j)' => Announcing(q)'
  <2>1. ASSUME NEW q \in Proc, q # p
        PROVE  ~WorkingOn(q, j)'
    BY <2>1 DEF SerialInv, Alone, WorkingOn
  <2>2. Quiet(j)' => Current(j)'
    BY <1>2 DEF Quiet, WorkingOn, Current
  <2>3. WorkingOn(p, j)' => Announcing(p)'
    BY <1>2 DEF WorkingOn, Announcing, Current
  <2> QED
    BY <2>1, <2>2, <2>3
<1> QED
  BY <1>1, <1>2 DEF AnnounceInv

LEMMA GetJobAnnounce ==
    ASSUME ~Overlap, TypeInv, SerialInv, SerialInv', AnnounceInv,
           NEW p \in Proc, NEW j \in JobId, NEW op, NEW row, GetJob(p, op, j, row)
    PROVE  AnnounceInv'
<1>1. /\ call[p] = Idle /\ Quiet(j) /\ UNCHANGED <<jobs, announced>>
      /\ call' = [call EXCEPT ![p] = [pc |-> "save", op |-> op, job |-> j, row |-> row]]
  BY DEF GetJob, Start
<1>2. /\ \A q \in Proc \ {p} : call'[q] = call[q]
      /\ call'[p].job = j /\ call'[p].pc = "save" /\ call'[p] # Idle
  BY <1>1 DEF TypeInv, TypeOK, Idle
<1>3. j \in Watched /\ jobs'[j] # NoRow =>
          jobs'[j].status = "pending" \/ announced'[j] \in {jobs'[j].status, "lost"}
  BY <1>1 DEF AnnounceInv, Current
<1> QED
  BY <1>1, <1>2, <1>3, OthersAnnounce

LEMMA CreateAnnounce ==
    ASSUME ~Overlap, TypeInv, SerialInv, SerialInv', AnnounceInv,
           NEW p \in Proc, NEW j \in JobId, CreateJob(p, j)
    PROVE  AnnounceInv'
<1>1. /\ call[p] = Idle /\ jobs' = [jobs EXCEPT ![j] = NewRow] /\ UNCHANGED announced
      /\ call' = [call EXCEPT ![p] = [pc |-> "enqueue", op |-> "create", job |-> j,
                                      row |-> NewRow]]
  BY DEF CreateJob, Start
<1>2. /\ \A q \in Proc \ {p} : call'[q] = call[q]
      /\ call'[p].job = j /\ call'[p].pc = "enqueue" /\ call'[p] # Idle
      /\ \A i \in JobId \ {j} : jobs'[i] = jobs[i]
      /\ jobs'[j] = NewRow
  BY <1>1 DEF TypeInv, TypeOK, Idle
<1>3. NewRow.status = "pending"
  BY DEF NewRow
<1> QED
  BY <1>1, <1>2, <1>3, OthersAnnounce

LEMMA SaveAnnounce ==
    ASSUME ~Overlap, TypeInv, SerialInv, SerialInv', AnnounceInv, NEW p \in Proc, Save(p)
    PROVE  AnnounceInv'
<1>1. PICK c \in Call : c = call[p]
  BY DEF Save, TypeInv, TypeOK
<1>2. PICK j \in JobId : j = c.job
  BY DEF Call
<1>3. /\ call[p] # Idle /\ c.pc = "save" /\ jobs[j] # NoRow /\ Edit(c.op, jobs[j], c.row)
  BY <1>1, <1>2 DEF Save, SerialInv, Fresh
<1>4. /\ \A q \in Proc \ {p} : call'[q] = call[q]
      /\ call'[p] = AfterSave(c)
      /\ \A i \in JobId \ {j} : jobs'[i] = jobs[i] /\ announced'[i] = announced[i]
      /\ jobs'[j] = c.row /\ announced'[j] = announced[j]
  BY <1>1, <1>2 DEF Save, TypeInv, TypeOK
<1>5. j \in Watched => Current(j)
  BY <1>1, <1>2, <1>3 DEF AnnounceInv, WorkingOn, Announcing
<1>6. AfterSave(c) # Idle => AfterSave(c).job = j
  BY <1>2, NextCallJob
<1>7. CASE c.op = "retry"
  <2>1. c.row.status = "pending" /\ AfterSave(c) # Idle /\ AfterSave(c).pc = "enqueue"
    BY <1>3, <1>7, AfterSaveOwes DEF Edit
  <2> QED
    BY <1>1, <1>2, <1>3, <1>4, <1>6, <2>1, OthersAnnounce
<1>8. CASE c.op \in {"log", "progress"}
  <2>1. c.row.status = jobs[j].status /\ AfterSave(c) = Idle
    BY <1>3, <1>8 DEF Edit, AfterSave
  <2>2. j \in Watched =>
          jobs'[j].status = "pending" \/ announced'[j] \in {jobs'[j].status, "lost"}
    BY <1>4, <1>5, <2>1 DEF Current
  <2> QED
    BY <1>1, <1>2, <1>3, <1>4, <2>1, <2>2, OthersAnnounce
<1>9. CASE c.op \in {"assign", "status", "cancel"}
  <2>1. j \in Watched => AfterSave(c) = [c EXCEPT !.pc = "publish"]
    BY <1>2, <1>9 DEF AfterSave
  <2>2. j \in Watched => /\ AfterSave(c).pc = "publish" /\ AfterSave(c).row = c.row
                         /\ AfterSave(c) # Idle
    BY <2>1 DEF Call, Idle
  <2> QED
    BY <1>1, <1>2, <1>3, <1>4, <1>6, <2>2, OthersAnnounce
<1> QED
  BY <1>3, <1>7, <1>8, <1>9 DEF Edit, Call, Op

LEMMA OfferAnnounce ==
    ASSUME ~Overlap, TypeInv, SerialInv, SerialInv', AnnounceInv, NEW p \in Proc,
           \/ SaveFails(p) \/ Enqueue(p) \/ EnqueueFails(p)
           \/ \E subscribed \in BOOLEAN : PublishCancel(p, subscribed)
    PROVE  AnnounceInv'
<1>1. PICK j \in JobId : j = call[p].job
  BY DEF SaveFails, Enqueue, EnqueueFails, PublishCancel, TypeInv, TypeOK, Call
<1>2. /\ call[p] # Idle /\ call[p].pc # "publish"
      /\ call'[p] = Idle /\ \A q \in Proc \ {p} : call'[q] = call[q]
      /\ UNCHANGED <<jobs, announced>>
  BY DEF SaveFails, Enqueue, EnqueueFails, PublishCancel, TypeInv, TypeOK
<1>3. j \in Watched /\ jobs[j] # NoRow => Current(j)
  BY <1>1, <1>2 DEF AnnounceInv, WorkingOn, Announcing
<1> QED
  BY <1>1, <1>2, <1>3, OthersAnnounce DEF Current

LEMMA PublishAnnounce ==
    ASSUME ~Overlap, TypeInv, SerialInv, SerialInv', AnnounceInv,
           NEW p \in Proc, PublishJobUpdate(p)
    PROVE  AnnounceInv'
<1>1. PICK c \in Call : c = call[p]
  BY DEF PublishJobUpdate, TypeInv, TypeOK
<1>2. PICK j \in JobId : j = c.job
  BY DEF Call
<1>3. PICK event \in {c.row.status, "lost"} :
          announced' = [announced EXCEPT ![j] = event]
  BY <1>1, <1>2 DEF PublishJobUpdate
<1>4. /\ call[p] # Idle /\ c.pc = "publish" /\ UNCHANGED jobs
      /\ \A q \in Proc \ {p} : call'[q] = call[q]
      /\ call'[p] = AfterPublish(c)
      /\ announced'[j] = event /\ \A i \in JobId \ {j} : announced'[i] = announced[i]
  BY <1>1, <1>2, <1>3 DEF PublishJobUpdate, TypeInv, TypeOK
<1>5. AfterPublish(c) # Idle => AfterPublish(c).job = j /\ AfterPublish(c).pc = "signal"
  BY <1>2, NextCallJob, AfterSaveOwes
<1>6. j \in Watched /\ jobs[j] # NoRow => c.row = jobs[j]
  BY <1>1, <1>2, <1>4 DEF AnnounceInv, WorkingOn, Announcing
<1>7. j \in Watched /\ jobs[j] # NoRow => announced'[j] \in {jobs'[j].status, "lost"}
  BY <1>4, <1>6
<1> QED
  BY <1>1, <1>2, <1>4, <1>5, <1>7, OthersAnnounce

LEMMA AnnounceInvariant ==
    ASSUME ~Overlap
    PROVE  ServiceSpec => []AnnounceInv
<1>1. ServiceInit => AnnounceInv
  BY ConstantsAssumption DEF ServiceInit, AnnounceInv
<1>2. TypeInv /\ SerialInv /\ SerialInv' /\ AnnounceInv /\ [ServiceNext]_serviceVars
        => AnnounceInv'
  <2> SUFFICES ASSUME TypeInv, SerialInv, SerialInv', AnnounceInv,
                      [ServiceNext]_serviceVars
               PROVE  AnnounceInv'
    OBVIOUS
  <2>1. ASSUME UNCHANGED <<jobs, call, announced>>
        PROVE  AnnounceInv'
    BY <2>1 DEF AnnounceInv, Announcing, Current, Quiet, WorkingOn
  <2>2. CASE UNCHANGED serviceVars
    BY <2>1, <2>2 DEF serviceVars
  <2>3. ASSUME NEW j \in JobId, GetNextJob(j)
        PROVE  AnnounceInv'
    BY <2>1, <2>3 DEF GetNextJob
  <2>4. ASSUME NEW p \in Proc, NEW j \in JobId, Request(p, j) \/ AgentCall(p, j)
        PROVE  AnnounceInv'
    BY <2>4, CreateAnnounce, GetJobAnnounce
    DEF Request, CancelJob, RetryJob, AgentCall, AssignJob, UpdateJobStatus, ProcessLog,
        UpdateJobProgress
  <2>5. ASSUME NEW p \in Proc, Continue(p)
        PROVE  AnnounceInv'
    BY <2>5, SaveAnnounce, OfferAnnounce, PublishAnnounce DEF Continue
  <2> QED
    BY <2>2, <2>3, <2>4, <2>5 DEF ServiceNext
<1> QED
  BY <1>1, <1>2, TypeInvariant, SerialInvariant, PTL DEF ServiceSpec

\* When calls for one job do not overlap, the status announced last is the
\* one in the table as soon as no call works on the job, unless a publication
\* failed; a job that waits for an agent is announced by nobody.
THEOREM SerialAnnouncedCurrent ==
    ASSUME ~Overlap
    PROVE  ServiceSpec => []AnnouncedCurrent
<1>1. AnnounceInv => AnnouncedCurrent
  BY ConstantsAssumption DEF AnnounceInv, AnnouncedCurrent, Current
<1> QED
  BY <1>1, AnnounceInvariant, PTL

=============================================================================
