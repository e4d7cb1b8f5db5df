-------------------------- MODULE JobServiceProofs --------------------------
(***************************************************************************)
(* Theorems about JobService, for any number of goroutines, jobs, agents   *)
(* and retries, whether or not calls overlap and fail.                     *)
(* Types, the invariants of the rows, and that every retry a row counts    *)
(* has an offer to the queue.                                              *)
(***************************************************************************)
EXTENDS JobService, FiniteSetTheorems, TLAPS

USE DEF Exists

-----------------------------------------------------------------------------
(***************************************************************************)
(* Type correctness.                                                       *)
(***************************************************************************)
LEMMA NewRowType == NewRow \in Row
BY DEF NewRow, Row, Status

LEMMA IdleNoCall == Idle \notin Call
BY DEF Idle, Call

\* A call that is about to signal a cancellation has an agent to signal it to;
\* with it the types are inductive.
Signals == \A p \in Proc : call[p] # Idle /\ call[p].pc = "signal"
                             => call[p].row.agent # NoAgent

TypeInv == TypeOK /\ Signals

\* A copy that a call makes of a row, edits and carries to its save.
LEMMA GetJobType ==
    ASSUME TypeInv, NEW p \in Proc, NEW j \in JobId, NEW op \in Op, NEW row \in Row,
           GetJob(p, op, j, row)
    PROVE  TypeInv'
<1>1. [pc |-> "save", op |-> op, job |-> j, row |-> row] \in Call
  BY DEF Call
<1>2. call' \in [Proc -> Call \cup {Idle}]
  BY <1>1 DEF TypeInv, TypeOK, GetJob, Start
<1>3. Signals'
  BY DEF TypeInv, TypeOK, Signals, GetJob, Start
<1> QED
  BY <1>2, <1>3 DEF TypeInv, TypeOK, GetJob

\* What the goroutine's steps make of its call is a call, or none.
LEMMA NextCallType ==
    ASSUME NEW c \in Call
    PROVE  /\ AfterPublish(c) \in Call \cup {Idle}
           /\ AfterSave(c) \in Call \cup {Idle}
<1>1. /\ [c EXCEPT !.pc = "signal"] \in Call
      /\ [c EXCEPT !.pc = "enqueue"] \in Call
      /\ [c EXCEPT !.pc = "publish"] \in Call
  BY DEF Call
<1>2. AfterPublish(c) \in Call \cup {Idle}
  BY <1>1 DEF AfterPublish
<1>3. AfterSave(c) \in Call \cup {Idle}
  BY <1>1, <1>2 DEF AfterSave
<1> QED
  BY <1>2, <1>3

LEMMA RequestType ==
    ASSUME TypeInv, NEW p \in Proc, NEW j \in JobId, Request(p, j)
    PROVE  TypeInv'
<1>1. CASE CreateJob(p, j)
  <2>1. [pc |-> "enqueue", op |-> "create", job |-> j, row |-> NewRow] \in Call
    BY NewRowType DEF Call, Op
  <2> QED
    BY <1>1, <2>1, NewRowType DEF CreateJob, Start, TypeInv, TypeOK, Signals
<1>2. CASE CancelJob(p, j)
  <2>1. jobs[j] \in Row
    BY <1>2 DEF CancelJob, GetJob, TypeInv, TypeOK
  <2>2. [jobs[j] EXCEPT !.status = "cancelled", !.cancelled = TRUE] \in Row
    BY <2>1 DEF Row, Status
  <2> QED
    BY <1>2, <2>2, GetJobType DEF CancelJob, Op
<1>3. CASE RetryJob(p, j)
  <2>1. jobs[j] \in Row
    BY <1>3 DEF RetryJob, GetJob, TypeInv, TypeOK
  <2>2. [jobs[j] EXCEPT !.status = "pending", !.cancelled = FALSE,
                        !.retryCount = @ + 1, !.progress = 0] \in Row
    <3>1. jobs[j].retryCount + 1 \in Nat
      BY <2>1 DEF Row
    <3>2. \A n \in Nat : [jobs[j] EXCEPT !.status = "pending", !.cancelled = FALSE,
                            !.retryCount = n, !.progress = 0] \in Row
      BY <2>1 DEF Row, Status
    <3> QED
      BY <3>1, <3>2
  <2> QED
    BY <1>3, <2>2, GetJobType DEF RetryJob, Op
<1> QED
  BY <1>1, <1>2, <1>3 DEF Request

LEMMA AgentCallType ==
    ASSUME TypeInv, NEW p \in Proc, NEW j \in JobId, AgentCall(p, j)
    PROVE  TypeInv'
<1> USE DEF Row, Status
<1>1. ASSUME NEW a \in AgentId, AssignJob(p, j, a)
      PROVE  TypeInv'
  <2>1. [jobs[j] EXCEPT !.agent = a, !.status = "running"] \in Row
    BY <1>1 DEF AssignJob, GetJob, TypeInv, TypeOK
  <2> QED
    BY <1>1, <2>1, GetJobType DEF AssignJob, Op
<1>2. ASSUME NEW s \in Reported, UpdateJobStatus(p, j, s)
      PROVE  TypeInv'
  <2>1. [jobs[j] EXCEPT !.status = s] \in Row
    BY <1>2, ReportedAssumption DEF UpdateJobStatus, GetJob, TypeInv, TypeOK
  <2> QED
    BY <1>2, <2>1, GetJobType DEF UpdateJobStatus, Op
<1>3. ASSUME NEW w \in BOOLEAN, ProcessLog(p, j, w)
      PROVE  TypeInv'
  <2>1. [jobs[j] EXCEPT !.logs = @ + 1, !.progress = IF w THEN 1 ELSE @] \in Row
    <3>1. jobs[j] \in Row
      BY <1>3 DEF ProcessLog, GetJob, TypeInv, TypeOK
    <3>2. jobs[j].logs + 1 \in Nat /\ (IF w THEN 1 ELSE jobs[j].progress) \in {0, 1}
      BY <3>1
    <3>3. \A n \in Nat, q \in {0, 1} : [jobs[j] EXCEPT !.logs = n, !.progress = q] \in Row
      BY <3>1
    <3> QED
      BY <3>2, <3>3
  <2> QED
    BY <1>3, <2>1, GetJobType DEF ProcessLog, Op
<1>4. CASE UpdateJobProgress(p, j)
  <2>1. [jobs[j] EXCEPT !.progress = 1] \in Row
    BY <1>4 DEF UpdateJobProgress, GetJob, TypeInv, TypeOK
  <2> QED
    BY <1>4, <2>1, GetJobType DEF UpdateJobProgress, Op
<1> QED
  BY <1>1, <1>2, <1>3, <1>4 DEF AgentCall

LEMMA ContinueType ==
    ASSUME TypeInv, NEW p \in Proc, Continue(p)
    PROVE  TypeInv'
<1>1. call[p] \in Call
  BY DEF TypeInv, TypeOK, Continue, Save, SaveFails, Enqueue, EnqueueFails, PublishJobUpdate,
         PublishCancel
<1>2. call[p].job \in JobId /\ call[p].row \in Row
  BY <1>1 DEF Call
<1>3. CASE Save(p)
  <2>1. AfterSave(call[p]).pc = "signal" => AfterSave(call[p]).row.agent # NoAgent
    BY <1>1 DEF AfterSave, AfterPublish, Call, Idle
  <2> QED
    BY <1>1, <1>2, <1>3, <2>1, NextCallType DEF Save, TypeInv, TypeOK, Signals
<1>4. CASE SaveFails(p)
  BY <1>4 DEF SaveFails, TypeInv, TypeOK, Signals, Idle
<1>5. CASE Enqueue(p)
  BY <1>2, <1>5 DEF Enqueue, TypeInv, TypeOK, Signals, Idle
<1>6. CASE EnqueueFails(p)
  BY <1>2, <1>6 DEF EnqueueFails, TypeInv, TypeOK, Signals, Idle
<1>7. CASE PublishJobUpdate(p)
  <2>1. call[p].row.status \in Status
    BY <1>2 DEF Row
  <2>2. announced' \in [JobId -> Status \cup {"none", "lost"}]
    BY <1>7, <2>1 DEF PublishJobUpdate, TypeInv, TypeOK
  <2>3. call' \in [Proc -> Call \cup {Idle}]
    BY <1>1, <1>7, NextCallType DEF PublishJobUpdate, TypeInv, TypeOK
  <2>4. Signals'
    <3>1. AfterPublish(call[p]).pc = "signal" => AfterPublish(call[p]).row.agent # NoAgent
      BY <1>1 DEF AfterPublish, Call, Idle
    <3> QED
      BY <1>7, <3>1 DEF PublishJobUpdate, TypeInv, TypeOK, Signals
  <2> QED
    BY <1>7, <2>2, <2>3, <2>4 DEF PublishJobUpdate, TypeInv, TypeOK
<1>8. ASSUME NEW subscribed \in BOOLEAN, PublishCancel(p, subscribed)
      PROVE  TypeInv'
  <2>1. call[p].row.agent \in AgentId
    BY <1>2, <1>8 DEF PublishCancel, TypeInv, Signals, Row
  <2>2. cancels' \subseteq AgentId \X JobId
    BY <1>2, <1>8, <2>1 DEF PublishCancel, TypeInv, TypeOK
  <2> QED
    BY <1>8, <2>2 DEF PublishCancel, TypeInv, TypeOK, Signals, Idle
<1> QED
  BY <1>3, <1>4, <1>5, <1>6, <1>7, <1>8 DEF Continue

LEMMA DequeueType ==
    ASSUME TypeInv, NEW j \in JobId, GetNextJob(j)
    PROVE  TypeInv'
BY DEF GetNextJob, TypeInv, TypeOK, Signals

LEMMA TypeInvariant == ServiceSpec => []TypeInv
<1>1. ServiceInit => TypeInv
  BY DEF ServiceInit, TypeInv, TypeOK, Signals
<1>2. TypeInv /\ [ServiceNext]_serviceVars => TypeInv'
  <2> SUFFICES ASSUME TypeInv, [ServiceNext]_serviceVars PROVE TypeInv'
    OBVIOUS
  <2>1. CASE UNCHANGED serviceVars
    BY <2>1 DEF serviceVars, TypeInv, TypeOK, Signals
  <2>2. CASE ServiceNext
    BY <2>2, RequestType, AgentCallType, ContinueType, DequeueType DEF ServiceNext
  <2> QED
    BY <2>1, <2>2
<1> QED
  BY <1>1, <1>2, PTL DEF ServiceSpec

\* Every variable keeps its type; in particular a cancel signal is only ever
\* addressed to an agent, never to a nil AgentID.
THEOREM TypeCorrect == ServiceSpec => []TypeOK
BY TypeInvariant, PTL DEF TypeInv

-----------------------------------------------------------------------------
(***************************************************************************)
(* What holds of every row, stored or in a call's hands, under any overlap *)
(* of calls.  Save stores a row that is good already, so what has to be    *)
(* seen is that every edit of a good row gives a good one.                 *)
(***************************************************************************)
GoodRow(r) ==
    /\ r.retryCount <= MaxRetries
    /\ r.status = "cancelled" => r.cancelled

RowInv ==
    /\ \A j \in JobId : Exists(j) => GoodRow(jobs[j])
    /\ \A p \in Proc : call[p] # Idle => GoodRow(call[p].row)

LEMMA GetJobGood ==
    ASSUME TypeInv, RowInv, NEW p \in Proc, NEW j \in JobId, NEW op, NEW row,
           GetJob(p, op, j, row), GoodRow(row)
    PROVE  RowInv'
BY DEF GetJob, Start, RowInv, TypeInv, TypeOK, GoodRow

LEMMA RequestGood ==
    ASSUME TypeInv, RowInv, NEW p \in Proc, NEW j \in JobId, Request(p, j)
    PROVE  RowInv'
<1>1. CASE CreateJob(p, j)
  <2>1. GoodRow(NewRow)
    BY ConstantsAssumption DEF GoodRow, NewRow
  <2> QED
    BY <1>1, <2>1 DEF CreateJob, Start, RowInv, TypeInv, TypeOK, GoodRow
<1>2. CASE CancelJob(p, j)
  <2>1. jobs[j] \in Row /\ GoodRow(jobs[j])
    BY <1>2 DEF CancelJob, GetJob, TypeInv, TypeOK, RowInv
  <2>2. GoodRow([jobs[j] EXCEPT !.status = "cancelled", !.cancelled = TRUE])
    BY <2>1 DEF Row, GoodRow
  <2> QED
    BY <1>2, <2>2, GetJobGood DEF CancelJob
<1>3. CASE RetryJob(p, j)
  <2>1. jobs[j] \in Row /\ jobs[j].retryCount < MaxRetries
    BY <1>3 DEF RetryJob, GetJob, TypeInv, TypeOK
  <2>2. jobs[j].retryCount + 1 \in Nat /\ jobs[j].retryCount + 1 <= MaxRetries
    BY <2>1, ConstantsAssumption DEF Row
  <2>3. \A n \in Nat : n <= MaxRetries =>
          GoodRow([jobs[j] EXCEPT !.status = "pending", !.cancelled = FALSE,
                                  !.retryCount = n, !.progress = 0])
    BY <2>1 DEF Row, GoodRow
  <2>4. GoodRow([jobs[j] EXCEPT !.status = "pending", !.cancelled = FALSE,
                                !.retryCount = @ + 1, !.progress = 0])
    BY <2>2, <2>3
  <2> QED
    BY <1>3, <2>4, GetJobGood DEF RetryJob
<1> QED
  BY <1>1, <1>2, <1>3 DEF Request

LEMMA AgentCallGood ==
    ASSUME TypeInv, RowInv, NEW p \in Proc, NEW j \in JobId, AgentCall(p, j)
    PROVE  RowInv'
<1>1. ASSUME Exists(j)
      PROVE  jobs[j] \in Row /\ GoodRow(jobs[j])
  BY <1>1 DEF TypeInv, TypeOK, RowInv
<1>2. ASSUME NEW a \in AgentId, AssignJob(p, j, a)
      PROVE  RowInv'
  <2>1. GoodRow([jobs[j] EXCEPT !.agent = a, !.status = "running"])
    BY <1>1, <1>2 DEF AssignJob, GetJob, Row, GoodRow
  <2> QED
    BY <1>2, <2>1, GetJobGood DEF AssignJob
<1>3. ASSUME NEW s \in Reported, UpdateJobStatus(p, j, s)
      PROVE  RowInv'
  <2>1. GoodRow([jobs[j] EXCEPT !.status = s])
    BY <1>1, <1>3, ReportedAssumption DEF UpdateJobStatus, GetJob, Row, GoodRow
  <2> QED
    BY <1>3, <2>1, GetJobGood DEF UpdateJobStatus
<1>4. ASSUME NEW w \in BOOLEAN, ProcessLog(p, j, w)
      PROVE  RowInv'
  <2>1. jobs[j] \in Row /\ GoodRow(jobs[j])
    BY <1>1, <1>4 DEF ProcessLog, GetJob
  <2>2. \A n, q : GoodRow([jobs[j] EXCEPT !.logs = n, !.progress = q])
    BY <2>1 DEF Row, GoodRow
  <2>3. GoodRow([jobs[j] EXCEPT !.logs = @ + 1, !.progress = IF w THEN 1 ELSE @])
    BY <2>2
  <2> QED
    BY <1>4, <2>3, GetJobGood DEF ProcessLog
<1>5. CASE UpdateJobProgress(p, j)
  <2>1. GoodRow([jobs[j] EXCEPT !.progress = 1])
    BY <1>1, <1>5 DEF UpdateJobProgress, GetJob, Row, GoodRow
  <2> QED
    BY <1>5, <2>1, GetJobGood DEF UpdateJobProgress
<1> QED
  BY <1>2, <1>3, <1>4, <1>5 DEF AgentCall

\* No step that goes on with a call changes the row in its hands.
LEMMA NextCallRow ==
    ASSUME NEW c \in Call
    PROVE  /\ AfterPublish(c) # Idle => AfterPublish(c).row = c.row
           /\ AfterSave(c) # Idle => AfterSave(c).row = c.row
BY DEF AfterPublish, AfterSave, Call

LEMMA ContinueGood ==
    ASSUME TypeInv, RowInv, NEW p \in Proc, Continue(p)
    PROVE  RowInv'
<1> USE DEF TypeInv, TypeOK, RowInv
<1>1. call[p] \in Call /\ GoodRow(call[p].row) /\ call[p].job \in JobId
  BY DEF Continue, Save, SaveFails, Enqueue, EnqueueFails, PublishJobUpdate, PublishCancel, Call
<1>2. CASE Save(p)
  <2>1. \A j \in JobId : jobs'[j] # NoRow => GoodRow(jobs'[j])
    BY <1>1, <1>2 DEF Save
  <2>2. \A q \in Proc : call'[q] # Idle => GoodRow(call'[q].row)
    BY <1>1, <1>2, NextCallRow DEF Save
  <2> QED
    BY <2>1, <2>2 DEF GoodRow
<1>3. CASE SaveFails(p) \/ Enqueue(p) \/ EnqueueFails(p)
  BY <1>3 DEF SaveFails, Enqueue, EnqueueFails, GoodRow
<1>4. CASE PublishJobUpdate(p)
  <2>1. \A q \in Proc : call'[q] # Idle => GoodRow(call'[q].row)
    BY <1>1, <1>4, NextCallRow DEF PublishJobUpdate
  <2> QED
    BY <1>4, <2>1 DEF PublishJobUpdate, GoodRow
<1>5. CASE \E subscribed \in BOOLEAN : PublishCancel(p, subscribed)
  BY <1>5 DEF PublishCancel, GoodRow
<1> QED
  BY <1>2, <1>3, <1>4, <1>5 DEF Continue

LEMMA RowInvariant == ServiceSpec => []RowInv
<1>1. ServiceInit => RowInv
  BY DEF ServiceInit, RowInv
<1>2. TypeInv /\ RowInv /\ [ServiceNext]_serviceVars => RowInv'
  <2> SUFFICES ASSUME TypeInv, RowInv, [ServiceNext]_serviceVars PROVE RowInv'
    OBVIOUS
  <2>1. CASE UNCHANGED serviceVars
    BY <2>1 DEF serviceVars, RowInv, GoodRow
  <2>2. ASSUME NEW j \in JobId, GetNextJob(j)
        PROVE  RowInv'
    BY <2>2 DEF GetNextJob, RowInv, GoodRow
  <2>3. CASE ServiceNext
    BY <2>2, <2>3, RequestGood, AgentCallGood, ContinueGood DEF ServiceNext
  <2> QED
    BY <2>1, <2>3
<1> QED
  BY <1>1, <1>2, TypeInvariant, PTL DEF ServiceSpec

\* No overlap of RetryJob calls, and no stale row saved over a newer one,
\* takes RetryCount past MaxRetries.
THEOREM RetriesWithinBound == ServiceSpec => []RetryBound
<1>1. RowInv => RetryBound
  BY DEF RowInv, RetryBound, Rows, GoodRow
<1> QED
  BY <1>1, RowInvariant, PTL

\* No overlap of calls separates the status cancelled from its flag.
THEOREM CancelledIsMarked == ServiceSpec => []CancelledMarked
<1>1. RowInv => CancelledMarked
  BY DEF RowInv, CancelledMarked, Rows, GoodRow
<1> QED
  BY <1>1, RowInvariant, PTL

-----------------------------------------------------------------------------
(***************************************************************************)
(* Retries and the queue, under any overlap of calls.  Two RetryJob calls  *)
(* may save the same count, or a stale copy may take the count back; but   *)
(* each call that raised it puts the job into the queue by itself.         *)
(***************************************************************************)
\* How often j was offered to the queue or is about to be.
Offered(j) == enqueued[j] + refused[j] + Cardinality(Enqueueing(j))

\* The count in a copy is covered once the copy is saved: by an offer that
\* there was, and for a retry by the one that its own call will make.
Carries(c) ==
    /\ c.op # "create"
    /\ c.row.retryCount <= Offered(c.job)
    /\ c.op # "retry" => c.row.retryCount < Offered(c.job)

CoverInv ==
    /\ \A j \in JobId : IsFiniteSet(Enqueueing(j))
    /\ \A j \in JobId : Exists(j) => jobs[j].retryCount < Offered(j)
    /\ \A p \in Proc : call[p] # Idle => Exists(call[p].job)
    /\ \A p \in Proc : call[p] # Idle /\ call[p].pc = "save" => Carries(call[p])

LEMMA OfferedNat ==
    ASSUME TypeInv, CoverInv, NEW j \in JobId
    PROVE  Offered(j) \in Nat
BY FS_CardinalityType DEF Offered, TypeInv, TypeOK, CoverInv

\* Rows and copies that were covered stay so, as offers never get fewer.
LEMMA StillCovered ==
    ASSUME TypeInv, TypeInv', CoverInv, NEW p \in Proc,
           \A j \in JobId : IsFiniteSet(Enqueueing(j)') /\ Offered(j) <= Offered(j)',
           \A j \in JobId : jobs'[j] # NoRow => \/ jobs'[j] = jobs[j]
                                                \/ jobs'[j].retryCount < Offered(j)',
           \A j \in JobId : jobs[j] # NoRow => jobs'[j] # NoRow,
           \A q \in Proc \ {p} : call'[q] = call[q],
           call'[p] # Idle => jobs'[call'[p].job] # NoRow,
           call'[p] # Idle /\ call'[p].pc = "save" =>
              /\ call'[p].op # "create"
              /\ call'[p].row.retryCount <= Offered(call'[p].job)
              /\ call'[p].op # "retry" => call'[p].row.retryCount < Offered(call'[p].job)
    PROVE  CoverInv'
<1>1. \A j \in JobId : Offered(j) \in Nat
  BY OfferedNat
<1>2. \A j \in JobId : Offered(j)' \in Nat
  BY FS_CardinalityType DEF Offered, TypeInv, TypeOK
<1>3. \A j \in JobId : jobs'[j] # NoRow => jobs'[j].retryCount < Offered(j)'
  <2> SUFFICES ASSUME NEW j \in JobId, jobs'[j] # NoRow
               PROVE  jobs'[j].retryCount < Offered(j)'
    OBVIOUS
  <2>1. jobs'[j] \in Row
    BY DEF TypeInv, TypeOK
  <2>2. jobs'[j].retryCount \in Nat
    BY <2>1 DEF Row
  <2>3. CASE jobs'[j] = jobs[j]
    <3>1. jobs[j].retryCount < Offered(j)
      BY <2>3 DEF CoverInv
    <3> QED
      BY <1>1, <1>2, <2>2, <2>3, <3>1
  <2> QED
    BY <2>3
<1>4. \A q \in Proc : call'[q] # Idle => jobs'[call'[q].job] # NoRow
  BY DEF CoverInv, TypeInv, TypeOK, Call
<1>5. ASSUME NEW q \in Proc, call'[q] # Idle, call'[q].pc = "save"
      PROVE  Carries(call[q])'
  <2>1. PICK c \in Call : c = call'[q]
    BY <1>5 DEF TypeInv, TypeOK
  <2>2. PICK n \in Nat : n = c.row.retryCount
    BY <2>1 DEF Call, Row
  <2>3. c.job \in JobId
    BY <2>1 DEF Call
  <2>4. /\ c.op # "create" /\ n <= Offered(c.job)
        /\ c.op # "retry" => n < Offered(c.job)
    <3>1. CASE q = p
      BY <1>5, <2>1, <2>2, <3>1
    <3>2. CASE q # p
      <4>1. call'[q] = call[q]
        BY <3>2
      <4>2. Carries(c)
        BY <1>5, <2>1, <4>1 DEF CoverInv
      <4> QED
        BY <2>2, <4>2 DEF Carries
    <3> QED
      BY <3>1, <3>2
  <2>5. PICK i \in JobId : i = c.job
    BY <2>3
  <2>6. n <= Offered(i)' /\ (c.op # "retry" => n < Offered(i)')
    BY <1>1, <1>2, <2>4, <2>5
  <2> QED
    BY <2>1, <2>2, <2>4, <2>5, <2>6 DEF Carries, Offered, Enqueueing, WorkingOn
<1> QED
  BY <1>3, <1>4, <1>5 DEF CoverInv

LEMMA GetJobCover ==
    ASSUME TypeInv, TypeInv', CoverInv, NEW p \in Proc, NEW j \in JobId, NEW op \in Op,
           NEW row \in Row, GetJob(p, op, j, row), op # "create",
           \/ row.retryCount = jobs[j].retryCount
           \/ op = "retry" /\ row.retryCount = jobs[j].retryCount + 1
    PROVE  CoverInv'
<1> DEFINE c == [pc |-> "save", op |-> op, job |-> j, row |-> row]
<1>1. /\ jobs[j] # NoRow /\ UNCHANGED <<jobs, enqueued, refused>>
      /\ call[p] = Idle /\ call' = [call EXCEPT ![p] = c]
  BY DEF GetJob, Start
<1>2. /\ \A q \in Proc \ {p} : call'[q] = call[q]
      /\ call'[p] = c
  BY <1>1 DEF TypeInv, TypeOK
<1>3. ASSUME NEW i \in JobId
      PROVE  Enqueueing(i)' = Enqueueing(i)
  BY <1>1, <1>2 DEF Enqueueing, WorkingOn, Idle
<1>4. \A i \in JobId : IsFiniteSet(Enqueueing(i)') /\ Offered(i)' = Offered(i)
  BY <1>1, <1>3 DEF Offered, CoverInv
<1>5. /\ jobs[j].retryCount \in Nat /\ row.retryCount \in Nat /\ Offered(j) \in Nat
      /\ jobs[j].retryCount < Offered(j)
  BY <1>1, OfferedNat DEF CoverInv, TypeInv, TypeOK, Row
<1>6. row.retryCount <= Offered(j) /\ (op # "retry" => row.retryCount < Offered(j))
  BY <1>5
<1>7. \A i \in JobId : Offered(i) <= Offered(i)'
  BY <1>4, OfferedNat
<1>8. /\ c.op # "create" /\ c.row.retryCount <= Offered(c.job)
      /\ c.op # "retry" => c.row.retryCount < Offered(c.job)
  BY <1>6
<1> HIDE DEF c
<1>9. c.job = j
  BY DEF c
<1> QED
  BY <1>1, <1>2, <1>4, <1>7, <1>8, <1>9, StillCovered

LEMMA RequestCover ==
    ASSUME TypeInv, TypeInv', CoverInv, NEW p \in Proc, NEW j \in JobId, Request(p, j)
    PROVE  CoverInv'
<1>1. CASE CreateJob(p, j)
  <2> DEFINE c == [pc |-> "enqueue", op |-> "create", job |-> j, row |-> NewRow]
  <2>1. /\ jobs[j] = NoRow /\ jobs' = [jobs EXCEPT ![j] = NewRow]
        /\ call[p] = Idle /\ call' = [call EXCEPT ![p] = c]
        /\ UNCHANGED <<enqueued, refused>>
    BY <1>1 DEF CreateJob, Start
  <2>2. /\ \A q \in Proc \ {p} : call'[q] = call[q]
        /\ call'[p] = c /\ c # Idle
        /\ jobs'[j] = NewRow
        /\ \A i \in JobId \ {j} : jobs'[i] = jobs[i]
    BY <2>1 DEF TypeInv, TypeOK, Idle
  <2>3. Enqueueing(j)' = Enqueueing(j) \cup {p} /\ p \notin Enqueueing(j)
    BY <2>1, <2>2 DEF Enqueueing, WorkingOn, Idle
  <2>4. ASSUME NEW i \in JobId, i # j
        PROVE  Enqueueing(i)' = Enqueueing(i)
    BY <2>1, <2>2, <2>4 DEF Enqueueing, WorkingOn, Idle
  <2>5. /\ IsFiniteSet(Enqueueing(j)')
        /\ Cardinality(Enqueueing(j)') = Cardinality(Enqueueing(j)) + 1
    BY <2>3, FS_AddElement DEF CoverInv
  <2>6. Offered(j)' = Offered(j) + 1
    BY <2>1, <2>5, FS_CardinalityType DEF Offered, TypeInv, TypeOK, CoverInv
  <2>7. \A i \in JobId : IsFiniteSet(Enqueueing(i)') /\ Offered(i) <= Offered(i)'
    <3>1. ASSUME NEW i \in JobId, i # j
          PROVE  IsFiniteSet(Enqueueing(i)') /\ Offered(i)' = Offered(i)
      BY <2>1, <2>4, <3>1 DEF Offered, CoverInv
    <3> QED
      BY <2>5, <2>6, <3>1, OfferedNat
  <2>8. NewRow.retryCount < Offered(j)'
    BY <2>6, OfferedNat DEF NewRow
  <2>9. \A i \in JobId : jobs'[i] # NoRow =>
            jobs'[i] = jobs[i] \/ jobs'[i].retryCount < Offered(i)'
    BY <2>2, <2>8
  <2>10. c.pc # "save" /\ c.job = j /\ NewRow # NoRow
    BY NewRowType, NoRowAssumption
  <2> HIDE DEF c
  <2> QED
    BY <2>2, <2>7, <2>9, <2>10, StillCovered
<1>2. CASE CancelJob(p, j)
  <2> DEFINE r == [jobs[j] EXCEPT !.status = "cancelled", !.cancelled = TRUE]
  <2>1. GetJob(p, "cancel", j, r) /\ jobs[j] \in Row
    BY <1>2 DEF CancelJob, GetJob, TypeInv, TypeOK
  <2>2. r \in Row /\ r.retryCount = jobs[j].retryCount
    BY <2>1 DEF Row, Status
  <2> QED
    BY <2>1, <2>2, GetJobCover DEF Op
<1>3. CASE RetryJob(p, j)
  <2> DEFINE r(n) == [jobs[j] EXCEPT !.status = "pending", !.cancelled = FALSE,
                                     !.retryCount = n, !.progress = 0]
  <2>1. GetJob(p, "retry", j, r(jobs[j].retryCount + 1)) /\ jobs[j] \in Row
    BY <1>3 DEF RetryJob, GetJob, TypeInv, TypeOK
  <2>2. jobs[j].retryCount + 1 \in Nat
    BY <2>1 DEF Row
  <2>3. \A n \in Nat : r(n) \in Row /\ r(n).retryCount = n
    BY <2>1 DEF Row, Status
  <2> HIDE DEF r
  <2> QED
    BY <2>1, <2>2, <2>3, GetJobCover DEF Op
<1> QED
  BY <1>1, <1>2, <1>3 DEF Request

LEMMA AgentCallCover ==
    ASSUME TypeInv, TypeInv', CoverInv, NEW p \in Proc, NEW j \in JobId, AgentCall(p, j)
    PROVE  CoverInv'
<1>1. ASSUME jobs[j] # NoRow
      PROVE  jobs[j] \in Row
  BY <1>1 DEF TypeInv, TypeOK
<1>2. ASSUME NEW a \in AgentId, AssignJob(p, j, a)
      PROVE  CoverInv'
  <2> DEFINE r == [jobs[j] EXCEPT !.agent = a, !.status = "running"]
  <2>1. GetJob(p, "assign", j, r) /\ jobs[j] \in Row
    BY <1>1, <1>2 DEF AssignJob, GetJob
  <2>2. r \in Row /\ r.retryCount = jobs[j].retryCount
    BY <2>1 DEF Row, Status
  <2> QED
    BY <2>1, <2>2, GetJobCover DEF Op
<1>3. ASSUME NEW s \in Reported, UpdateJobStatus(p, j, s)
      PROVE  CoverInv'
  <2> DEFINE r == [jobs[j] EXCEPT !.status = s]
  <2>1. GetJob(p, "status", j, r) /\ jobs[j] \in Row
    BY <1>1, <1>3 DEF UpdateJobStatus, GetJob
  <2>2. r \in Row /\ r.retryCount = jobs[j].retryCount
    BY <2>1, ReportedAssumption DEF Row, Status
  <2> QED
    BY <2>1, <2>2, GetJobCover DEF Op
<1>4. ASSUME NEW w \in BOOLEAN, ProcessLog(p, j, w)
      PROVE  CoverInv'
  <2> DEFINE r(n, q) == [jobs[j] EXCEPT !.logs = n, !.progress = q]
             q0 == IF w THEN 1 ELSE jobs[j].progress
  <2>1. GetJob(p, "log", j, r(jobs[j].logs + 1, q0)) /\ jobs[j] \in Row
    BY <1>1, <1>4 DEF ProcessLog, GetJob
  <2>2. jobs[j].logs + 1 \in Nat /\ q0 \in {0, 1}
    BY <2>1 DEF Row
  <2>3. \A n \in Nat, q \in {0, 1} :
            r(n, q) \in Row /\ r(n, q).retryCount = jobs[j].retryCount
    BY <2>1 DEF Row, Status
  <2> HIDE DEF r, q0
  <2> QED
    BY <2>1, <2>2, <2>3, GetJobCover DEF Op
<1>5. CASE UpdateJobProgress(p, j)
  <2> DEFINE r == [jobs[j] EXCEPT !.progress = 1]
  <2>1. GetJob(p, "progress", j, r) /\ jobs[j] \in Row
    BY <1>1, <1>5 DEF UpdateJobProgress, GetJob
  <2>2. r \in Row /\ r.retryCount = jobs[j].retryCount
    BY <2>1 DEF Row, Status
  <2> QED
    BY <2>1, <2>2, GetJobCover DEF Op
<1> QED
  BY <1>2, <1>3, <1>4, <1>5 DEF AgentCall

\* A step that neither saves nor touches who is about to put a job into the
\* queue: a failed save, a publication, a signal.
LEMMA QuietStepCover ==
    ASSUME TypeInv, TypeInv', CoverInv, NEW p \in Proc,
           call[p] # Idle, call[p].pc # "enqueue",
           \A q \in Proc \ {p} : call'[q] = call[q],
           call'[p] # Idle => /\ call'[p].job = call[p].job
                              /\ call'[p].pc \notin {"save", "enqueue"},
           UNCHANGED <<jobs, enqueued, refused>>
    PROVE  CoverInv'
<1>1. ASSUME NEW i \in JobId
      PROVE  Enqueueing(i)' = Enqueueing(i)
  BY DEF Enqueueing, WorkingOn
<1>2. \A i \in JobId : IsFiniteSet(Enqueueing(i)') /\ Offered(i)' = Offered(i)
  BY <1>1 DEF Offered, CoverInv
<1>3. \A i \in JobId : Offered(i) <= Offered(i)'
  BY <1>2, OfferedNat
<1>4. call'[p] # Idle => jobs'[call'[p].job] # NoRow
  BY DEF CoverInv
<1> QED
  BY <1>2, <1>3, <1>4, StillCovered

LEMMA SaveCover ==
    ASSUME TypeInv, TypeInv', CoverInv, NEW p \in Proc, Save(p)
    PROVE  CoverInv'
<1>0. PICK c \in Call : c = call[p]
  BY DEF Save, TypeInv, TypeOK
<1>1. PICK j \in JobId : j = c.job
  BY DEF Call
<1>2. /\ call[p] # Idle /\ c.pc = "save" /\ c.row \in Row /\ c.row.retryCount \in Nat
      /\ jobs[j] # NoRow /\ c.op # "create"
      /\ c.row.retryCount <= Offered(j)
      /\ c.op # "retry" => c.row.retryCount < Offered(j)
  BY <1>0, <1>1 DEF Save, CoverInv, Carries, Call, Row
<1>3. /\ \A i \in JobId \ {j} : jobs'[i] = jobs[i]
      /\ jobs'[j] = c.row
      /\ \A q \in Proc \ {p} : call'[q] = call[q]
      /\ call'[p] = AfterSave(c)
      /\ UNCHANGED <<enqueued, refused>>
  BY <1>0, <1>1 DEF Save, TypeInv, TypeOK
<1>4. /\ AfterSave(c) # Idle => AfterSave(c).job = j /\ AfterSave(c).pc # "save"
      /\ AfterSave(c) # Idle /\ AfterSave(c).pc = "enqueue" <=> c.op = "retry"
  BY <1>0, <1>1 DEF AfterSave, AfterPublish, Call, Idle
<1>5. p \notin Enqueueing(j) /\ \A i \in JobId \ {j} : Enqueueing(i)' = Enqueueing(i)
  BY <1>0, <1>1, <1>2, <1>3, <1>4 DEF Enqueueing, WorkingOn
<1>6. \A i \in JobId \ {j} : IsFiniteSet(Enqueueing(i)') /\ Offered(i)' = Offered(i)
  BY <1>3, <1>5 DEF Offered, CoverInv
<1>7. /\ IsFiniteSet(Enqueueing(j)')
      /\ c.op = "retry" => Offered(j)' = Offered(j) + 1
      /\ c.op # "retry" => Offered(j)' = Offered(j)
  <2>1. CASE c.op = "retry"
    <3>1. Enqueueing(j)' = Enqueueing(j) \cup {p}
      BY <1>3, <1>4, <2>1 DEF Enqueueing, WorkingOn
    <3>2. /\ IsFiniteSet(Enqueueing(j)')
          /\ Cardinality(Enqueueing(j)') = Cardinality(Enqueueing(j)) + 1
      BY <1>5, <3>1, FS_AddElement DEF CoverInv
    <3> QED
      BY <1>3, <2>1, <3>2, FS_CardinalityType DEF Offered, TypeInv, TypeOK, CoverInv
  <2>2. CASE c.op # "retry"
    <3>1. Enqueueing(j)' = Enqueueing(j)
      BY <1>0, <1>2, <1>3, <1>4, <2>2 DEF Enqueueing, WorkingOn
    <3> QED
      BY <1>3, <2>2, <3>1 DEF Offered, CoverInv
  <2> QED
    BY <2>1, <2>2
<1>8. Offered(j) \in Nat /\ c.row.retryCount < Offered(j)'
  BY <1>2, <1>7, OfferedNat
<1>9. \A i \in JobId : IsFiniteSet(Enqueueing(i)') /\ Offered(i) <= Offered(i)'
  BY <1>6, <1>7, OfferedNat
<1>10. c.row # NoRow
  BY <1>2, NoRowAssumption
<1> QED
  BY <1>3, <1>4, <1>8, <1>9, <1>10, StillCovered

\* The offer, whether Redis takes it or not, is counted when it is made.
LEMMA OfferCover ==
    ASSUME TypeInv, TypeInv', CoverInv, NEW p \in Proc, Enqueue(p) \/ EnqueueFails(p)
    PROVE  CoverInv'
<1>1. PICK j \in JobId : j = call[p].job
  BY DEF Enqueue, EnqueueFails, TypeInv, TypeOK, Call
<1>2. /\ call[p] # Idle /\ call[p].pc = "enqueue"
      /\ \A q \in Proc \ {p} : call'[q] = call[q]
      /\ call'[p] = Idle /\ UNCHANGED jobs
      /\ enqueued'[j] + refused'[j] = enqueued[j] + refused[j] + 1
      /\ \A i \in JobId \ {j} : enqueued'[i] = enqueued[i] /\ refused'[i] = refused[i]
  BY <1>1 DEF Enqueue, EnqueueFails, TypeInv, TypeOK
<1>3. /\ Enqueueing(j)' = Enqueueing(j) \ {p} /\ p \in Enqueueing(j)
      /\ \A i \in JobId \ {j} : Enqueueing(i)' = Enqueueing(i)
  BY <1>1, <1>2 DEF Enqueueing, WorkingOn
<1>4. /\ IsFiniteSet(Enqueueing(j)')
      /\ Cardinality(Enqueueing(j)') = Cardinality(Enqueueing(j)) - 1
  BY <1>3, FS_RemoveElement DEF CoverInv
<1>5. Offered(j)' = Offered(j)
  BY <1>2, <1>4, FS_CardinalityType DEF Offered, TypeInv, TypeOK, CoverInv
<1>6. \A i \in JobId \ {j} : IsFiniteSet(Enqueueing(i)') /\ Offered(i)' = Offered(i)
  BY <1>2, <1>3 DEF Offered, CoverInv
<1>7. \A i \in JobId : IsFiniteSet(Enqueueing(i)') /\ Offered(i) <= Offered(i)'
  BY <1>4, <1>5, <1>6, OfferedNat
<1> QED
  BY <1>2, <1>7, StillCovered

LEMMA ContinueCover ==
    ASSUME TypeInv, TypeInv', CoverInv, NEW p \in Proc, Continue(p)
    PROVE  CoverInv'
<1>1. ASSUME call[p] # Idle
      PROVE  call[p] \in Call
  BY <1>1 DEF TypeInv, TypeOK
<1>2. CASE \/ SaveFails(p) \/ PublishJobUpdate(p)
           \/ \E subscribed \in BOOLEAN : PublishCancel(p, subscribed)
  <2>1. /\ call[p] # Idle /\ call[p].pc # "enqueue"
        /\ \A q \in Proc \ {p} : call'[q] = call[q]
        /\ call'[p] \in {Idle, AfterPublish(call[p])}
        /\ UNCHANGED <<jobs, enqueued, refused>>
    BY <1>2 DEF SaveFails, PublishJobUpdate, PublishCancel, TypeInv, TypeOK
  <2>2. AfterPublish(call[p]) # Idle => /\ AfterPublish(call[p]).job = call[p].job
                                        /\ AfterPublish(call[p]).pc = "signal"
    BY <1>1, <2>1 DEF AfterPublish, Call
  <2> QED
    BY <2>1, <2>2, QuietStepCover
<1> QED
  BY <1>2, SaveCover, OfferCover DEF Continue

LEMMA CoverInvariant == ServiceSpec => []CoverInv
<1>1. ServiceInit => CoverInv
  <2> SUFFICES ASSUME ServiceInit PROVE CoverInv
    OBVIOUS
  <2>1. \A j \in JobId : Enqueueing(j) = {}
    BY DEF ServiceInit, Enqueueing, WorkingOn
  <2> QED
    BY <2>1, FS_EmptySet DEF ServiceInit, CoverInv
<1>2. TypeInv /\ TypeInv' /\ CoverInv /\ [ServiceNext]_serviceVars => CoverInv'
  <2> SUFFICES ASSUME TypeInv, TypeInv', CoverInv, [ServiceNext]_serviceVars PROVE CoverInv'
    OBVIOUS
  <2>1. ASSUME UNCHANGED <<jobs, call, enqueued, refused>>
        PROVE  CoverInv'
    BY <2>1 DEF CoverInv, Carries, Offered, Enqueueing, WorkingOn
  <2>2. CASE UNCHANGED serviceVars
    BY <2>1, <2>2 DEF serviceVars
  <2>3. ASSUME NEW j \in JobId, GetNextJob(j)
        PROVE  CoverInv'
    BY <2>1, <2>3 DEF GetNextJob
  <2> QED
    BY <2>2, <2>3, RequestCover, AgentCallCover, ContinueCover DEF ServiceNext
<1> QED
  BY <1>1, <1>2, TypeInvariant, PTL DEF ServiceSpec

\* Every retry that a row counts, and the creation, was offered to the queue
\* or is about to be, whatever stale copies overlapping calls save.
THEOREM RetriesAreCovered == ServiceSpec => []RetriesCovered
<1>1. TypeInv /\ CoverInv => RetriesCovered
  <2> SUFFICES ASSUME TypeInv, CoverInv, NEW j \in JobId, Exists(j)
               PROVE  jobs[j].retryCount + 1
                        <= enqueued[j] + refused[j] + Cardinality(Enqueueing(j))
    BY DEF RetriesCovered
  <2>1. jobs[j].retryCount \in Nat /\ Offered(j) \in Nat /\ jobs[j].retryCount < Offered(j)
    BY OfferedNat DEF TypeInv, TypeOK, CoverInv, Row
  <2> QED
    BY <2>1 DEF Offered
<1> QED
  BY <1>1, TypeInvariant, CoverInvariant, PTL

=============================================================================
