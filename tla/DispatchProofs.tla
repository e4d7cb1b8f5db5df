---------------------------- MODULE DispatchProofs ----------------------------
(***************************************************************************)
(* Theorems about Dispatch, for any number of clients, agents, slots, jobs *)
(* and faults.                                                             *)
(***************************************************************************)
EXTENDS Dispatch, JobServiceProofs, SequenceTheorems

USE DEF Exists

-----------------------------------------------------------------------------
(***************************************************************************)
(* What a step of the system is for the job service.                       *)
(***************************************************************************)
Copies(p) == \E j \in JobId, op \in Op, row \in Row : GetJob(p, op, j, row)

\* Signals are delivered or lost with their subscription; a restart of the
\* server ends all calls.
Forgets ==
    /\ cancels' \subseteq cancels
    /\ call' = call \/ call' = [p \in Proc |-> Idle]
    /\ UNCHANGED <<jobs, queue, announced, enqueued, refused>>

PlainStep ==
    \/ \E p \in Proc : (\E j \in JobId : Request(p, j)) \/ Continue(p)
    \/ \E j \in JobId : GetNextJob(j)
    \/ Forgets

\* The actions that read a row.
CopyStep ==
    \/ \E a \in AgentId : Assign(a) \/ SendFails(a)
    \/ \E s \in Slot : Init(s) \/ Done(s) \/ Log(s)

ServiceStep == PlainStep \/ (CopyStep /\ \E p \in Proc : Copies(p))

LEMMA Goroutines ==
    /\ Client \subseteq Proc /\ AgentId \subseteq Proc /\ Slot \subseteq Proc
    /\ \A s \in Slot : Logger(s) \in Proc
    /\ \A s \in Slot : s[1] \in AgentId
BY DispatchAssumption DEF Slot

LEMMA AssignCopies ==
    ASSUME TypeOK, NEW p \in Proc, NEW j \in JobId, NEW a \in AgentId, AssignJob(p, j, a)
    PROVE  Copies(p)
<1>1. [jobs[j] EXCEPT !.agent = a, !.status = "running"] \in Row
  BY DEF AssignJob, GetJob, TypeOK, Row, Status
<1> QED
  BY <1>1 DEF AssignJob, Copies, Op

LEMMA StatusCopies ==
    ASSUME TypeOK, NEW p \in Proc, NEW j \in JobId, NEW s \in Status, UpdateJobStatus(p, j, s)
    PROVE  Copies(p)
<1>1. [jobs[j] EXCEPT !.status = s] \in Row
  BY DEF UpdateJobStatus, GetJob, TypeOK, Row, Status
<1> QED
  BY <1>1 DEF UpdateJobStatus, Copies, Op

LEMMA LogCopies ==
    ASSUME TypeOK, NEW p \in Proc, NEW j \in JobId, ProcessLog(p, j, FALSE)
    PROVE  Copies(p)
<1>1. jobs[j] \in Row
  BY DEF ProcessLog, GetJob, TypeOK
<1>2. jobs[j].logs + 1 \in Nat /\ jobs[j].progress \in {0, 1}
  BY <1>1 DEF Row
<1>3. \A n \in Nat, q \in {0, 1} : [jobs[j] EXCEPT !.logs = n, !.progress = q] \in Row
  BY <1>1 DEF Row
<1>4. [jobs[j] EXCEPT !.logs = @ + 1, !.progress = IF FALSE THEN 1 ELSE @] \in Row
  BY <1>2, <1>3
<1> QED
  BY <1>4 DEF ProcessLog, Copies, Op

LEMMA ServiceTypes ==
    ASSUME TypeInv, ServiceStep
    PROVE  TypeInv'
<1>1. ASSUME NEW p \in Proc, Copies(p)
      PROVE  TypeInv'
  BY <1>1, GetJobType DEF Copies
<1>2. CASE Forgets
  BY <1>2 DEF Forgets, TypeInv, TypeOK, Signals
<1> QED
  BY <1>1, <1>2, RequestType, ContinueType, DequeueType DEF ServiceStep, PlainStep

-----------------------------------------------------------------------------
(***************************************************************************)
(* Type correctness.  Each action is looked at once, for its part in the   *)
(* job service and for the types of its own variables.                     *)
(***************************************************************************)
LinkState == {"up", "agent", "server", "down"}

OwnTypes ==
    /\ link \in [AgentId -> LinkState]
    /\ known \in [AgentId -> BOOLEAN]
    /\ stream \in [AgentId -> StreamAt \cup {Looping}]
    /\ tracked \subseteq AgentId \X JobId
    /\ wire \in [AgentId -> Seq(Message)]
    /\ exec \in [Slot -> Execution \cup {Free}]
    /\ logger \in [Slot -> JobId \cup {NoJob}]
    /\ active \in [AgentId -> [JobId -> Slot \cup {NoSlot}]]
    /\ faults \in 0 .. MaxFaults
    /\ cut \subseteq JobId /\ earned \subseteq JobId

Types == TypeInv /\ OwnTypes

LEMMA FaultTypes ==
    ASSUME OwnTypes, Fault
    PROVE  faults' \in 0 .. MaxFaults /\ cut' = cut /\ earned' = earned
BY DispatchAssumption DEF OwnTypes, Fault

\* The places of a handler and of an execution, field by field.
LEMMA StreamTypes ==
    ASSUME OwnTypes, NEW a \in AgentId, stream[a] # Looping
    PROVE  /\ stream[a].job \in JobId
           /\ \A pc \in {"popped", "assign", "send", "revert"} :
                 [stream[a] EXCEPT !.pc = pc] \in StreamAt
BY DEF OwnTypes, StreamAt

LEMMA ExecTypes ==
    ASSUME OwnTypes, NEW s \in Slot, exec[s] # Free
    PROVE  /\ exec[s] \in Execution /\ exec[s].job \in JobId /\ exec[s].failed \in BOOLEAN
           /\ [exec[s] EXCEPT !.killed = TRUE] \in Execution
           /\ \A pc \in {"init", "initing", "run", "report", "reporting"} :
                 [exec[s] EXCEPT !.pc = pc] \in Execution
           /\ \A f \in BOOLEAN : [exec[s] EXCEPT !.pc = "report", !.failed = f] \in Execution
BY DEF OwnTypes, Execution

LEMMA Elsewhere ==
    /\ Looping.pc = "loop" /\ Free.pc = "free"
    /\ Looping \notin StreamAt /\ Free \notin Execution
BY DEF Looping, Free, StreamAt, Execution

LEMMA GoesTypes ==
    ASSUME OwnTypes, NEW a \in AgentId, NEW to \in StreamAt \cup {Looping}, StreamGoes(a, to)
    PROVE  stream' \in [AgentId -> StreamAt \cup {Looping}]
BY DEF OwnTypes, StreamGoes

LEMMA TransmitTypes ==
    ASSUME OwnTypes, NEW a \in AgentId, NEW m \in Message, Transmit(a, m)
    PROVE  wire' \in [AgentId -> Seq(Message)]
BY DEF OwnTypes, Transmit

LEMMA HandleTypes ==
    ASSUME Types, NEW p \in Client, Handle(p) \/ HandleFails(p)
    PROVE  ServiceStep /\ OwnTypes'
<1>1. p \in Proc
  BY Goroutines
<1>2. CASE Handle(p)
  <2>1. OwnTypes'
    BY <1>2 DEF Handle, Types, OwnTypes, dispatchVars, serverVars, agentVars, history
  <2>2. Signal(p) => Continue(p)
    <3>1. CASE ServerEnd(call[p].row.agent)
      BY <3>1 DEF Signal, Continue, PublishCancel
    <3>2. CASE ~ServerEnd(call[p].row.agent)
      BY <3>2 DEF Signal, Continue, PublishCancel
    <3> QED
      BY <3>1, <3>2
  <2> QED
    BY <1>1, <1>2, <2>1, <2>2 DEF Handle, ServiceStep, PlainStep, Continue
<1>3. CASE HandleFails(p)
  <2>1. OwnTypes'
    BY <1>3, FaultTypes DEF HandleFails, Types, OwnTypes, serverVars, agentVars
  <2> QED
    BY <1>1, <1>3, <2>1 DEF HandleFails, ServiceStep, PlainStep, Continue
<1> QED
  BY <1>2, <1>3

\* The polls of the queue and the signals to forward.
LEMMA PollTypes ==
    ASSUME Types, NEW a \in AgentId, NEW j \in JobId,
           Poll(a, j) \/ PollLoses(a, j) \/ ForwardCancel(a, j)
    PROVE  ServiceStep /\ OwnTypes'
<1>1. CASE Poll(a, j)
  <2>1. stream' \in [AgentId -> StreamAt \cup {Looping}]
    <3>1. [pc |-> "popped", job |-> j] \in StreamAt
      BY DEF StreamAt
    <3> QED
      BY <1>1, <3>1, GoesTypes DEF Poll, Types
  <2>2. OwnTypes'
    BY <1>1, <2>1 DEF Poll, Types, OwnTypes, agentVars, history
  <2> QED
    BY <1>1, <2>2 DEF Poll, ServiceStep, PlainStep
<1>2. CASE PollLoses(a, j)
  <2>1. OwnTypes'
    BY <1>2, FaultTypes DEF PollLoses, Types, OwnTypes, serverVars, agentVars
  <2> QED
    BY <1>2, <2>1 DEF PollLoses, ServiceStep, PlainStep
<1>3. CASE ForwardCancel(a, j)
  <2>1. wire' \in [AgentId -> Seq(Message)]
    <3>1. [cancel |-> TRUE, job |-> j] \in Message
      BY DEF Message
    <3> QED
      BY <1>3, <3>1, TransmitTypes DEF ForwardCancel, Types, OwnTypes
  <2>2. OwnTypes'
    BY <1>3, <2>1 DEF ForwardCancel, Types, OwnTypes, serverVars, agentVars, history
  <2>3. Forgets
    BY <1>3 DEF ForwardCancel, Forgets
  <2> QED
    BY <2>2, <2>3 DEF ServiceStep, PlainStep
<1> QED
  BY <1>1, <1>2, <1>3

LEMMA AssignTypes ==
    ASSUME Types, NEW a \in AgentId, Assign(a) \/ AssignGoesOn(a) \/ AssignFails(a)
    PROVE  ServiceStep /\ OwnTypes'
<1>0. a \in Proc
  BY Goroutines
<1>1. stream[a] # Looping /\ stream[a].job \in JobId
  BY StreamTypes, Elsewhere DEF Types, Assign, AssignGoesOn, AssignFails
<1>2. CASE Assign(a)
  <2>1. stream' \in [AgentId -> StreamAt \cup {Looping}]
    BY <1>1, <1>2, StreamTypes, GoesTypes DEF Assign, Types
  <2>2. OwnTypes'
    BY <1>2, <2>1 DEF Assign, Types, OwnTypes, agentVars, history
  <2>3. Copies(a)
    BY <1>0, <1>1, <1>2, AssignCopies DEF Assign, Types, TypeInv
  <2> QED
    BY <1>2, <1>0, <2>2, <2>3 DEF ServiceStep, CopyStep
<1>3. CASE AssignGoesOn(a)
  <2>1. stream' \in [AgentId -> StreamAt \cup {Looping}]
    <3>1. PICK pc \in {"assign", "send"} : StreamGoes(a, [stream[a] EXCEPT !.pc = pc])
      BY <1>3 DEF AssignGoesOn
    <3> QED
      BY <1>1, <3>1, StreamTypes, GoesTypes DEF Types
  <2>2. OwnTypes'
    BY <1>3, <2>1 DEF AssignGoesOn, Types, OwnTypes, agentVars, history
  <2> QED
    BY <1>0, <1>3, <2>2 DEF AssignGoesOn, ServiceStep, PlainStep, Continue
<1>4. CASE AssignFails(a)
  <2>1. faults' \in 0 .. MaxFaults /\ cut' = cut /\ earned' = earned
    BY <1>4, FaultTypes DEF AssignFails, FaultOn, history, Types, OwnTypes
  <2>2. OwnTypes'
    BY <1>4, <2>1, GoesTypes DEF AssignFails, Types, OwnTypes, agentVars
  <2>3. SaveFails(a) \/ Forgets
    BY <1>4 DEF AssignFails, Forgets, serviceVars
  <2> QED
    BY <1>0, <2>2, <2>3 DEF ServiceStep, PlainStep, Continue
<1> QED
  BY <1>2, <1>3, <1>4

LEMMA HandlerReturnsTypes ==
    ASSUME OwnTypes, NEW a \in AgentId, HandlerReturns(a)
    PROVE  /\ link' \in [AgentId -> LinkState]
           /\ stream' \in [AgentId -> StreamAt \cup {Looping}]
<1>1. (IF link[a] = "server" THEN "down" ELSE link[a]) \in LinkState
  BY DEF OwnTypes, LinkState
<1> QED
  BY <1>1, GoesTypes DEF OwnTypes, HandlerReturns

LEMMA SendTypes ==
    ASSUME Types, NEW a \in AgentId,
           Send(a) \/ SendFails(a) \/ RevertGoesOn(a) \/ RevertFails(a)
    PROVE  ServiceStep /\ OwnTypes'
<1>0. a \in Proc
  BY Goroutines
<1>1. stream[a] # Looping /\ stream[a].job \in JobId
  BY StreamTypes, Elsewhere DEF Types, Send, SendFails, RevertGoesOn, RevertFails
<1>2. CASE Send(a)
  <2>1. wire' \in [AgentId -> Seq(Message)]
    <3>1. [cancel |-> FALSE, job |-> stream[a].job] \in Message
      BY <1>1 DEF Message
    <3> QED
      BY <1>2, <3>1, TransmitTypes DEF Send, Types
  <2>2. OwnTypes'
    BY <1>2, <2>1, GoesTypes DEF Send, Types, OwnTypes, agentVars, history
  <2> QED
    BY <1>2, <2>2 DEF Send, ServiceStep, PlainStep, Forgets, serviceVars
<1>3. CASE SendFails(a)
  <2>1. stream' \in [AgentId -> StreamAt \cup {Looping}]
    BY <1>1, <1>3, StreamTypes, GoesTypes DEF SendFails, Types
  <2>2. OwnTypes'
    BY <1>3, <2>1 DEF SendFails, Types, OwnTypes, agentVars, history
  <2>3. Copies(a)
    BY <1>0, <1>1, <1>3, StatusCopies DEF SendFails, Types, TypeInv, Status
  <2> QED
    BY <1>3, <1>0, <2>2, <2>3 DEF ServiceStep, CopyStep
<1>4. ASSUME HandlerReturns(a), Untrack(a, stream[a].job), UNCHANGED <<known, wire, agentVars, history>>
      PROVE  OwnTypes'
  BY <1>4, HandlerReturnsTypes DEF Untrack, Types, OwnTypes, LinkState, agentVars, history
<1>5. CASE RevertGoesOn(a)
  <2>1. OwnTypes'
    <3>1. CASE UNCHANGED <<link, stream, tracked>>
      BY <1>5, <3>1 DEF RevertGoesOn, Types, OwnTypes, agentVars, history
    <3> QED
      BY <1>4, <1>5, <3>1 DEF RevertGoesOn
  <2> QED
    BY <1>0, <1>5, <2>1 DEF RevertGoesOn, ServiceStep, PlainStep, Continue
<1>6. CASE RevertFails(a)
  <2>1. SaveFails(a) \/ Forgets
    BY <1>6 DEF RevertFails, Forgets, serviceVars
  <2> QED
    BY <1>0, <1>4, <1>6, <2>1 DEF RevertFails, ServiceStep, PlainStep, Continue
<1> QED
  BY <1>2, <1>3, <1>5, <1>6

LEMMA RecvTypes ==
    ASSUME Types, NEW a \in AgentId, Recv(a)
    PROVE  ServiceStep /\ OwnTypes'
<1>1. /\ wire[a] # <<>> /\ wire' = [wire EXCEPT ![a] = Tail(@)]
      /\ UNCHANGED <<serviceVars, serverVars, logger, history>>
  BY DEF Recv, RecvCancel, RecvJob
<1>2. wire[a] \in Seq(Message) /\ Head(wire[a]) \in Message /\ Tail(wire[a]) \in Seq(Message)
  BY <1>1 DEF Types, OwnTypes
<1>3. Head(wire[a]).job \in JobId
  BY <1>2 DEF Message
<1>4. wire' \in [AgentId -> Seq(Message)]
  BY <1>1, <1>2 DEF Types, OwnTypes
<1>5. /\ exec' \in [Slot -> Execution \cup {Free}]
      /\ active' \in [AgentId -> [JobId -> Slot \cup {NoSlot}]]
  <2>1. CASE RecvCancel(a)
    <3>1. PICK t : exec' = [s \in Slot |-> IF s = t THEN [exec[s] EXCEPT !.killed = TRUE]
                                                     ELSE exec[s]]
      BY <2>1 DEF RecvCancel
    <3>2. ASSUME NEW s \in Slot
          PROVE  [exec[s] EXCEPT !.killed = TRUE] \in Execution \cup {Free}
      <4>1. CASE exec[s] = Free
        <5>1. [Free EXCEPT !.killed = TRUE] = Free
          BY DEF Free
        <5> QED
          BY <4>1, <5>1
      <4>2. CASE exec[s] # Free
        BY <4>2, ExecTypes DEF Types
      <4> QED
        BY <4>1, <4>2
    <3>3. exec' \in [Slot -> Execution \cup {Free}]
      BY <3>1, <3>2 DEF Types, OwnTypes
    <3> QED
      BY <2>1, <3>3 DEF RecvCancel, Types, OwnTypes
  <2>2. ASSUME NEW s \in SlotsOf(a), RecvJob(a, s)
        PROVE  /\ exec' \in [Slot -> Execution \cup {Free}]
               /\ active' \in [AgentId -> [JobId -> Slot \cup {NoSlot}]]
    <3>1. PICK j \in JobId : j = Head(wire[a]).job
      BY <1>3
    <3>2. /\ exec' = [exec EXCEPT ![s] = [pc |-> "init", job |-> j,
                                          killed |-> FALSE, failed |-> FALSE]]
          /\ active' = [active EXCEPT ![a][j] = s]
      BY <2>2, <3>1 DEF RecvJob
    <3>3. [pc |-> "init", job |-> j, killed |-> FALSE, failed |-> FALSE] \in Execution
      BY DEF Execution
    <3>4. s \in Slot
      BY DEF SlotsOf
    <3> QED
      BY <3>2, <3>3, <3>4 DEF Types, OwnTypes
  <2> QED
    BY <2>1, <2>2 DEF Recv
<1>6. OwnTypes'
  BY <1>1, <1>4, <1>5 DEF Types, OwnTypes, serverVars, history
<1> QED
  BY <1>1, <1>6 DEF ServiceStep, PlainStep, Forgets, serviceVars

LEMMA ReturnTypes ==
    ASSUME OwnTypes, NEW s \in Slot, exec[s] # Free, Return(s)
    PROVE  /\ exec' \in [Slot -> Execution \cup {Free}]
           /\ active' \in [AgentId -> [JobId -> Slot \cup {NoSlot}]]
<1>1. exec[s].job \in JobId /\ s[1] \in AgentId
  BY ExecTypes, Goroutines
<1> QED
  BY <1>1 DEF OwnTypes, Return

LEMMA InitTypes ==
    ASSUME Types, NEW s \in Slot, Init(s) \/ InitGoesOn(s) \/ InitFails(s)
    PROVE  ServiceStep /\ OwnTypes'
<1>0. s \in Proc
  BY Goroutines
<1>1. /\ exec[s] # Free /\ exec[s].job \in JobId
      /\ \A pc \in {"initing", "run"} : [exec[s] EXCEPT !.pc = pc] \in Execution
  BY ExecTypes, Elsewhere DEF Types, Init, InitGoesOn, InitFails
<1>2. CASE Init(s)
  <2>1. OwnTypes'
    BY <1>1, <1>2 DEF Init, Types, OwnTypes, serverVars, history
  <2>2. Copies(s)
    BY <1>0, <1>1, <1>2, StatusCopies DEF Init, Types, TypeInv, Status
  <2> QED
    BY <1>2, <1>0, <2>1, <2>2 DEF ServiceStep, CopyStep
<1>3. CASE InitGoesOn(s)
  <2>1. OwnTypes'
    BY <1>1, <1>3 DEF InitGoesOn, Types, OwnTypes, serverVars, history
  <2> QED
    BY <1>0, <1>3, <2>1 DEF InitGoesOn, ServiceStep, PlainStep, Continue
<1>4. CASE InitFails(s)
  <2>1. OwnTypes'
    BY <1>1, <1>4, FaultTypes, ReturnTypes DEF InitFails, Types, OwnTypes, serverVars
  <2>2. SaveFails(s) \/ Forgets
    BY <1>4 DEF InitFails, Forgets, serviceVars
  <2> QED
    BY <1>0, <2>1, <2>2 DEF ServiceStep, PlainStep, Continue
<1> QED
  BY <1>2, <1>3, <1>4

LEMMA ContainerTypes ==
    ASSUME Types, NEW s \in Slot,
           (\E failed \in BOOLEAN : ContainerExits(s, failed)) \/ JobCtxDone(s)
    PROVE  ServiceStep /\ OwnTypes'
<1>1. /\ exec[s] # Free /\ exec[s].job \in JobId
      /\ \A f \in BOOLEAN : [exec[s] EXCEPT !.pc = "report", !.failed = f] \in Execution
  BY ExecTypes, Elsewhere DEF Types, ContainerExits, JobCtxDone
<1>2. ASSUME NEW failed \in BOOLEAN, ContainerExits(s, failed)
      PROVE  OwnTypes'
  BY <1>1, <1>2 DEF ContainerExits, Types, OwnTypes, serverVars
<1>3. ASSUME JobCtxDone(s)
      PROVE  OwnTypes'
  BY <1>1, <1>3 DEF JobCtxDone, Types, OwnTypes, serverVars
<1>4. Forgets
  BY DEF ContainerExits, JobCtxDone, Forgets, serviceVars
<1> QED
  BY <1>2, <1>3, <1>4 DEF ServiceStep, PlainStep

LEMMA DoneTypes ==
    ASSUME Types, NEW s \in Slot,
           Done(s) \/ DoneGoesOn(s) \/ DoneFails(s) \/ DoneRejected(s) \/ OrphanGoesOn(s)
    PROVE  ServiceStep /\ OwnTypes'
<1>0. s \in Proc
  BY Goroutines
<1>1. ASSUME exec[s].pc \in {"report", "reporting"}
      PROVE  /\ exec[s] # Free /\ exec[s].job \in JobId
             /\ [exec[s] EXCEPT !.pc = "reporting"] \in Execution
  BY <1>1, ExecTypes, Elsewhere DEF Types
<1>2. CASE Done(s)
  <2>1. OwnTypes'
    BY <1>1, <1>2 DEF Done, Types, OwnTypes, serverVars, history
  <2>2. Copies(s)
    <3>1. PICK st \in Status : UpdateJobStatus(s, exec[s].job, st)
      BY <1>2 DEF Done, Status
    <3> QED
      BY <1>0, <1>1, <1>2, <3>1, StatusCopies DEF Done, Types, TypeInv
  <2> QED
    BY <1>2, <1>0, <2>1, <2>2 DEF ServiceStep, CopyStep
<1>3. CASE DoneGoesOn(s)
  <2>1. OwnTypes'
    BY <1>1, <1>3, ReturnTypes DEF DoneGoesOn, Untrack, Types, OwnTypes, history
  <2> QED
    BY <1>0, <1>3, <2>1 DEF DoneGoesOn, ServiceStep, PlainStep, Continue
<1>4. CASE DoneFails(s)
  <2>1. OwnTypes'
    BY <1>1, <1>4, FaultTypes, ReturnTypes DEF DoneFails, Types, OwnTypes, serverVars
  <2>2. SaveFails(s) \/ Forgets
    BY <1>4 DEF DoneFails, Forgets, serviceVars
  <2> QED
    BY <1>0, <2>1, <2>2 DEF ServiceStep, PlainStep, Continue
<1>5. CASE DoneRejected(s)
  <2>1. OwnTypes'
    BY <1>1, <1>5, ReturnTypes DEF DoneRejected, Types, OwnTypes, serverVars, history
  <2> QED
    BY <1>5, <2>1 DEF DoneRejected, ServiceStep, PlainStep, Forgets, serviceVars
<1>6. CASE OrphanGoesOn(s)
  <2>1. OwnTypes'
    BY <1>6 DEF OrphanGoesOn, Types, OwnTypes, dispatchVars, serverVars, agentVars, history
  <2> QED
    BY <1>0, <1>6, <2>1 DEF OrphanGoesOn, ServiceStep, PlainStep, Continue
<1> QED
  BY <1>2, <1>3, <1>4, <1>5, <1>6

LEMMA ReadOutputTypes ==
    ASSUME Types, NEW s \in Slot, ReadOutput(s)
    PROVE  ServiceStep /\ OwnTypes'
<1>0. Logger(s) \in Proc
  BY Goroutines
<1>1. CASE Log(s)
  <2>1. logger[s] \in JobId
    BY <1>1 DEF Log, Types, OwnTypes
  <2>2. Copies(Logger(s))
    BY <1>0, <1>1, <2>1, LogCopies DEF Log, Types, TypeInv
  <2>3. OwnTypes'
    BY <1>1 DEF Log, Types, OwnTypes, dispatchVars, serverVars, agentVars, history
  <2> QED
    BY <1>1, <1>0, <2>2, <2>3 DEF ServiceStep, CopyStep
<1>2. CASE LogGoesOn(s)
  <2>1. OwnTypes'
    BY <1>2 DEF LogGoesOn, Types, OwnTypes, dispatchVars, serverVars, agentVars, history
  <2> QED
    BY <1>0, <1>2, <2>1 DEF LogGoesOn, ServiceStep, PlainStep, Continue
<1>3. CASE LogFails(s)
  <2>1. OwnTypes'
    BY <1>3, FaultTypes DEF LogFails, Types, OwnTypes, serverVars, agentVars
  <2> QED
    BY <1>0, <1>3, <2>1 DEF LogFails, ServiceStep, PlainStep, Continue
<1>4. CASE LoggerStops(s)
  <2>1. OwnTypes'
    BY <1>4 DEF LoggerStops, Types, OwnTypes, serverVars, history
  <2> QED
    BY <1>4, <2>1 DEF LoggerStops, ServiceStep, PlainStep, Forgets, serviceVars
<1> QED
  BY <1>1, <1>2, <1>3, <1>4 DEF ReadOutput

\* What the end of a session leaves of the executions of the agents ended.
LEMMA SessionEndsTypes ==
    ASSUME OwnTypes, NEW ended, NEW waiting, SessionEnds(ended, waiting)
    PROVE  /\ exec' \in [Slot -> Execution \cup {Free}]
           /\ active' \in [AgentId -> [JobId -> Slot \cup {NoSlot}]]
           /\ logger' = logger
<1>1. ASSUME NEW s \in Slot
      PROVE  exec'[s] \in {Free, exec[s]} \cup
                          (IF exec[s] # Free THEN {[exec[s] EXCEPT !.killed = TRUE]} ELSE {})
  <2>1. exec[s].pc = "run" => exec[s] # Free
    BY Elsewhere
  <2> QED
    BY <2>1 DEF SessionEnds
<1>2. ASSUME NEW s \in Slot
      PROVE  exec'[s] \in Execution \cup {Free}
  BY <1>1, ExecTypes DEF OwnTypes
<1>3. exec' = [s \in Slot |-> exec'[s]]
  BY DEF SessionEnds
<1>4. exec' \in [Slot -> Execution \cup {Free}]
  BY <1>2, <1>3
<1>5. active' \in [AgentId -> [JobId -> Slot \cup {NoSlot}]]
  BY DEF OwnTypes, SessionEnds
<1> QED
  BY <1>4, <1>5 DEF SessionEnds

LEMMA SignalsLost ==
    ASSUME NEW as, LoseSignals(as)
    PROVE  Forgets
BY DEF LoseSignals, Unsubscribed, Forgets

LEMMA LinkTypes ==
    ASSUME Types, NEW a \in AgentId,
           Break(a) \/ AgentNotices(a) \/ ServerNotices(a) \/ AgentCrash(a) \/ Connect(a)
    PROVE  ServiceStep /\ OwnTypes'
<1>1. CASE Break(a)
  <2>1. /\ link' \in [AgentId -> LinkState] /\ wire' \in [AgentId -> Seq(Message)]
        /\ exec' \in [Slot -> Execution \cup {Free}]
        /\ active' \in [AgentId -> [JobId -> Slot \cup {NoSlot}]]
        /\ logger' = logger
    <3>1. <<>> \in Seq(Message)
      OBVIOUS
    <3>2. wire' \in [AgentId -> Seq(Message)]
      BY <1>1, <3>1 DEF Break, Types, OwnTypes
    <3>3. link' \in [AgentId -> LinkState]
      BY <1>1 DEF Break, Types, OwnTypes, LinkState
    <3>4. CASE UNCHANGED agentVars
      BY <3>2, <3>3, <3>4 DEF Types, OwnTypes, agentVars
    <3>5. CASE SessionEnds({a}, {})
      BY <3>2, <3>3, <3>5, SessionEndsTypes DEF Types
    <3> QED
      BY <1>1, <3>4, <3>5 DEF Break
  <2>2. OwnTypes'
    BY <1>1, <2>1, FaultTypes DEF Break, Types, OwnTypes, LinkState
  <2>3. Forgets
    BY <1>1, SignalsLost DEF Break, Forgets, serviceVars
  <2> QED
    BY <2>2, <2>3 DEF ServiceStep, PlainStep
<1>2. CASE AgentNotices(a)
  <2>1. OwnTypes'
    BY <1>2, SessionEndsTypes DEF AgentNotices, Types, OwnTypes, history, LinkState
  <2> QED
    BY <1>2, <2>1 DEF AgentNotices, ServiceStep, PlainStep, Forgets, serviceVars
<1>3. CASE ServerNotices(a)
  <2>1. OwnTypes'
    BY <1>3 DEF ServerNotices, Types, OwnTypes, agentVars, history, LinkState
  <2> QED
    BY <1>3, <2>1, SignalsLost DEF ServerNotices, ServiceStep, PlainStep
<1>4. CASE AgentCrash(a)
  <2>1. (IF ServerEnd(a) THEN "server" ELSE "down") \in LinkState
    BY DEF LinkState
  <2>2. link' \in [AgentId -> LinkState]
    BY <1>4, <2>1 DEF AgentCrash, Types, OwnTypes
  <2>3. <<>> \in Seq(Message)
    OBVIOUS
  <2>4. wire' \in [AgentId -> Seq(Message)]
    BY <1>4, <2>3 DEF AgentCrash, Types, OwnTypes
  <2>5. /\ exec' \in [Slot -> Execution \cup {Free}]
        /\ logger' \in [Slot -> JobId \cup {NoJob}]
        /\ active' \in [AgentId -> [JobId -> Slot \cup {NoSlot}]]
    BY <1>4 DEF AgentCrash, Types, OwnTypes
  <2>6. OwnTypes'
    BY <1>4, <2>2, <2>4, <2>5, FaultTypes DEF AgentCrash, Types, OwnTypes
  <2> QED
    BY <1>4, <2>6 DEF AgentCrash, ServiceStep, PlainStep, Forgets, serviceVars
<1>5. CASE Connect(a)
  <2>1. OwnTypes'
    BY <1>5 DEF Connect, Types, OwnTypes, agentVars, history, LinkState
  <2> QED
    BY <1>5, <2>1 DEF Connect, ServiceStep, PlainStep, Forgets, serviceVars
<1> QED
  BY <1>1, <1>2, <1>3, <1>4, <1>5

LEMMA RestartTypes ==
    ASSUME Types, ServerRestart
    PROVE  ServiceStep /\ OwnTypes'
<1>1. <<>> \in Seq(Message)
  OBVIOUS
<1>2. OwnTypes'
  BY <1>1, FaultTypes, SessionEndsTypes DEF ServerRestart, Types, OwnTypes, LinkState
<1> QED
  BY <1>2 DEF ServerRestart, ServiceStep, PlainStep, Forgets

LEMMA TypesInit == DispatchInit => Types
<1> SUFFICES ASSUME DispatchInit PROVE Types
  OBVIOUS
<1>1. TypeInv
  BY DEF DispatchInit, ServiceInit, TypeInv, TypeOK, Signals
<1>2. <<>> \in Seq(Message)
  OBVIOUS
<1>3. OwnTypes
  BY <1>2, DispatchAssumption DEF DispatchInit, OwnTypes, LinkState
<1> QED
  BY <1>1, <1>3 DEF Types

LEMMA StepTypes ==
    ASSUME Types, DispatchNext
    PROVE  ServiceStep /\ OwnTypes'
<1>1. ASSUME NEW a \in AgentId, StreamJobs(a)
      PROVE  ServiceStep /\ OwnTypes'
  BY <1>1, PollTypes, AssignTypes, SendTypes DEF StreamJobs
<1>2. ASSUME NEW s \in Slot, ExecuteJob(s)
      PROVE  ServiceStep /\ OwnTypes'
  BY <1>2, InitTypes, ContainerTypes, DoneTypes DEF ExecuteJob
<1> QED
  BY <1>1, <1>2, HandleTypes, RecvTypes, ReadOutputTypes, LinkTypes, RestartTypes
  DEF DispatchNext

LEMMA TypesStep ==
    ASSUME Types, [DispatchNext]_vars
    PROVE  Types'
<1>1. CASE DispatchNext
  BY <1>1, StepTypes, ServiceTypes DEF Types
<1>2. CASE UNCHANGED vars
  <2>1. TypeInv'
    BY <1>2 DEF vars, serviceVars, Types, TypeInv, TypeOK, Signals
  <2>2. OwnTypes'
    BY <1>2 DEF vars, dispatchVars, serverVars, agentVars, history, Types, OwnTypes
  <2> QED
    BY <2>1, <2>2 DEF Types
<1> QED
  BY <1>1, <1>2

LEMMA TypesHold == DispatchSpec => []Types
<1> QED
  BY TypesInit, TypesStep, PTL DEF DispatchSpec

\* Every variable of the server and its agents keeps its type, for any
\* clients, agents, slots, jobs and faults.
THEOREM DispatchTypes == DispatchSpec => []DispatchTypeOK
<1>1. Types => DispatchTypeOK
  BY DEF Types, TypeInv, OwnTypes, LinkState, DispatchTypeOK
<1> QED
  BY <1>1, TypesHold, PTL

-----------------------------------------------------------------------------
(***************************************************************************)
(* Success.  A row that says success, stored or in a call's hands, was     *)
(* copied from one that said so or made by the Done of an execution whose  *)
(* container ended without an error.                                       *)
(***************************************************************************)
Backed(j, r) == r.status = "success" => j \in earned

RowsBacked ==
    /\ \A j \in JobId : Exists(j) => Backed(j, jobs[j])
    /\ \A p \in Proc : call[p] # Idle => Backed(call[p].job, call[p].row)

ReportsBacked ==
    \A s \in Slot : exec[s].pc \in {"report", "reporting"} /\ ~exec[s].failed
                       => exec[s].job \in earned

EarnedInv == RowsBacked /\ ReportsBacked

LEMMA GetJobBacked ==
    ASSUME Types, RowsBacked, earned \subseteq earned',
           NEW p \in Proc, NEW j \in JobId, NEW op, NEW row, GetJob(p, op, j, row),
           row.status = "success" => j \in earned
    PROVE  RowsBacked'
<1> DEFINE c == [pc |-> "save", op |-> op, job |-> j, row |-> row]
<1>1. jobs' = jobs /\ call' = [call EXCEPT ![p] = c]
  BY DEF GetJob, Start
<1>2. call'[p] = c /\ \A q \in Proc \ {p} : call'[q] = call[q]
  BY <1>1 DEF Types, TypeInv, TypeOK
<1>3. c.job = j /\ c.row = row
  OBVIOUS
<1> HIDE DEF c
<1> QED
  BY <1>1, <1>2, <1>3 DEF RowsBacked, Backed

LEMMA PlainBacked ==
    ASSUME Types, RowsBacked, earned \subseteq earned', PlainStep
    PROVE  RowsBacked'
<1>1. ASSUME NEW p \in Proc, NEW j \in JobId, CreateJob(p, j)
      PROVE  RowsBacked'
  <2>1. NewRow.status # "success"
    BY DEF NewRow
  <2>2. /\ jobs'[j] = NewRow /\ \A i \in JobId \ {j} : jobs'[i] = jobs[i]
        /\ call'[p].job = j /\ call'[p].row = NewRow
        /\ \A q \in Proc \ {p} : call'[q] = call[q]
    BY <1>1 DEF CreateJob, Start, Types, TypeInv, TypeOK
  <2> QED
    BY <2>1, <2>2 DEF RowsBacked, Backed
<1>2. ASSUME NEW p \in Proc, NEW j \in JobId, CancelJob(p, j) \/ RetryJob(p, j)
      PROVE  RowsBacked'
  <2>1. jobs[j] \in Row
    BY <1>2 DEF CancelJob, RetryJob, GetJob, Types, TypeInv, TypeOK
  <2>2. [jobs[j] EXCEPT !.status = "cancelled", !.cancelled = TRUE].status # "success"
    BY <2>1 DEF Row
  <2>3. [jobs[j] EXCEPT !.status = "pending", !.cancelled = FALSE,
                        !.retryCount = @ + 1, !.progress = 0].status # "success"
    BY <2>1 DEF Row
  <2> QED
    BY <1>2, <2>2, <2>3, GetJobBacked DEF CancelJob, RetryJob
<1>3. ASSUME NEW p \in Proc, Continue(p)
      PROVE  RowsBacked'
  <2>1. /\ call[p] \in Call /\ call[p] # Idle /\ call[p].job \in JobId
        /\ Backed(call[p].job, call[p].row)
    BY <1>3 DEF Continue, Save, SaveFails, Enqueue, EnqueueFails, PublishJobUpdate,
       PublishCancel, Types, TypeInv, TypeOK, Call, RowsBacked
  <2>2. /\ \A q \in Proc \ {p} : call'[q] = call[q]
        /\ call'[p] \in {Idle, AfterSave(call[p]), AfterPublish(call[p])}
    BY <1>3 DEF Continue, Save, SaveFails, Enqueue, EnqueueFails, PublishJobUpdate,
       PublishCancel, Types, TypeInv, TypeOK
  <2>3. call'[p] # Idle => call'[p].job = call[p].job /\ call'[p].row = call[p].row
    BY <2>1, <2>2 DEF AfterSave, AfterPublish, Call
  <2>4. \A j \in JobId : \/ jobs'[j] = jobs[j]
                         \/ j = call[p].job /\ jobs'[j] = call[p].row
    <3>1. CASE Save(p)
      <4>1. jobs' = [jobs EXCEPT ![call[p].job] = call[p].row]
        BY <3>1 DEF Save
      <4> QED
        BY <2>1, <4>1 DEF Types, TypeInv, TypeOK
    <3>2. CASE UNCHANGED jobs
      BY <3>2
    <3> QED
      BY <1>3, <3>1, <3>2 DEF Continue, SaveFails, Enqueue, EnqueueFails,
         PublishJobUpdate, PublishCancel
  <2> QED
    BY <2>1, <2>2, <2>3, <2>4 DEF RowsBacked, Backed
<1>4. ASSUME NEW j \in JobId, GetNextJob(j)
      PROVE  RowsBacked'
  BY <1>4 DEF GetNextJob, RowsBacked, Backed
<1>5. CASE Forgets
  BY <1>5 DEF Forgets, RowsBacked, Backed
<1> QED
  BY <1>1, <1>2, <1>3, <1>4, <1>5 DEF PlainStep, Request

LEMMA CopyBacked ==
    ASSUME Types, EarnedInv, CopyStep
    PROVE  RowsBacked'
<1>1. ASSUME NEW p \in Proc, NEW j \in JobId, NEW op \in Op, NEW row,
             GetJob(p, op, j, row), row.status = "success" => j \in earned, earned' = earned
      PROVE  RowsBacked'
  BY <1>1, GetJobBacked DEF EarnedInv
<1>2. ASSUME NEW j \in JobId, Exists(j)
      PROVE  jobs[j] \in Row /\ Backed(j, jobs[j])
  BY <1>2 DEF Types, TypeInv, TypeOK, EarnedInv, RowsBacked
<1>3. ASSUME NEW a \in AgentId, Assign(a)
      PROVE  RowsBacked'
  <2>1. a \in Proc /\ stream[a].job \in JobId /\ earned' = earned
    BY <1>3, Goroutines, StreamTypes, Elsewhere DEF Assign, Types, history
  <2>2. PICK j \in JobId : j = stream[a].job
    BY <2>1
  <2>3. GetJob(a, "assign", j, [jobs[j] EXCEPT !.agent = a, !.status = "running"])
    BY <1>3, <2>2 DEF Assign, AssignJob
  <2>4. [jobs[j] EXCEPT !.agent = a, !.status = "running"].status # "success"
    BY <1>2, <2>3 DEF GetJob, Row
  <2> QED
    BY <1>1, <2>1, <2>3, <2>4 DEF Op
<1>4. ASSUME NEW p \in Proc, NEW j \in JobId, NEW st \in Status, UpdateJobStatus(p, j, st),
             st = "success" => j \in earned, earned' = earned
      PROVE  RowsBacked'
  <2>1. GetJob(p, "status", j, [jobs[j] EXCEPT !.status = st])
    BY <1>4 DEF UpdateJobStatus
  <2>2. [jobs[j] EXCEPT !.status = st].status = st
    BY <1>2, <2>1 DEF GetJob, Row
  <2> QED
    BY <1>1, <1>4, <2>1, <2>2 DEF Op
<1>5. ASSUME NEW a \in AgentId, SendFails(a)
      PROVE  RowsBacked'
  <2>1. a \in Proc /\ stream[a].job \in JobId
    BY <1>5, Goroutines, StreamTypes, Elsewhere DEF SendFails, Types
  <2> QED
    BY <1>4, <1>5, <2>1 DEF SendFails, history, Status
<1>6. ASSUME NEW s \in Slot, Init(s) \/ Done(s)
      PROVE  RowsBacked'
  <2>1. s \in Proc /\ exec[s].job \in JobId
    BY <1>6, Goroutines, ExecTypes, Elsewhere DEF Init, Done, Types
  <2>2. PICK st \in Status :
            UpdateJobStatus(s, exec[s].job, st) /\ (st = "success" => exec[s].job \in earned)
    <3>1. CASE Init(s)
      BY <3>1 DEF Init, Status
    <3>2. CASE Done(s) /\ exec[s].failed
      BY <3>2 DEF Done, Status
    <3>3. CASE Done(s) /\ ~exec[s].failed
      BY <3>3 DEF Done, Status, EarnedInv, ReportsBacked
    <3> QED
      BY <1>6, <3>1, <3>2, <3>3
  <2> QED
    BY <1>4, <1>6, <2>1, <2>2 DEF Init, Done, history
<1>7. ASSUME NEW s \in Slot, Log(s)
      PROVE  RowsBacked'
  <2>1. Logger(s) \in Proc /\ logger[s] \in JobId /\ earned' = earned
    BY <1>7, Goroutines DEF Log, Types, OwnTypes, dispatchVars, history
  <2>2. PICK j \in JobId : j = logger[s]
    BY <2>1
  <2>3. GetJob(Logger(s), "log", j,
           [jobs[j] EXCEPT !.logs = @ + 1, !.progress = IF FALSE THEN 1 ELSE @])
    BY <1>7, <2>2 DEF Log, ProcessLog
  <2>4. \A n, q : [jobs[j] EXCEPT !.logs = n, !.progress = q].status = jobs[j].status
    BY <1>2, <2>3 DEF GetJob, Row
  <2>5. [jobs[j] EXCEPT !.logs = @ + 1, !.progress = IF FALSE THEN 1 ELSE @].status
           = jobs[j].status
    BY <2>4
  <2> QED
    BY <1>1, <1>2, <2>1, <2>3, <2>5 DEF Op, GetJob, Backed
<1> QED
  BY <1>3, <1>5, <1>6, <1>7 DEF CopyStep

\* What a step can make of an execution: it is killed or ends, it is the one
\* whose own action was taken, or it stays.
LEMMA ExecMoves ==
    ASSUME Types, DispatchNext, NEW s \in Slot
    PROVE  \/ exec'[s] \in {exec[s], Free}
           \/ exec[s] # Free /\ exec'[s] = [exec[s] EXCEPT !.killed = TRUE]
           \/ Init(s) \/ InitGoesOn(s) \/ Done(s) \/ JobCtxDone(s)
           \/ \E failed \in BOOLEAN : ContainerExits(s, failed)
           \/ RecvJob(s[1], s)
<1> DEFINE Goal == \/ exec'[s] \in {exec[s], Free}
                   \/ exec[s] # Free /\ exec'[s] = [exec[s] EXCEPT !.killed = TRUE]
                   \/ Init(s) \/ InitGoesOn(s) \/ Done(s) \/ JobCtxDone(s)
                   \/ \E failed \in BOOLEAN : ContainerExits(s, failed)
                   \/ RecvJob(s[1], s)
<1>1. ASSUME exec' = exec
      PROVE  Goal
  BY <1>1
<1>2. ASSUME NEW t \in Slot, Return(t)
      PROVE  Goal
  BY <1>2 DEF Return, Types, OwnTypes
<1>3. ASSUME NEW ended, NEW waiting, SessionEnds(ended, waiting)
      PROVE  Goal
  <2>1. exec[s].pc = "run" => exec[s] # Free
    BY Elsewhere
  <2> QED
    BY <1>3, <2>1 DEF SessionEnds
<1>4. ASSUME NEW p \in Client, Handle(p) \/ HandleFails(p)
      PROVE  Goal
  BY <1>1, <1>4 DEF Handle, HandleFails, dispatchVars, agentVars
<1>5. ASSUME NEW a \in AgentId, StreamJobs(a) \/ Connect(a)
      PROVE  Goal
  BY <1>1, <1>5 DEF StreamJobs, Poll, PollLoses, ForwardCancel, Assign, AssignGoesOn,
     AssignFails, Send, SendFails, RevertGoesOn, RevertFails, Connect, agentVars
<1>6. ASSUME NEW a \in AgentId, Break(a) \/ AgentNotices(a) \/ ServerNotices(a)
      PROVE  Goal
  BY <1>1, <1>3, <1>6 DEF Break, AgentNotices, ServerNotices, agentVars
<1>7. ASSUME NEW a \in AgentId, AgentCrash(a)
      PROVE  Goal
  BY <1>7 DEF AgentCrash
<1>8. ASSUME ServerRestart
      PROVE  Goal
  BY <1>3, <1>8 DEF ServerRestart
<1>9. ASSUME NEW a \in AgentId, RecvCancel(a)
      PROVE  Goal
  <2>1. PICK t : exec' = [u \in Slot |-> IF u = t THEN [exec[u] EXCEPT !.killed = TRUE]
                                                   ELSE exec[u]]
    BY <1>9 DEF RecvCancel
  <2>2. [Free EXCEPT !.killed = TRUE] = Free
    BY DEF Free
  <2> QED
    BY <2>1, <2>2
<1>10. ASSUME NEW a \in AgentId, NEW t \in SlotsOf(a), RecvJob(a, t)
       PROVE  Goal
  <2>1. t \in Slot /\ t[1] = a
    BY DEF SlotsOf
  <2>2. CASE t = s
    BY <1>10, <2>1, <2>2
  <2>3. CASE t # s
    BY <1>10, <2>1, <2>3 DEF RecvJob, Types, OwnTypes
  <2> QED
    BY <2>2, <2>3
<1>11. ASSUME NEW t \in Slot, Init(t) \/ InitGoesOn(t) \/ Done(t) \/ JobCtxDone(t)
       PROVE  Goal
  <2>1. t # s => exec'[s] = exec[s]
    BY <1>11 DEF Init, InitGoesOn, Done, JobCtxDone, Types, OwnTypes
  <2> QED
    BY <1>11, <2>1
<1>12. ASSUME NEW t \in Slot, NEW failed \in BOOLEAN, ContainerExits(t, failed)
       PROVE  Goal
  <2>1. t # s => exec'[s] = exec[s]
    BY <1>12 DEF ContainerExits, Types, OwnTypes
  <2> QED
    BY <1>12, <2>1
<1>13. ASSUME NEW t \in Slot,
              InitFails(t) \/ DoneGoesOn(t) \/ DoneFails(t) \/ DoneRejected(t)
       PROVE  Goal
  BY <1>1, <1>2, <1>13 DEF InitFails, DoneGoesOn, DoneFails, DoneRejected
<1>14. ASSUME NEW t \in Slot, OrphanGoesOn(t) \/ ReadOutput(t)
       PROVE  Goal
  BY <1>1, <1>14 DEF OrphanGoesOn, ReadOutput, Log, LogGoesOn, LogFails, LoggerStops,
     dispatchVars, agentVars
<1> HIDE DEF Goal
<1>15. ASSUME NEW t \in Slot, ExecuteJob(t)
       PROVE  Goal
  BY <1>11, <1>12, <1>13, <1>14, <1>15 DEF ExecuteJob
<1>16. Goal
  BY <1>4, <1>5, <1>6, <1>7, <1>8, <1>9, <1>10, <1>14, <1>15 DEF DispatchNext, Recv
<1> QED
  BY <1>16 DEF Goal

\* What was earned stays so.
LEMMA EarnedGrows ==
    ASSUME DispatchNext
    PROVE  earned \subseteq earned'
<1>1. ASSUME NEW a \in AgentId, StreamJobs(a)
      PROVE  earned' = earned
  BY <1>1 DEF StreamJobs, Poll, PollLoses, ForwardCancel, Assign, AssignGoesOn, AssignFails,
     FaultOn, Send, SendFails, RevertGoesOn, RevertFails, Fault, history
<1>2. ASSUME NEW a \in AgentId,
             Recv(a) \/ Connect(a) \/ Break(a) \/ AgentNotices(a) \/ ServerNotices(a) \/ AgentCrash(a)
      PROVE  earned' = earned
  BY <1>2 DEF Recv, RecvCancel, RecvJob, Connect, Break, AgentNotices, ServerNotices,
     AgentCrash, Fault, history
<1>3. ASSUME NEW p \in Client, Handle(p) \/ HandleFails(p)
      PROVE  earned' = earned
  BY <1>3 DEF Handle, HandleFails, dispatchVars, Fault, history
<1>4. ASSUME NEW s \in Slot, ExecuteJob(s)
      PROVE  earned \subseteq earned'
  BY <1>4 DEF ExecuteJob, Init, InitGoesOn, InitFails, ContainerExits, JobCtxDone, Done,
     DoneGoesOn, DoneFails, DoneRejected, OrphanGoesOn, dispatchVars, Fault, history
<1>5. ASSUME NEW s \in Slot, ReadOutput(s)
      PROVE  earned' = earned
  BY <1>5 DEF ReadOutput, Log, LogGoesOn, LogFails, LoggerStops, dispatchVars, Fault, history
<1>6. ServerRestart => earned' = earned
  BY DEF ServerRestart, Fault
<1> QED
  BY <1>1, <1>2, <1>3, <1>4, <1>5, <1>6 DEF DispatchNext

LEMMA EarnedStep ==
    ASSUME Types, EarnedInv, [DispatchNext]_vars
    PROVE  EarnedInv'
<1>1. CASE UNCHANGED vars
  BY <1>1 DEF vars, serviceVars, dispatchVars, agentVars, history, EarnedInv, RowsBacked,
     Backed, ReportsBacked
<1>2. CASE DispatchNext
  <2>1. earned \subseteq earned'
    BY <1>2, EarnedGrows
  <2>2. RowsBacked'
    BY <1>2, <2>1, StepTypes, PlainBacked, CopyBacked DEF ServiceStep, EarnedInv
  <2>3. ASSUME NEW s \in Slot, exec'[s].pc \in {"report", "reporting"}, ~exec'[s].failed
        PROVE  exec'[s].job \in earned'
    <3> DEFINE Was == /\ exec[s].pc \in {"report", "reporting"} /\ ~exec[s].failed
                      /\ exec'[s].job = exec[s].job
    <3>1. ASSUME exec[s] # Free
          PROVE  exec[s] \in Execution
      BY <3>1 DEF Types, OwnTypes
    <3>2. CASE exec'[s] \in {exec[s], Free}
      BY <2>1, <2>3, <3>2, Elsewhere DEF EarnedInv, ReportsBacked
    <3>3. CASE exec[s] # Free /\ exec'[s] = [exec[s] EXCEPT !.killed = TRUE]
      <4>1. Was
        BY <2>3, <3>1, <3>3 DEF Execution
      <4> QED
        BY <2>1, <4>1 DEF EarnedInv, ReportsBacked
    <3>4. CASE Init(s) \/ InitGoesOn(s)
      <4>1. /\ exec[s] # Free
            /\ exec'[s].pc \in {"init", "initing", "run"}
        BY <3>1, <3>4, Elsewhere DEF Init, InitGoesOn, Types, OwnTypes, Execution
      <4> QED
        BY <2>3, <4>1
    <3>5. CASE Done(s)
      <4>1. exec[s].pc = "report" /\ exec'[s] = [exec[s] EXCEPT !.pc = "reporting"]
        BY <3>5 DEF Done, Types, OwnTypes
      <4>2. Was
        BY <2>3, <3>1, <4>1, Elsewhere DEF Execution
      <4> QED
        BY <2>1, <4>2 DEF EarnedInv, ReportsBacked
    <3>6. CASE JobCtxDone(s)
      <4>1. exec[s].pc = "run" /\ exec'[s] = [exec[s] EXCEPT !.pc = "report", !.failed = TRUE]
        BY <3>6 DEF JobCtxDone, Types, OwnTypes
      <4> QED
        BY <2>3, <3>1, <4>1, Elsewhere DEF Execution
    <3>7. ASSUME NEW failed \in BOOLEAN, ContainerExits(s, failed)
          PROVE  exec'[s].job \in earned'
      <4>1. /\ exec[s].pc = "run"
            /\ exec'[s] = [exec[s] EXCEPT !.pc = "report", !.failed = failed]
            /\ ~failed => earned' = earned \cup {exec[s].job}
        BY <3>7 DEF ContainerExits, Types, OwnTypes
      <4> QED
        BY <2>3, <3>1, <4>1, Elsewhere DEF Execution
    <3>8. CASE RecvJob(s[1], s)
      <4>1. exec'[s].pc = "init"
        BY <3>8 DEF RecvJob, Types, OwnTypes
      <4> QED
        BY <2>3, <4>1
    <3> QED
      BY <1>2, <3>2, <3>3, <3>4, <3>5, <3>6, <3>7, <3>8, ExecMoves
  <2> QED
    BY <2>2, <2>3 DEF EarnedInv, ReportsBacked
<1> QED
  BY <1>1, <1>2

LEMMA EarnedHolds == DispatchSpec => []EarnedInv
<1>1. DispatchInit => EarnedInv
  BY Elsewhere DEF DispatchInit, ServiceInit, EarnedInv, RowsBacked, ReportsBacked
<1> QED
  BY <1>1, EarnedStep, TypesHold, PTL DEF DispatchSpec

\* Success is stored only for a job with a container that ended without an
\* error, whatever stale row a late log line or a cancel saves, and also
\* after crashes, restarts and retries.
THEOREM SuccessIsEarned == DispatchSpec => []SuccessEarned
<1>1. EarnedInv => SuccessEarned
  BY DEF EarnedInv, RowsBacked, Backed, SuccessEarned, WorkingOn
<1> QED
  BY <1>1, EarnedHolds, PTL

-----------------------------------------------------------------------------
(***************************************************************************)
(* Where the entries of the queue go.  Held(j) adds to Places(j) the       *)
(* handlers that set the status back after a failed Send: they have the    *)
(* job no longer, but are the reason that nobody else has it.              *)
(***************************************************************************)
JobMessage(j) == [cancel |-> FALSE, job |-> j]

Held(j) ==
    {<<"stream", a>> : a \in {b \in AgentId : stream[b] # Looping /\ stream[b].job = j}}
    \cup (UNION {{<<"wire", a, i>> : i \in {n \in DOMAIN wire[a] : wire[a][n] = JobMessage(j)}}
                 : a \in AgentId})
    \cup {<<"slot", s>> : s \in {t \in Slot : exec[t] # Free /\ exec[t].job = j}}

InStream(x, j) == \E a \in AgentId : /\ x = <<"stream", a>>
                                     /\ stream[a] # Looping /\ stream[a].job = j
InWire(x, j) == \E a \in AgentId : \E i \in DOMAIN wire[a] :
                    x = <<"wire", a, i>> /\ wire[a][i] = JobMessage(j)
InSlot(x, j) == \E s \in Slot : /\ x = <<"slot", s>>
                                /\ exec[s] # Free /\ exec[s].job = j

LEMMA HeldIs ==
    ASSUME NEW j, NEW x
    PROVE  x \in Held(j) <=> InStream(x, j) \/ InWire(x, j) \/ InSlot(x, j)
<1> DEFINE W(a) == {<<"wire", a, i>> : i \in {n \in DOMAIN wire[a] : wire[a][n] = JobMessage(j)}}
           WS == UNION {W(a) : a \in AgentId}
           SS == {<<"stream", a>> : a \in {b \in AgentId : stream[b] # Looping /\ stream[b].job = j}}
           ES == {<<"slot", s>> : s \in {t \in Slot : exec[t] # Free /\ exec[t].job = j}}
<1>1. x \in WS <=> InWire(x, j)
  <2>1. x \in WS <=> \E a \in AgentId : x \in W(a)
    OBVIOUS
  <2>2. ASSUME NEW a \in AgentId
        PROVE  x \in W(a) <=> \E i \in DOMAIN wire[a] : /\ x = <<"wire", a, i>>
                                                        /\ wire[a][i] = JobMessage(j)
    OBVIOUS
  <2> HIDE DEF W, WS
  <2> QED
    BY <2>1, <2>2 DEF InWire
<1>2. x \in SS <=> InStream(x, j)
  BY DEF InStream
<1>3. x \in ES <=> InSlot(x, j)
  BY DEF InSlot
<1>4. Held(j) = SS \cup WS \cup ES
  BY DEF Held
<1> HIDE DEF SS, WS, ES
<1> QED
  BY <1>1, <1>2, <1>3, <1>4

LEMMA HeldIsNext ==
    ASSUME NEW j, NEW x
    PROVE  x \in Held(j)' <=> \/ \E a \in AgentId : /\ x = <<"stream", a>>
                                                    /\ stream'[a] # Looping /\ stream'[a].job = j
                              \/ \E a \in AgentId : \E i \in DOMAIN wire'[a] :
                                    x = <<"wire", a, i>> /\ wire'[a][i] = JobMessage(j)
                              \/ \E s \in Slot : /\ x = <<"slot", s>>
                                                 /\ exec'[s] # Free /\ exec'[s].job = j
<1>1. (x \in Held(j) <=> InStream(x, j) \/ InWire(x, j) \/ InSlot(x, j))'
  BY HeldIs, PTL
<1> QED
  BY <1>1 DEF InStream, InWire, InSlot

StreamKeeps(a) == stream'[a] = Looping \/ (stream[a] # Looping /\ stream'[a].job = stream[a].job)
WireKeeps(a) == \A i \in DOMAIN wire'[a] :
                   wire'[a][i].cancel \/ (i \in DOMAIN wire[a] /\ wire'[a][i] = wire[a][i])
SlotKeeps(s) == exec'[s] = Free \/ (exec[s] # Free /\ exec'[s].job = exec[s].job)

LEMMA SlotMoves ==
    ASSUME Types, DispatchNext, NEW s \in Slot
    PROVE  SlotKeeps(s) \/ RecvJob(s[1], s)
<1>1. ASSUME exec[s] # Free
      PROVE  exec[s] \in Execution
  BY <1>1 DEF Types, OwnTypes
<1>2. CASE exec'[s] \in {exec[s], Free}
  BY <1>2 DEF SlotKeeps
<1>3. CASE exec[s] # Free /\ exec'[s] = [exec[s] EXCEPT !.killed = TRUE]
  BY <1>1, <1>3 DEF SlotKeeps, Execution
<1>4. CASE Init(s) \/ InitGoesOn(s) \/ Done(s) \/ JobCtxDone(s)
  <2>1. exec[s] # Free
    BY <1>4, Elsewhere DEF Init, InitGoesOn, Done, JobCtxDone
  <2>2. exec'[s] \in {exec[s], [exec[s] EXCEPT !.pc = "initing"],
                     [exec[s] EXCEPT !.pc = "run"], [exec[s] EXCEPT !.pc = "reporting"],
                     [exec[s] EXCEPT !.pc = "report", !.failed = TRUE]}
    BY <1>4 DEF Init, InitGoesOn, Done, JobCtxDone, Types, OwnTypes
  <2> QED
    BY <1>1, <2>1, <2>2 DEF SlotKeeps, Execution
<1>5. ASSUME NEW failed \in BOOLEAN, ContainerExits(s, failed)
      PROVE  SlotKeeps(s)
  <2>1. exec[s] # Free /\ exec'[s] = [exec[s] EXCEPT !.pc = "report", !.failed = failed]
    BY <1>5, Elsewhere DEF ContainerExits, Types, OwnTypes
  <2> QED
    BY <1>1, <2>1 DEF SlotKeeps, Execution
<1> QED
  BY <1>2, <1>3, <1>4, <1>5, ExecMoves

LEMMA StreamMoves ==
    ASSUME Types, DispatchNext, NEW a \in AgentId
    PROVE  StreamKeeps(a) \/ \E j \in JobId : Poll(a, j)
<1>1. ASSUME stream' = stream
      PROVE  StreamKeeps(a)
  BY <1>1 DEF StreamKeeps
<1>2. ASSUME NEW b \in AgentId, b # a, NEW to, StreamGoes(b, to)
      PROVE  StreamKeeps(a)
  BY <1>2 DEF StreamKeeps, StreamGoes, Types, OwnTypes
<1>3. ASSUME NEW b \in AgentId, StreamGoes(b, Looping)
      PROVE  StreamKeeps(a)
  BY <1>3 DEF StreamKeeps, StreamGoes, Types, OwnTypes
<1>4. ASSUME NEW b \in AgentId, NEW pc, stream[b] # Looping,
             StreamGoes(b, [stream[b] EXCEPT !.pc = pc])
      PROVE  StreamKeeps(a)
  <2>1. stream[b] \in StreamAt
    BY <1>4 DEF Types, OwnTypes
  <2> QED
    BY <1>4, <2>1 DEF StreamKeeps, StreamGoes, Types, OwnTypes, StreamAt
<1>5. ASSUME NEW b \in AgentId, StreamJobs(b)
      PROVE  StreamKeeps(a) \/ \E j \in JobId : Poll(a, j)
  <2>1. ASSUME NEW j \in JobId, Poll(b, j)
        PROVE  StreamKeeps(a) \/ \E i \in JobId : Poll(a, i)
    BY <1>2, <2>1 DEF Poll
  <2>2. ASSUME NEW j \in JobId, PollLoses(b, j) \/ ForwardCancel(b, j)
        PROVE  StreamKeeps(a)
    BY <1>1, <2>2 DEF PollLoses, ForwardCancel, serverVars
  <2>3. CASE Assign(b) \/ SendFails(b)
    BY <1>4, <2>3, Elsewhere DEF Assign, SendFails
  <2>4. CASE AssignGoesOn(b)
    <3>1. PICK pc : StreamGoes(b, [stream[b] EXCEPT !.pc = pc])
      BY <2>4 DEF AssignGoesOn
    <3> QED
      BY <1>4, <2>4, <3>1, Elsewhere DEF AssignGoesOn
  <2>5. CASE AssignFails(b) \/ Send(b) \/ RevertGoesOn(b) \/ RevertFails(b)
    BY <1>1, <1>3, <2>5 DEF AssignFails, Send, RevertGoesOn, RevertFails, HandlerReturns
  <2> QED
    BY <1>5, <2>1, <2>2, <2>3, <2>4, <2>5 DEF StreamJobs
<1>6. ASSUME NEW b \in AgentId,
             Recv(b) \/ Connect(b) \/ Break(b) \/ AgentNotices(b) \/ ServerNotices(b) \/ AgentCrash(b)
      PROVE  stream' = stream
  BY <1>6 DEF Recv, RecvCancel, RecvJob, Connect, Break, AgentNotices, ServerNotices,
     AgentCrash, serverVars
<1>7. ASSUME NEW p \in Client, Handle(p) \/ HandleFails(p)
      PROVE  stream' = stream
  BY <1>7 DEF Handle, HandleFails, dispatchVars, serverVars
<1>8. ASSUME NEW s \in Slot, ExecuteJob(s)
      PROVE  stream' = stream
  BY <1>8 DEF ExecuteJob, Init, InitGoesOn, InitFails, ContainerExits, JobCtxDone, Done,
     DoneGoesOn, DoneFails, DoneRejected, OrphanGoesOn, dispatchVars, serverVars
<1>9. ASSUME NEW s \in Slot, ReadOutput(s)
      PROVE  stream' = stream
  BY <1>9 DEF ReadOutput, Log, LogGoesOn, LogFails, LoggerStops, dispatchVars, serverVars
<1>10. CASE ServerRestart
  BY <1>10 DEF ServerRestart, StreamKeeps
<1> QED
  BY <1>1, <1>5, <1>6, <1>7, <1>8, <1>9, <1>10 DEF DispatchNext

LEMMA WireMoves ==
    ASSUME Types, DispatchNext, NEW a \in AgentId
    PROVE  WireKeeps(a) \/ Send(a) \/ Recv(a)
<1>1. ASSUME wire'[a] = wire[a]
      PROVE  WireKeeps(a)
  BY <1>1 DEF WireKeeps
<1>2. ASSUME wire'[a] = <<>>
      PROVE  WireKeeps(a)
  BY <1>2 DEF WireKeeps
<1>3. ASSUME NEW b \in AgentId, NEW m \in Message, Transmit(b, m), m.cancel \/ b # a
      PROVE  WireKeeps(a)
  <2>1. wire[a] \in Seq(Message)
    BY DEF Types, OwnTypes
  <2>2. CASE b = a /\ link[a] = "up"
    <3>1. wire'[a] = Append(wire[a], m)
      BY <1>3, <2>2 DEF Transmit, Types, OwnTypes
    <3>2. /\ DOMAIN wire'[a] = 1 .. Len(wire[a]) + 1
          /\ \A i \in 1 .. Len(wire[a]) : wire'[a][i] = wire[a][i]
          /\ wire'[a][Len(wire[a]) + 1] = m
      BY <2>1, <3>1
    <3>3. DOMAIN wire[a] = 1 .. Len(wire[a]) /\ Len(wire[a]) \in Nat
      BY <2>1
    <3>4. \A i \in 1 .. Len(wire[a]) + 1 : i \in 1 .. Len(wire[a]) \/ i = Len(wire[a]) + 1
      BY <3>3
    <3> QED
      BY <1>3, <2>2, <3>2, <3>3, <3>4 DEF WireKeeps
  <2>3. CASE ~(b = a /\ link[a] = "up")
    <3>1. wire'[a] = wire[a]
      BY <1>3, <2>3 DEF Transmit, Types, OwnTypes
    <3> QED
      BY <1>1, <3>1
  <2> QED
    BY <2>2, <2>3
<1>4. ASSUME NEW b \in AgentId, StreamJobs(b)
      PROVE  WireKeeps(a) \/ Send(a)
  <2>1. ASSUME NEW j \in JobId, ForwardCancel(b, j)
        PROVE  WireKeeps(a)
    <3>1. [cancel |-> TRUE, job |-> j] \in Message /\ [cancel |-> TRUE, job |-> j].cancel
      BY DEF Message
    <3> QED
      BY <1>1, <1>3, <2>1, <3>1 DEF ForwardCancel
  <2>2. CASE Send(b)
    <3>1. stream[b].job \in JobId
      BY <2>2, StreamTypes, Elsewhere DEF Send, Types
    <3>2. [cancel |-> FALSE, job |-> stream[b].job] \in Message
      BY <3>1 DEF Message
    <3> QED
      BY <1>3, <2>2, <3>2 DEF Send
  <2>3. ASSUME UNCHANGED wire
        PROVE  WireKeeps(a)
    BY <1>1, <2>3
  <2> QED
    BY <1>4, <2>1, <2>2, <2>3 DEF StreamJobs, Poll, PollLoses, Assign, AssignGoesOn,
       AssignFails, SendFails, RevertGoesOn, RevertFails
<1>5. ASSUME NEW b \in AgentId, Recv(b)
      PROVE  WireKeeps(a) \/ Recv(a)
  <2>1. b # a => wire'[a] = wire[a]
    BY <1>5 DEF Recv, RecvCancel, RecvJob, Types, OwnTypes
  <2> QED
    BY <1>1, <1>5, <2>1
<1>6. ASSUME NEW b \in AgentId,
             Connect(b) \/ Break(b) \/ AgentNotices(b) \/ ServerNotices(b) \/ AgentCrash(b)
      PROVE  WireKeeps(a)
  <2>1. wire'[a] \in {wire[a], <<>>}
    BY <1>6 DEF Connect, Break, AgentNotices, ServerNotices, AgentCrash, Types, OwnTypes
  <2> QED
    BY <1>1, <1>2, <2>1
<1>7. ASSUME NEW p \in Client, Handle(p) \/ HandleFails(p)
      PROVE  wire' = wire
  BY <1>7 DEF Handle, HandleFails, dispatchVars
<1>8. ASSUME NEW s \in Slot, ExecuteJob(s)
      PROVE  wire' = wire
  BY <1>8 DEF ExecuteJob, Init, InitGoesOn, InitFails, ContainerExits, JobCtxDone, Done,
     DoneGoesOn, DoneFails, DoneRejected, OrphanGoesOn, dispatchVars
<1>9. ASSUME NEW s \in Slot, ReadOutput(s)
      PROVE  wire' = wire
  BY <1>9 DEF ReadOutput, Log, LogGoesOn, LogFails, LoggerStops, dispatchVars
<1>10. CASE ServerRestart
  BY <1>2, <1>10 DEF ServerRestart
<1> QED
  BY <1>1, <1>4, <1>5, <1>6, <1>7, <1>8, <1>9, <1>10 DEF DispatchNext

HoldInv ==
    \A j \in JobId : /\ IsFiniteSet(Held(j))
                     /\ queue[j] + Cardinality(Held(j)) <= enqueued[j]

\* The queue never grows by more than what was put into it.
LEMMA QueueMoves ==
    ASSUME Types, DispatchNext, NEW j \in JobId
    PROVE  /\ queue[j] \in Nat /\ queue'[j] \in Nat
           /\ enqueued[j] \in Nat /\ enqueued'[j] \in Nat
           /\ queue'[j] + enqueued[j] <= queue[j] + enqueued'[j]
<1>1. /\ queue[j] \in Nat /\ queue'[j] \in Nat
      /\ enqueued[j] \in Nat /\ enqueued'[j] \in Nat
  BY TypesStep DEF Types, TypeInv, TypeOK
<1>2. CASE UNCHANGED <<queue, enqueued>>
  BY <1>1, <1>2
<1>3. ASSUME NEW p \in Proc, Enqueue(p)
      PROVE  queue'[j] + enqueued[j] <= queue[j] + enqueued'[j]
  <2>1. \/ queue'[j] = queue[j] /\ enqueued'[j] = enqueued[j]
        \/ queue'[j] = queue[j] + 1 /\ enqueued'[j] = enqueued[j] + 1
    BY <1>3 DEF Enqueue, Types, TypeInv, TypeOK
  <2> QED
    BY <1>1, <2>1
<1>4. ASSUME NEW i \in JobId, GetNextJob(i)
      PROVE  queue'[j] + enqueued[j] <= queue[j] + enqueued'[j]
  <2>1. enqueued' = enqueued /\ queue'[j] <= queue[j]
    BY <1>1, <1>4 DEF GetNextJob, Types, TypeInv, TypeOK
  <2> QED
    BY <1>1, <2>1
<1>5. ASSUME NEW p \in Proc, Continue(p)
      PROVE  Enqueue(p) \/ UNCHANGED <<queue, enqueued>>
  BY <1>5 DEF Continue, Save, SaveFails, EnqueueFails, PublishJobUpdate, PublishCancel
<1>6. ASSUME NEW p \in Proc, (\E i \in JobId : Request(p, i)) \/ Copies(p)
      PROVE  UNCHANGED <<queue, enqueued>>
  BY <1>6 DEF Request, CreateJob, CancelJob, RetryJob, Copies, GetJob
<1>7. ServiceStep
  BY StepTypes
<1> QED
  BY <1>1, <1>2, <1>3, <1>4, <1>5, <1>6, <1>7 DEF ServiceStep, PlainStep, Forgets

\* Ways in which places may change: none is added, one is exchanged for
\* another, or they are renamed.
LEMMA FewerHeld ==
    ASSUME NEW S, NEW T, IsFiniteSet(S), T \subseteq S
    PROVE  IsFiniteSet(T) /\ Cardinality(T) <= Cardinality(S)
BY FS_Subset

LEMMA OneMoreHeld ==
    ASSUME NEW S, NEW T, NEW x, IsFiniteSet(S), T \subseteq S \cup {x}
    PROVE  IsFiniteSet(T) /\ Cardinality(T) <= Cardinality(S) + 1
<1>1. /\ IsFiniteSet(S \cup {x}) /\ Cardinality(S) \in Nat
      /\ Cardinality(S \cup {x}) \in Nat /\ Cardinality(S \cup {x}) <= Cardinality(S) + 1
  BY FS_AddElement, FS_CardinalityType
<1>2. IsFiniteSet(T) /\ Cardinality(T) <= Cardinality(S \cup {x}) /\ Cardinality(T) \in Nat
  BY <1>1, FewerHeld, FS_CardinalityType
<1> QED
  BY <1>1, <1>2

LEMMA ExchangedHeld ==
    ASSUME NEW S, NEW T, NEW x, NEW y, IsFiniteSet(S), x \in S, T \subseteq (S \ {x}) \cup {y}
    PROVE  IsFiniteSet(T) /\ Cardinality(T) <= Cardinality(S)
<1>1. /\ IsFiniteSet(S \ {x}) /\ Cardinality(S) \in Nat
      /\ Cardinality(S \ {x}) = Cardinality(S) - 1
  BY FS_RemoveElement, FS_CardinalityType
<1>2. IsFiniteSet(T) /\ Cardinality(T) <= Cardinality(S \ {x}) + 1
  BY <1>1, OneMoreHeld
<1> QED
  BY <1>1, <1>2

\* If handlers, wires and slots keep what they have, no place is new.
LEMMA KeptHeld ==
    ASSUME NEW j \in JobId, NEW x, x \in Held(j)',
           \A a \in AgentId : x = <<"stream", a>> => StreamKeeps(a),
           \A a \in AgentId : \A i : x = <<"wire", a, i>> => WireKeeps(a),
           \A s \in Slot : x = <<"slot", s>> => SlotKeeps(s)
    PROVE  x \in Held(j)
<1>1. ASSUME NEW a \in AgentId, x = <<"stream", a>>, stream'[a] # Looping, stream'[a].job = j
      PROVE  x \in Held(j)
  <2>1. InStream(x, j)
    BY <1>1 DEF StreamKeeps, InStream
  <2> QED
    BY <2>1, HeldIs
<1>2. ASSUME NEW a \in AgentId, NEW i \in DOMAIN wire'[a], x = <<"wire", a, i>>,
             wire'[a][i] = JobMessage(j)
      PROVE  x \in Held(j)
  <2>1. ~wire'[a][i].cancel
    BY <1>2 DEF JobMessage
  <2>2. InWire(x, j)
    BY <1>2, <2>1 DEF WireKeeps, InWire
  <2> QED
    BY <2>2, HeldIs
<1>3. ASSUME NEW s \in Slot, x = <<"slot", s>>, exec'[s] # Free, exec'[s].job = j
      PROVE  x \in Held(j)
  <2>1. InSlot(x, j)
    BY <1>3 DEF SlotKeeps, InSlot
  <2> QED
    BY <2>1, HeldIs
<1> QED
  BY <1>1, <1>2, <1>3, HeldIsNext

LEMMA PollHeld ==
    ASSUME Types, NEW a \in AgentId, NEW i \in JobId, Poll(a, i), NEW j \in JobId
    PROVE  /\ i # j => Held(j)' \subseteq Held(j)
           /\ Held(j)' \subseteq Held(j) \cup {<<"stream", a>>}
<1>1. /\ wire' = wire /\ exec' = exec
      /\ \A b \in AgentId \ {a} : stream'[b] = stream[b]
      /\ stream'[a].job = i
  BY DEF Poll, StreamGoes, agentVars, Types, OwnTypes
<1>2. ASSUME NEW x \in Held(j)', x # <<"stream", a>> \/ i # j
      PROVE  x \in Held(j)
  <2>1. ASSUME NEW b \in AgentId, x = <<"stream", b>>
        PROVE  StreamKeeps(b)
    <3>1. b # a
      <4>1. ASSUME b = a
            PROVE  i = j
        BY <1>1, <2>1, <4>1, HeldIsNext
      <4> QED
        BY <1>2, <2>1, <4>1
    <3> QED
      BY <1>1, <3>1 DEF StreamKeeps
  <2>2. \A b \in AgentId : WireKeeps(b)
    BY <1>1 DEF WireKeeps
  <2>3. \A s \in Slot : SlotKeeps(s)
    BY <1>1 DEF SlotKeeps
  <2> QED
    BY <2>1, <2>2, <2>3, KeptHeld
<1> QED
  BY <1>2

LEMMA SendHeld ==
    ASSUME Types, NEW a \in AgentId, Send(a), NEW j \in JobId, IsFiniteSet(Held(j))
    PROVE  IsFiniteSet(Held(j)') /\ Cardinality(Held(j)') <= Cardinality(Held(j))
<1>1. /\ stream[a] # Looping /\ stream[a].job \in JobId
      /\ stream'[a] = Looping /\ \A b \in AgentId \ {a} : stream'[b] = stream[b]
      /\ exec' = exec
  BY StreamTypes, Elsewhere DEF Send, StreamGoes, agentVars, Types, OwnTypes
<1> DEFINE n == Len(wire[a]) + 1
           y == <<"wire", a, n>>
<1>2. PICK i \in JobId : i = stream[a].job
  BY <1>1
<1>3. /\ \A b \in AgentId \ {a} : wire'[b] = wire[b]
      /\ wire'[a] \in {wire[a], Append(wire[a], JobMessage(i))}
  BY <1>2 DEF Send, Transmit, Types, OwnTypes, JobMessage
<1>4. wire[a] \in Seq(Message) /\ JobMessage(i) \in Message
  BY DEF Types, OwnTypes, JobMessage, Message
<1>5. ASSUME NEW k \in DOMAIN wire'[a], k # n
      PROVE  k \in DOMAIN wire[a] /\ wire'[a][k] = wire[a][k]
  <2>1. CASE wire'[a] = wire[a]
    BY <1>5, <2>1
  <2>2. CASE wire'[a] = Append(wire[a], JobMessage(i))
    <3>1. /\ DOMAIN wire'[a] = 1 .. n
          /\ DOMAIN wire[a] = 1 .. Len(wire[a]) /\ Len(wire[a]) \in Nat
          /\ \A m \in 1 .. Len(wire[a]) : wire'[a][m] = wire[a][m]
      BY <1>4, <2>2
    <3>2. k \in 1 .. Len(wire[a])
      BY <1>5, <3>1
    <3> QED
      BY <3>1, <3>2
  <2> QED
    BY <1>3, <2>1, <2>2
<1>6. ASSUME i # j, n \in DOMAIN wire'[a], wire'[a][n] = JobMessage(j)
      PROVE  n \in DOMAIN wire[a] /\ wire'[a][n] = wire[a][n]
  <2>1. JobMessage(i) # JobMessage(j)
    BY <1>6 DEF JobMessage
  <2>2. CASE wire'[a] = wire[a]
    BY <1>6, <2>2
  <2>3. CASE wire'[a] = Append(wire[a], JobMessage(i))
    <3>1. wire'[a][n] = JobMessage(i)
      BY <1>4, <2>3
    <3> QED
      BY <1>6, <2>1, <3>1
  <2> QED
    BY <1>3, <2>2, <2>3
<1> HIDE DEF n
<1>7. ASSUME NEW x \in Held(j)', x # y \/ i # j
      PROVE  x \in Held(j)
  <2>1. CASE \E b \in AgentId : /\ x = <<"stream", b>>
                                /\ stream'[b] # Looping /\ stream'[b].job = j
    <3>1. InStream(x, j)
      BY <1>1, <2>1 DEF InStream
    <3> QED
      BY <3>1, HeldIs
  <2>2. ASSUME NEW b \in AgentId, NEW k \in DOMAIN wire'[b], x = <<"wire", b, k>>,
               wire'[b][k] = JobMessage(j)
        PROVE  x \in Held(j)
    <3>1. k \in DOMAIN wire[b] /\ wire'[b][k] = wire[b][k]
      BY <1>3, <1>5, <1>6, <1>7, <2>2
    <3>2. InWire(x, j)
      BY <2>2, <3>1 DEF InWire
    <3> QED
      BY <3>2, HeldIs
  <2>3. CASE \E s \in Slot : /\ x = <<"slot", s>>
                             /\ exec'[s] # Free /\ exec'[s].job = j
    <3>1. InSlot(x, j)
      BY <1>1, <2>3 DEF InSlot
    <3> QED
      BY <3>1, HeldIs
  <2> QED
    BY <2>1, <2>2, <2>3, HeldIsNext
<1>8. CASE i # j
  BY <1>7, <1>8, FewerHeld
<1>9. CASE i = j
  <2>1. <<"stream", a>> \in Held(j)
    <3>1. InStream(<<"stream", a>>, j)
      BY <1>1, <1>2, <1>9 DEF InStream
    <3> QED
      BY <3>1, HeldIs
  <2>2. <<"stream", a>> \notin Held(j)'
    BY <1>1, HeldIsNext
  <2>3. Held(j)' \subseteq (Held(j) \ {<<"stream", a>>}) \cup {y}
    BY <1>7, <2>2
  <2> QED
    BY <2>1, <2>3, ExchangedHeld
<1> QED
  BY <1>8, <1>9

\* What is received leaves the wire, and what is behind it moves up.
LEMMA ShiftedHeld ==
    ASSUME Types, NEW a \in AgentId, NEW j \in JobId, IsFiniteSet(Held(j)), NEW N, NEW u,
           wire[a] # <<>>, wire' = [wire EXCEPT ![a] = Tail(@)], stream' = stream,
           N \in {{}, {<<"slot", u>>}},
           N # {} /\ <<"slot", u>> \in Held(j)' => Head(wire[a]) = JobMessage(j),
           \A s \in Slot : <<"slot", s>> \notin N => SlotKeeps(s)
    PROVE  IsFiniteSet(Held(j)') /\ Cardinality(Held(j)') <= Cardinality(Held(j))
<1> DEFINE w(k) == <<"wire", a, k>>
           Shifts(x) == \E k \in Nat \ {0} : x = w(k)
           g(x) == IF Shifts(x) THEN w((CHOOSE k \in Nat \ {0} : x = w(k)) + 1)
                   ELSE IF x \in N THEN w(1) ELSE x
           f == [x \in Held(j)' |-> g(x)]
<1>1. ASSUME NEW k \in DOMAIN wire'[a]
      PROVE  k \in Nat \ {0} /\ k + 1 \in DOMAIN wire[a] /\ wire'[a][k] = wire[a][k + 1]
  <2>1. wire[a] \in Seq(Message) /\ wire'[a] = Tail(wire[a])
    BY DEF Types, OwnTypes
  <2>2. DOMAIN wire[a] = 1 .. Len(wire[a]) /\ Len(wire[a]) \in Nat
    BY <2>1
  <2>3. PICK t : t = Tail(wire[a])
    OBVIOUS
  <2>4. /\ t \in Seq(Message) /\ Len(t) = Len(wire[a]) - 1
        /\ \A i \in 1 .. Len(t) : t[i] = wire[a][i + 1]
    BY <2>1, <2>3, HeadTailProperties
  <2>5. wire'[a] = t /\ DOMAIN t = 1 .. Len(t)
    BY <2>1, <2>3, <2>4
  <2> QED
    BY <2>2, <2>4, <2>5
<1>2. 1 \in DOMAIN wire[a] /\ wire[a][1] = Head(wire[a])
  <2>1. wire[a] \in Seq(Message)
    BY DEF Types, OwnTypes
  <2>2. Len(wire[a]) \in Nat \ {0} /\ DOMAIN wire[a] = 1 .. Len(wire[a])
    BY <2>1
  <2> QED
    BY <2>1, <2>2
<1>3. ASSUME NEW x \in Held(j)', Shifts(x)
      PROVE  \E k \in Nat \ {0} : x = w(k) /\ g(x) = w(k + 1) /\ w(k + 1) \in Held(j)
  <2>1. PICK k \in Nat \ {0} : x = w(k)
    BY <1>3
  <2>2. (CHOOSE i \in Nat \ {0} : x = w(i)) = k
    BY <2>1
  <2>3. g(x) = w(k + 1)
    BY <1>3, <2>2
  <2>4. k \in DOMAIN wire'[a] /\ wire'[a][k] = JobMessage(j)
    BY <2>1, HeldIsNext
  <2>5. InWire(w(k + 1), j)
    BY <1>1, <2>4 DEF InWire
  <2> QED
    BY <2>1, <2>3, <2>5, HeldIs
<1>4. ASSUME NEW x \in Held(j)', ~Shifts(x), x \in N
      PROVE  g(x) = w(1) /\ w(1) \in Held(j)
  <2>1. InWire(w(1), j)
    BY <1>2, <1>4 DEF InWire
  <2> QED
    BY <1>4, <2>1, HeldIs
<1>5. ASSUME NEW x \in Held(j)', ~Shifts(x), x \notin N
      PROVE  g(x) = x /\ x \in Held(j)
  <2>1. \A b \in AgentId : StreamKeeps(b)
    BY DEF StreamKeeps
  <2>2. ASSUME NEW b \in AgentId, NEW i, x = <<"wire", b, i>>
        PROVE  WireKeeps(b)
    <3>1. CASE b = a
      <4>1. i \in DOMAIN wire'[a]
        BY <2>2, <3>1, HeldIsNext
      <4> QED
        BY <1>1, <1>5, <2>2, <3>1, <4>1
    <3>2. CASE b # a
      <4>1. wire'[b] = wire[b]
        BY <3>2 DEF Types, OwnTypes
      <4> QED
        BY <4>1 DEF WireKeeps
    <3> QED
      BY <3>1, <3>2
  <2>3. \A s \in Slot : x = <<"slot", s>> => SlotKeeps(s)
    BY <1>5
  <2>4. x \in Held(j)
    BY <2>1, <2>2, <2>3, KeptHeld
  <2> QED
    BY <1>5, <2>4
<1>6. \A i, k : w(i) = w(k) => i = k
  OBVIOUS
<1>7. \A x, y \in N : x = y
  OBVIOUS
<1> HIDE DEF g, w
<1>8. f \in [Held(j)' -> Held(j)]
  BY <1>3, <1>4, <1>5
<1>9. ASSUME NEW x \in Held(j)', NEW y \in Held(j)', g(x) = g(y)
      PROVE  x = y
  <2>1. CASE Shifts(x) /\ Shifts(y)
    <3>1. PICK i \in Nat \ {0} : x = w(i) /\ g(x) = w(i + 1)
      BY <1>3, <2>1
    <3>2. PICK k \in Nat \ {0} : y = w(k) /\ g(y) = w(k + 1)
      BY <1>3, <2>1
    <3>3. i + 1 = k + 1
      BY <1>6, <1>9, <3>1, <3>2
    <3> QED
      BY <3>1, <3>2, <3>3
  <2>2. ASSUME NEW z \in Held(j)', NEW t \in Held(j)', Shifts(z), ~Shifts(t)
        PROVE  g(z) # g(t)
    <3>1. PICK k \in Nat \ {0} : g(z) = w(k + 1)
      BY <1>3, <2>2
    <3>2. CASE t \in N
      <4>1. g(t) = w(1) /\ k + 1 # 1
        BY <1>4, <2>2, <3>2
      <4> QED
        BY <1>6, <3>1, <4>1
    <3>3. CASE t \notin N
      <4>1. g(t) = t /\ k + 1 \in Nat \ {0}
        BY <1>5, <2>2, <3>3
      <4> QED
        BY <2>2, <3>1, <4>1
    <3> QED
      BY <3>2, <3>3
  <2>3. ASSUME NEW z \in Held(j)', NEW t \in Held(j)', ~Shifts(z), ~Shifts(t), z \in N, t \notin N
        PROVE  g(z) # g(t)
    <3>1. g(z) = w(1) /\ g(t) = t /\ 1 \in Nat \ {0}
      BY <1>4, <1>5, <2>3
    <3> QED
      BY <2>3, <3>1
  <2>4. CASE ~Shifts(x) /\ ~Shifts(y) /\ x \in N /\ y \in N
    BY <1>7, <2>4
  <2>5. CASE ~Shifts(x) /\ ~Shifts(y) /\ x \notin N /\ y \notin N
    BY <1>5, <1>9, <2>5
  <2> QED
    BY <1>9, <2>1, <2>2, <2>3, <2>4, <2>5
<1>10. f \in Injection(Held(j)', Held(j))
  BY <1>8, <1>9 DEF Injection, IsInjective
<1> HIDE DEF f
<1> QED
  BY <1>10, FS_Injection

LEMMA RecvHeld ==
    ASSUME Types, DispatchNext, NEW a \in AgentId, Recv(a), NEW j \in JobId,
           IsFiniteSet(Held(j))
    PROVE  IsFiniteSet(Held(j)') /\ Cardinality(Held(j)') <= Cardinality(Held(j))
<1>1. /\ wire[a] # <<>> /\ wire' = [wire EXCEPT ![a] = Tail(@)] /\ stream' = stream
  BY DEF Recv, RecvCancel, RecvJob, serverVars
<1>2. CASE RecvCancel(a)
  <2>1. ASSUME NEW s \in Slot
        PROVE  SlotKeeps(s)
    <3>1. exec'[s] \in {exec[s], [exec[s] EXCEPT !.killed = TRUE]}
      BY <1>2 DEF RecvCancel
    <3>2. CASE exec[s] = Free
      <4>1. exec'[s] = Free
        BY <3>1, <3>2 DEF Free
      <4> QED
        BY <4>1 DEF SlotKeeps
    <3>3. CASE exec[s] # Free
      <4>1. exec[s] \in Execution
        BY <3>3, ExecTypes DEF Types
      <4>2. [exec[s] EXCEPT !.killed = TRUE].job = exec[s].job
        BY <4>1 DEF Execution
      <4>3. exec'[s].job = exec[s].job
        BY <3>1, <4>2
      <4> QED
        BY <3>3, <4>3 DEF SlotKeeps
    <3> QED
      BY <3>2, <3>3
  <2>2. PICK N : N = {}
    OBVIOUS
  <2> QED
    BY <1>1, <2>1, <2>2, ShiftedHeld
<1>3. ASSUME NEW s \in SlotsOf(a), RecvJob(a, s)
      PROVE  IsFiniteSet(Held(j)') /\ Cardinality(Held(j)') <= Cardinality(Held(j))
  <2>1. PICK N : N = {<<"slot", s>>}
    OBVIOUS
  <2>2. ASSUME NEW t \in Slot, <<"slot", t>> \notin N
        PROVE  SlotKeeps(t)
    <3>1. t # s /\ s \in Slot
      BY <2>1, <2>2 DEF SlotsOf
    <3>2. exec'[t] = exec[t]
      BY <1>3, <3>1 DEF RecvJob, Types, OwnTypes
    <3> QED
      BY <3>2 DEF SlotKeeps
  <2>3. ASSUME <<"slot", s>> \in Held(j)'
        PROVE  Head(wire[a]) = JobMessage(j)
    <3>1. exec'[s].job = j
      BY <2>3, HeldIsNext
    <3>2. s \in Slot
      BY DEF SlotsOf
    <3>3. exec'[s].job = Head(wire[a]).job /\ ~Head(wire[a]).cancel
      BY <1>3, <3>2 DEF RecvJob, Types, OwnTypes
    <3>4. Head(wire[a]) \in Message
      BY <1>1 DEF Types, OwnTypes
    <3> QED
      BY <3>1, <3>3, <3>4 DEF Message, JobMessage
  <2> QED
    BY <1>1, <2>1, <2>2, <2>3, ShiftedHeld
<1> QED
  BY <1>2, <1>3 DEF Recv

LEMMA HoldInit == DispatchInit => HoldInv
<1> SUFFICES ASSUME DispatchInit, NEW j \in JobId
             PROVE  IsFiniteSet(Held(j)) /\ queue[j] + Cardinality(Held(j)) <= enqueued[j]
  BY DEF HoldInv
<1>1. Held(j) = {}
  <2>1. ASSUME NEW x \in Held(j)
        PROVE  FALSE
    <3>1. CASE InStream(x, j)
      BY <3>1 DEF InStream, DispatchInit
    <3>2. CASE InWire(x, j)
      BY <3>2 DEF InWire, DispatchInit
    <3>3. CASE InSlot(x, j)
      BY <3>3 DEF InSlot, DispatchInit
    <3> QED
      BY <3>1, <3>2, <3>3, HeldIs
  <2> QED
    BY <2>1
<1>2. queue[j] = 0 /\ enqueued[j] = 0
  BY DEF DispatchInit, ServiceInit
<1> QED
  BY <1>1, <1>2, FS_EmptySet

LEMMA HoldStep ==
    ASSUME Types, HoldInv, DispatchNext
    PROVE  HoldInv'
<1> SUFFICES ASSUME NEW j \in JobId
             PROVE  IsFiniteSet(Held(j)') /\ queue'[j] + Cardinality(Held(j)') <= enqueued'[j]
  BY DEF HoldInv
<1>1. IsFiniteSet(Held(j)) /\ Cardinality(Held(j)) \in Nat
      /\ queue[j] + Cardinality(Held(j)) <= enqueued[j]
  BY FS_CardinalityType DEF HoldInv
<1>2. ASSUME IsFiniteSet(Held(j)'), Cardinality(Held(j)') <= Cardinality(Held(j))
      PROVE  queue'[j] + Cardinality(Held(j)') <= enqueued'[j]
  <2>1. Cardinality(Held(j)') \in Nat
    BY <1>2, FS_CardinalityType
  <2> QED
    BY <1>1, <1>2, <2>1, QueueMoves
<1>3. CASE \E a \in AgentId, i \in JobId : Poll(a, i)
  <2>1. PICK a \in AgentId, i \in JobId : Poll(a, i)
    BY <1>3
  <2>2. CASE i # j
    BY <1>1, <1>2, <2>1, <2>2, PollHeld, FewerHeld
  <2>3. CASE i = j
    <3>1. /\ queue[j] \in Nat /\ queue'[j] = queue[j] - 1
          /\ enqueued'[j] = enqueued[j] /\ enqueued[j] \in Nat
      BY <2>1, <2>3 DEF Poll, GetNextJob, Types, TypeInv, TypeOK
    <3>2. IsFiniteSet(Held(j)') /\ Cardinality(Held(j)') <= Cardinality(Held(j)) + 1
      BY <1>1, <2>1, PollHeld, OneMoreHeld
    <3>3. Cardinality(Held(j)') \in Nat
      BY <3>2, FS_CardinalityType
    <3> QED
      BY <1>1, <3>1, <3>2, <3>3
  <2> QED
    BY <2>2, <2>3
<1>4. CASE \E a \in AgentId : Send(a)
  BY <1>1, <1>2, <1>4, SendHeld
<1>5. CASE \E a \in AgentId : Recv(a)
  BY <1>1, <1>2, <1>5, RecvHeld
<1>6. CASE ~(\E a \in AgentId : Send(a) \/ Recv(a) \/ \E i \in JobId : Poll(a, i))
  <2>1. \A a \in AgentId : StreamKeeps(a) /\ WireKeeps(a)
    BY <1>6, StreamMoves, WireMoves
  <2>2. ASSUME NEW s \in Slot
        PROVE  SlotKeeps(s)
    <3>1. s[1] \in AgentId /\ s \in SlotsOf(s[1])
      BY Goroutines DEF SlotsOf
    <3> QED
      BY <1>6, <3>1, SlotMoves DEF Recv
  <2>3. Held(j)' \subseteq Held(j)
    BY <2>1, <2>2, KeptHeld
  <2> QED
    BY <1>1, <1>2, <2>3, FewerHeld
<1> QED
  BY <1>3, <1>4, <1>5, <1>6

LEMMA HoldHolds == DispatchSpec => []HoldInv
<1>1. Types /\ HoldInv /\ UNCHANGED vars => HoldInv'
  BY DEF vars, dispatchVars, serverVars, agentVars, serviceVars, HoldInv, Held
<1>2. Types /\ HoldInv /\ [DispatchNext]_vars => HoldInv'
  BY <1>1, HoldStep
<1> QED
  BY <1>2, HoldInit, TypesHold, PTL DEF DispatchSpec

\* What leaves the queue for one Enqueue is in at most one place: no
\* interleaving of polls, sends, receptions, breaks, crashes and restarts
\* lets two executions have it (server.go, agent.go).
THEOREM AtMostOnceHeld == DispatchSpec => []AtMostOnce
<1>1. ASSUME Types, HoldInv
      PROVE  AtMostOnce
  <2> SUFFICES ASSUME NEW j \in JobId
               PROVE  queue[j] + Cardinality(Places(j)) <= enqueued[j]
    BY DEF AtMostOnce
  <2>1. Places(j) \subseteq Held(j)
    BY Elsewhere DEF Places, Held, JobMessage
  <2>2. IsFiniteSet(Held(j)) /\ Cardinality(Held(j)) \in Nat
        /\ queue[j] + Cardinality(Held(j)) <= enqueued[j]
    BY <1>1, FS_CardinalityType DEF HoldInv
  <2>3. Cardinality(Places(j)) <= Cardinality(Held(j)) /\ Cardinality(Places(j)) \in Nat
    BY <2>1, <2>2, FewerHeld, FS_CardinalityType
  <2>4. queue[j] \in Nat /\ enqueued[j] \in Nat
    BY <1>1 DEF Types, TypeInv, TypeOK
  <2> QED
    BY <2>2, <2>3, <2>4
<1> QED
  BY <1>1, HoldHolds, TypesHold, PTL

-----------------------------------------------------------------------------
(***************************************************************************)
(* Who has a job that was queued once is tracked: an entry of agentJobs is *)
(* only removed by the one that has the job, and gives it up.              *)
(***************************************************************************)
Has(a, j) ==
    \/ stream[a] # Looping /\ stream[a].job = j
    \/ \E i \in DOMAIN wire[a] : wire[a][i] = JobMessage(j)
    \/ known[a] /\ \E s \in SlotsOf(a) : exec[s] # Free /\ exec[s].job = j

TrackInv ==
    \A a \in AgentId, j \in JobId : enqueued[j] = 1 /\ Has(a, j) => <<a, j>> \in tracked

LEMMA HasHeld ==
    ASSUME NEW a \in AgentId, NEW j \in JobId, Has(a, j)
    PROVE  Held(j) # {}
<1>1. CASE stream[a] # Looping /\ stream[a].job = j
  <2>1. InStream(<<"stream", a>>, j)
    BY <1>1 DEF InStream
  <2> QED
    BY <2>1, HeldIs
<1>2. ASSUME NEW i \in DOMAIN wire[a], wire[a][i] = JobMessage(j)
      PROVE  Held(j) # {}
  <2>1. InWire(<<"wire", a, i>>, j)
    BY <1>2 DEF InWire
  <2> QED
    BY <2>1, HeldIs
<1>3. ASSUME NEW s \in SlotsOf(a), exec[s] # Free, exec[s].job = j
      PROVE  Held(j) # {}
  <2>1. InSlot(<<"slot", s>>, j)
    BY <1>3 DEF InSlot, SlotsOf
  <2> QED
    BY <2>1, HeldIs
<1> QED
  BY <1>1, <1>2, <1>3 DEF Has

\* A job that is held has no entry left in the queue if it was queued once.
LEMMA HeldOnce ==
    ASSUME Types, HoldInv, NEW j \in JobId, enqueued[j] = 1
    PROVE  /\ Held(j) # {} => queue[j] = 0
           /\ \A x, y \in Held(j) : x = y
<1>1. IsFiniteSet(Held(j)) /\ Cardinality(Held(j)) \in Nat
      /\ queue[j] + Cardinality(Held(j)) <= 1 /\ queue[j] \in Nat
  BY FS_CardinalityType DEF HoldInv, Types, TypeInv, TypeOK
<1>2. ASSUME NEW x \in Held(j)
      PROVE  queue[j] = 0 /\ Held(j) \ {x} = {}
  <2>1. /\ IsFiniteSet(Held(j) \ {x}) /\ Cardinality(Held(j) \ {x}) \in Nat
        /\ Cardinality(Held(j) \ {x}) = Cardinality(Held(j)) - 1
    BY <1>1, <1>2, FS_RemoveElement, FS_CardinalityType
  <2>2. queue[j] = 0 /\ Cardinality(Held(j) \ {x}) = 0
    BY <1>1, <2>1
  <2> QED
    BY <2>1, <2>2, FS_EmptySet
<1> QED
  BY <1>2

LEMMA NotQueued ==
    ASSUME NEW j \in JobId, NEW a \in AgentId
    PROVE  Types /\ HoldInv /\ enqueued[j] = 1 /\ Has(a, j) => queue[j] = 0
BY HasHeld, HeldOnce

LEMMA NotQueuedNext ==
    ASSUME NEW j \in JobId, NEW a \in AgentId
    PROVE  Types' /\ HoldInv' /\ enqueued'[j] = 1 /\ Has(a, j)' => queue'[j] = 0
<1>1. (Types /\ HoldInv /\ enqueued[j] = 1 /\ Has(a, j) => queue[j] = 0)'
  BY NotQueued, PTL
<1> QED
  BY <1>1

\* A job that is queued is in the queue.
LEMMA PutInQueue ==
    ASSUME Types, DispatchNext, NEW j \in JobId, enqueued'[j] # enqueued[j]
    PROVE  queue'[j] > 0
<1>1. ASSUME NEW p \in Proc, Enqueue(p)
      PROVE  queue'[j] > 0
  <2>1. queue'[j] = queue[j] + 1 /\ queue[j] \in Nat
    BY <1>1 DEF Enqueue, Types, TypeInv, TypeOK
  <2> QED
    BY <2>1
<1>2. ASSUME NEW i \in JobId, GetNextJob(i)
      PROVE  UNCHANGED enqueued
  BY <1>2 DEF GetNextJob
<1>3. ASSUME NEW p \in Proc, Continue(p)
      PROVE  Enqueue(p) \/ UNCHANGED enqueued
  BY <1>3 DEF Continue, Save, SaveFails, EnqueueFails, PublishJobUpdate, PublishCancel
<1>4. ASSUME NEW p \in Proc, (\E i \in JobId : Request(p, i)) \/ Copies(p)
      PROVE  UNCHANGED enqueued
  BY <1>4 DEF Request, CreateJob, CancelJob, RetryJob, Copies, GetJob
<1>5. ServiceStep
  BY StepTypes
<1> QED
  BY <1>1, <1>2, <1>3, <1>4, <1>5 DEF ServiceStep, PlainStep, Forgets

LEMMA KnownMoves ==
    ASSUME Types, DispatchNext, NEW a \in AgentId, known'[a]
    PROVE  known[a] \/ Connect(a)
<1>1. ASSUME NEW b \in AgentId, StreamJobs(b) \/ Recv(b)
      PROVE  known' = known
  BY <1>1 DEF StreamJobs, Poll, PollLoses, ForwardCancel, Assign, AssignGoesOn, AssignFails,
     Send, SendFails, RevertGoesOn, RevertFails, Recv, RecvCancel, RecvJob, serverVars
<1>2. ASSUME NEW b \in AgentId, Break(b) \/ AgentNotices(b) \/ ServerNotices(b) \/ AgentCrash(b)
      PROVE  known' = known
  BY <1>2 DEF Break, AgentNotices, ServerNotices, AgentCrash
<1>3. ASSUME NEW b \in AgentId, Connect(b)
      PROVE  known[a] \/ Connect(a)
  BY <1>3 DEF Connect, Types, OwnTypes
<1>4. ASSUME NEW p \in Client, Handle(p) \/ HandleFails(p)
      PROVE  known' = known
  BY <1>4 DEF Handle, HandleFails, dispatchVars, serverVars
<1>5. ASSUME NEW s \in Slot, ExecuteJob(s)
      PROVE  known' = known
  BY <1>5 DEF ExecuteJob, Init, InitGoesOn, InitFails, ContainerExits, JobCtxDone, Done,
     DoneGoesOn, DoneFails, DoneRejected, OrphanGoesOn, dispatchVars, serverVars
<1>6. ASSUME NEW s \in Slot, ReadOutput(s)
      PROVE  known' = known
  BY <1>6 DEF ReadOutput, Log, LogGoesOn, LogFails, LoggerStops, dispatchVars, serverVars
<1>7. ServerRestart => ~known'[a]
  BY DEF ServerRestart
<1> QED
  BY <1>1, <1>2, <1>3, <1>4, <1>5, <1>6, <1>7 DEF DispatchNext

\* A message for a job comes from the handler that has it.
LEMMA WireHas ==
    ASSUME Types, DispatchNext, NEW a \in AgentId, NEW j \in JobId,
           NEW i \in DOMAIN wire'[a], wire'[a][i] = JobMessage(j)
    PROVE  Has(a, j)
<1>1. wire[a] \in Seq(Message)
  BY DEF Types, OwnTypes
<1>2. CASE WireKeeps(a)
  <2>1. ~wire'[a][i].cancel
    BY DEF JobMessage
  <2> QED
    BY <1>2, <2>1 DEF WireKeeps, Has
<1>3. CASE Send(a)
  <2>1. stream[a] # Looping /\ stream[a].job \in JobId
    BY <1>3, StreamTypes, Elsewhere DEF Send, Types
  <2>2. PICK m : m = JobMessage(stream[a].job)
    OBVIOUS
  <2>3. wire'[a] \in {wire[a], Append(wire[a], m)} /\ m \in Message
    BY <1>3, <2>1, <2>2 DEF Send, Transmit, Types, OwnTypes, JobMessage, Message
  <2>4. CASE wire'[a] = wire[a]
    BY <2>4 DEF Has
  <2>5. CASE wire'[a] = Append(wire[a], m)
    <3>1. (i \in DOMAIN wire[a] /\ wire[a][i] = wire'[a][i]) \/ wire'[a][i] = m
      BY <1>1, <2>3, <2>5
    <3>2. m = JobMessage(j) => stream[a].job = j
      BY <2>2 DEF JobMessage
    <3> QED
      BY <2>1, <3>1, <3>2 DEF Has
  <2> QED
    BY <2>3, <2>4, <2>5
<1>4. CASE Recv(a)
  <2>1. wire[a] # <<>>
    BY <1>4 DEF Recv, RecvCancel, RecvJob
  <2>2. PICK t : t = Tail(wire[a])
    OBVIOUS
  <2>3. /\ t \in Seq(Message) /\ Len(t) = Len(wire[a]) - 1
        /\ \A k \in 1 .. Len(t) : t[k] = wire[a][k + 1]
    BY <1>1, <2>1, <2>2, HeadTailProperties
  <2>4. wire'[a] = t
    BY <1>4, <2>2 DEF Recv, RecvCancel, RecvJob, Types, OwnTypes
  <2>5. i \in 1 .. Len(t) /\ DOMAIN wire[a] = 1 .. Len(wire[a]) /\ Len(wire[a]) \in Nat
    BY <1>1, <2>3, <2>4
  <2>6. i + 1 \in DOMAIN wire[a] /\ wire[a][i + 1] = JobMessage(j)
    BY <2>3, <2>4, <2>5
  <2> QED
    BY <2>6 DEF Has
<1> QED
  BY <1>2, <1>3, <1>4, WireMoves

\* Nobody gets a job but by a poll, or from where the agent had it before.
LEMMA HasStep ==
    ASSUME Types, DispatchNext, NEW a \in AgentId, NEW j \in JobId, Has(a, j)'
    PROVE  Has(a, j) \/ Poll(a, j)
<1>1. CASE stream'[a] # Looping /\ stream'[a].job = j
  <2>1. ASSUME NEW i \in JobId, Poll(a, i)
        PROVE  i = j
    <3>1. stream'[a] = [pc |-> "popped", job |-> i]
      BY <2>1 DEF Poll, StreamGoes, Types, OwnTypes
    <3> QED
      BY <1>1, <3>1
  <2> QED
    BY <1>1, <2>1, StreamMoves DEF StreamKeeps, Has
<1>2. CASE \E i \in DOMAIN wire'[a] : wire'[a][i] = JobMessage(j)
  BY <1>2, WireHas
<1>3. ASSUME known'[a], NEW s \in SlotsOf(a), exec'[s] # Free, exec'[s].job = j
      PROVE  Has(a, j)
  <2>1. s \in Slot /\ s[1] = a
    BY DEF SlotsOf
  <2>2. CASE RecvJob(a, s)
    <3>1. exec'[s].job = Head(wire[a]).job /\ ~Head(wire[a]).cancel /\ wire[a] # <<>>
      BY <2>1, <2>2 DEF RecvJob, Types, OwnTypes
    <3>2. wire[a] \in Seq(Message)
      BY DEF Types, OwnTypes
    <3>3. Len(wire[a]) \in Nat \ {0} /\ DOMAIN wire[a] = 1 .. Len(wire[a])
      BY <3>1, <3>2
    <3>4. 1 \in DOMAIN wire[a] /\ wire[a][1] = Head(wire[a]) /\ wire[a][1] \in Message
      BY <3>2, <3>3
    <3>5. wire[a][1] = JobMessage(j)
      BY <1>3, <3>1, <3>4 DEF Message, JobMessage
    <3> QED
      BY <3>4, <3>5 DEF Has
  <2>3. CASE SlotKeeps(s) /\ known[a]
    BY <1>3, <2>3 DEF SlotKeeps, Has
  <2>4. CASE Connect(a)
    BY <1>3, <2>4 DEF Connect, agentVars
  <2> QED
    BY <1>3, <2>1, <2>2, <2>3, <2>4, KnownMoves, SlotMoves
<1> QED
  BY <1>1, <1>2, <1>3 DEF Has

LEMMA HasHeldNext ==
    ASSUME NEW a \in AgentId, NEW j \in JobId
    PROVE  Has(a, j)' => Held(j)' # {}
<1>1. Has(a, j) => Held(j) # {}
  BY HasHeld
<1>2. (Has(a, j) => Held(j) # {})'
  BY <1>1, PTL
<1> QED
  BY <1>2

\* The one that removes an entry of agentJobs had the job, and gives it up.
LEMMA UntrackMoves ==
    ASSUME Types, DispatchNext, NEW a \in AgentId, NEW j \in JobId,
           <<a, j>> \in tracked, <<a, j>> \notin tracked'
    PROVE  ServerRestart \/ \E x \in Held(j) : x \notin Held(j)' /\ Held(j)' \subseteq Held(j)
<1>1. ASSUME RevertGoesOn(a) \/ RevertFails(a), stream[a].job = j, stream'[a] = Looping
      PROVE  \E x \in Held(j) : x \notin Held(j)' /\ Held(j)' \subseteq Held(j)
  <2>1. stream[a] # Looping
    BY <1>1, Elsewhere DEF RevertGoesOn, RevertFails
  <2>2. InStream(<<"stream", a>>, j)
    BY <1>1, <2>1 DEF InStream
  <2>3. <<"stream", a>> \notin Held(j)'
    BY <1>1, HeldIsNext
  <2>4. \A b \in AgentId : StreamKeeps(b)
    BY <1>1 DEF RevertGoesOn, RevertFails, HandlerReturns, StreamGoes, StreamKeeps, Types, OwnTypes
  <2>5. (\A b \in AgentId : WireKeeps(b)) /\ \A s \in Slot : SlotKeeps(s)
    BY <1>1 DEF RevertGoesOn, RevertFails, WireKeeps, SlotKeeps, agentVars
  <2>6. Held(j)' \subseteq Held(j)
    BY <2>4, <2>5, KeptHeld
  <2> QED
    BY <2>2, <2>3, <2>6, HeldIs
<1>2. ASSUME NEW s \in Slot, DoneGoesOn(s), exec[s].job = j, exec'[s] = Free
      PROVE  \E x \in Held(j) : x \notin Held(j)' /\ Held(j)' \subseteq Held(j)
  <2>1. exec[s] # Free
    BY <1>2, Elsewhere DEF DoneGoesOn
  <2>2. InSlot(<<"slot", s>>, j)
    BY <1>2, <2>1 DEF InSlot
  <2>3. <<"slot", s>> \notin Held(j)'
    BY <1>2, HeldIsNext
  <2>4. \A t \in Slot : SlotKeeps(t)
    BY <1>2 DEF DoneGoesOn, Return, SlotKeeps, Types, OwnTypes
  <2>5. \A b \in AgentId : WireKeeps(b) /\ StreamKeeps(b)
    BY <1>2 DEF DoneGoesOn, WireKeeps, StreamKeeps
  <2>6. Held(j)' \subseteq Held(j)
    BY <2>4, <2>5, KeptHeld
  <2> QED
    BY <2>2, <2>3, <2>6, HeldIs
<1>3. ASSUME NEW b \in AgentId, StreamJobs(b)
      PROVE  (RevertGoesOn(a) \/ RevertFails(a)) /\ stream[a].job = j /\ stream'[a] = Looping
  <2>1. RevertGoesOn(b) \/ RevertFails(b)
    BY <1>3 DEF StreamJobs, Poll, PollLoses, ForwardCancel, Assign, AssignGoesOn, AssignFails,
       Send, SendFails, serverVars
  <2>2. tracked' = tracked \ {<<b, stream[b].job>>} /\ stream'[b] = Looping
    BY <2>1 DEF RevertGoesOn, RevertFails, HandlerReturns, StreamGoes, Untrack, Types, OwnTypes
  <2> QED
    BY <2>1, <2>2
<1>4. ASSUME NEW b \in AgentId,
             Recv(b) \/ Connect(b) \/ Break(b) \/ AgentNotices(b) \/ ServerNotices(b) \/ AgentCrash(b)
      PROVE  tracked' = tracked
  BY <1>4 DEF Recv, RecvCancel, RecvJob, Connect, Break, AgentNotices, ServerNotices,
     AgentCrash, serverVars
<1>5. ASSUME NEW p \in Client, Handle(p) \/ HandleFails(p)
      PROVE  tracked' = tracked
  BY <1>5 DEF Handle, HandleFails, dispatchVars, serverVars
<1>6. ASSUME NEW s \in Slot, ExecuteJob(s)
      PROVE  DoneGoesOn(s) /\ exec[s].job = j /\ exec'[s] = Free
  <2>1. DoneGoesOn(s)
    BY <1>6 DEF ExecuteJob, Init, InitGoesOn, InitFails, ContainerExits, JobCtxDone, Done,
       DoneFails, DoneRejected, OrphanGoesOn, dispatchVars, serverVars
  <2>2. tracked' = tracked \ {<<s[1], exec[s].job>>} /\ exec'[s] = Free
    BY <2>1 DEF DoneGoesOn, Return, Untrack, Types, OwnTypes
  <2> QED
    BY <2>1, <2>2
<1>7. ASSUME NEW s \in Slot, ReadOutput(s)
      PROVE  tracked' = tracked
  BY <1>7 DEF ReadOutput, Log, LogGoesOn, LogFails, LoggerStops, dispatchVars, serverVars
<1> QED
  BY <1>1, <1>2, <1>3, <1>4, <1>5, <1>6, <1>7 DEF DispatchNext

LEMMA TrackStep ==
    ASSUME Types, HoldInv, TrackInv, DispatchNext
    PROVE  TrackInv'
<1>1. Types' /\ HoldInv'
  BY TypesStep, HoldStep
<1> SUFFICES ASSUME NEW a \in AgentId, NEW j \in JobId, enqueued'[j] = 1, Has(a, j)'
             PROVE  <<a, j>> \in tracked'
  BY DEF TrackInv
<1>2. enqueued[j] = 1
  <2>1. queue'[j] = 0
    BY <1>1, NotQueuedNext
  <2> QED
    BY <2>1, PutInQueue
<1>3. CASE Poll(a, j)
  BY <1>3 DEF Poll
<1>4. CASE Has(a, j)
  <2>1. <<a, j>> \in tracked
    BY <1>2, <1>4 DEF TrackInv
  <2>2. ~ServerRestart
    <3>1. ASSUME ServerRestart
          PROVE  FALSE
      <4>1. stream'[a] = Looping /\ wire'[a] = <<>> /\ ~known'[a]
        BY <3>1 DEF ServerRestart
      <4> QED
        BY <4>1 DEF Has
    <3> QED
      BY <3>1
  <2>3. ASSUME NEW x \in Held(j), x \notin Held(j)', Held(j)' \subseteq Held(j)
        PROVE  FALSE
    <3>1. Held(j)' = {}
      BY <1>2, <2>3, HeldOnce
    <3> QED
      BY <3>1, HasHeldNext
  <2> QED
    BY <2>1, <2>2, <2>3, UntrackMoves
<1> QED
  BY <1>3, <1>4, HasStep

LEMMA TrackHolds == DispatchSpec => []TrackInv
<1>1. DispatchInit => TrackInv
  BY DEF DispatchInit, ServiceInit, TrackInv
<1>2. Types /\ HoldInv /\ TrackInv /\ UNCHANGED vars => TrackInv'
  BY DEF vars, dispatchVars, serverVars, agentVars, serviceVars, TrackInv, Has
<1>3. Types /\ HoldInv /\ TrackInv /\ [DispatchNext]_vars => TrackInv'
  BY <1>2, TrackStep
<1> QED
  BY <1>1, <1>3, TypesHold, HoldHolds, PTL DEF DispatchSpec

\* An execution of a job that was queued once is tracked as long as the
\* server knows its agent, whatever failed in between: the cancel signal of
\* the job is forwarded (trackJobAssignment, untrackJobAssignment).
THEOREM HeldIsTracked == DispatchSpec => []TrackedWhileHeld
<1>1. ASSUME Types, TrackInv
      PROVE  TrackedWhileHeld
  <2> SUFFICES ASSUME NEW s \in Slot, exec[s] # Free, known[s[1]], enqueued[exec[s].job] = 1
               PROVE  <<s[1], exec[s].job>> \in tracked
    BY DEF TrackedWhileHeld
  <2>1. s[1] \in AgentId /\ s \in SlotsOf(s[1]) /\ exec[s].job \in JobId
    BY <1>1, Goroutines, ExecTypes DEF SlotsOf, Types
  <2>2. Has(s[1], exec[s].job)
    BY <2>1 DEF Has
  <2> QED
    BY <1>1, <2>1, <2>2 DEF TrackInv
<1> QED
  BY <1>1, TrackHolds, TypesHold, PTL

-----------------------------------------------------------------------------
(***************************************************************************)
(* As long as nothing has failed: agents stay connected, every call is the *)
(* one that the step of its goroutine made, and a job whose row says       *)
(* pending or running is in the queue, about to be put there, or in        *)
(* somebody's hands.                                                       *)
(***************************************************************************)
LinkOK(a) ==
    /\ link[a] \in {"up", "down"}
    /\ link[a] = "up" => known[a]
    /\ link[a] = "down" => /\ stream[a] = Looping /\ wire[a] = <<>>
                           /\ \A s \in SlotsOf(a) : exec[s] = Free

HandlerOK(a) ==
    IF stream[a].pc = "assign"
    THEN call[a] # Idle /\ call[a].op = "assign" /\ call[a].job = stream[a].job
    ELSE call[a] = Idle /\ stream[a].pc # "revert"

ExecutionOK(s) ==
    IF exec[s].pc \in {"initing", "reporting"}
    THEN /\ call[s] # Idle /\ call[s].op = "status" /\ call[s].job = exec[s].job
         /\ exec[s].pc = "reporting" => call[s].row.status \in {"success", "failure"}
    ELSE call[s] = Idle

LoggerOK(s) ==
    /\ call[Logger(s)] # Idle => /\ logger[s] # NoJob /\ call[Logger(s)].job = logger[s]
                                 /\ call[Logger(s)].op = "log"
    /\ logger[s] # NoJob => \/ logger[s] \in cut
                            \/ exec[s].pc = "run" /\ exec[s].job = logger[s]
    /\ exec[s].pc \in {"init", "initing"} => logger[s] = NoJob

ClientOK(p) ==
    call[p] # Idle => CASE call[p].op = "create" -> call[p].pc = "enqueue"
                        [] call[p].op = "cancel" -> call[p].row.status = "cancelled"
                        [] OTHER -> call[p].op = "retry"

CalmInv ==
    faults = 0 => /\ \A a \in AgentId : LinkOK(a) /\ HandlerOK(a)
                  /\ \A s \in Slot : ExecutionOK(s) /\ LoggerOK(s)
                  /\ \A p \in Client : ClientOK(p)

\* Whose Done has not been saved yet.
Unfinished(s) == exec[s] # Free /\ (exec[s].pc = "reporting" => call[s] # Idle /\ call[s].pc = "save")

Owned(j) ==
    \/ \E a \in AgentId : \/ stream[a] # Looping /\ stream[a].job = j
                          \/ \E i \in DOMAIN wire[a] : wire[a][i] = JobMessage(j)
    \/ \E s \in Slot : Unfinished(s) /\ exec[s].job = j

Expected(j) ==
    \/ queue[j] > 0
    \/ \E p \in Client : WorkingOn(p, j) /\ call[p].pc = "enqueue"
    \/ Owned(j)

Open(j) == Exists(j) /\ jobs[j].status \in {"pending", "running"}

ExpectInv == faults = 0 => \A j \in JobId : Open(j) => j \in cut \/ Expected(j)

\* The steps that are left when nothing fails.
CalmStep ==
    \/ \E p \in Client : Handle(p)
    \/ \E a \in AgentId :
          \/ Connect(a) \/ Recv(a) \/ Assign(a) \/ AssignGoesOn(a) \/ Send(a)
          \/ \E j \in JobId : Poll(a, j) \/ ForwardCancel(a, j)
    \/ \E s \in Slot :
          \/ Init(s) \/ InitGoesOn(s) \/ JobCtxDone(s) \/ Done(s) \/ DoneGoesOn(s)
          \/ \E failed \in BOOLEAN : ContainerExits(s, failed)
          \/ Log(s) \/ LogGoesOn(s) \/ LoggerStops(s)

LEMMA FaultsMoves ==
    ASSUME DispatchNext
    PROVE  Fault \/ faults' = faults
<1>1. ASSUME NEW a \in AgentId, StreamJobs(a)
      PROVE  Fault \/ faults' = faults
  BY <1>1 DEF StreamJobs, Poll, PollLoses, ForwardCancel, Assign, AssignGoesOn, AssignFails,
     FaultOn, Send, SendFails, RevertGoesOn, RevertFails, history
<1>2. ASSUME NEW a \in AgentId,
             Recv(a) \/ Connect(a) \/ Break(a) \/ AgentNotices(a) \/ ServerNotices(a) \/ AgentCrash(a)
      PROVE  Fault \/ faults' = faults
  BY <1>2 DEF Recv, RecvCancel, RecvJob, Connect, Break, AgentNotices, ServerNotices,
     AgentCrash, history
<1>3. ASSUME NEW p \in Client, Handle(p) \/ HandleFails(p)
      PROVE  Fault \/ faults' = faults
  BY <1>3 DEF Handle, HandleFails, dispatchVars, history
<1>4. ASSUME NEW s \in Slot, ExecuteJob(s)
      PROVE  Fault \/ faults' = faults
  BY <1>4 DEF ExecuteJob, Init, InitGoesOn, InitFails, ContainerExits, JobCtxDone, Done,
     DoneGoesOn, DoneFails, DoneRejected, OrphanGoesOn, dispatchVars, history
<1>5. ASSUME NEW s \in Slot, ReadOutput(s)
      PROVE  Fault \/ faults' = faults
  BY <1>5 DEF ReadOutput, Log, LogGoesOn, LogFails, LoggerStops, dispatchVars, history
<1> QED
  BY <1>1, <1>2, <1>3, <1>4, <1>5 DEF DispatchNext, ServerRestart

LEMMA CalmMoves ==
    ASSUME Types, CalmInv, DispatchNext, faults' = 0
    PROVE  faults = 0 /\ CalmStep
<1>1. ~Fault /\ faults = 0
  BY FaultsMoves DEF Fault, Types, OwnTypes
<1>2. /\ \A a \in AgentId : LinkOK(a) /\ HandlerOK(a)
      /\ \A s \in Slot : ExecutionOK(s)
  BY <1>1 DEF CalmInv
<1>3. ASSUME NEW a \in AgentId, StreamJobs(a)
      PROVE  CalmStep
  <2>1. ASSUME stream[a] # Looping
        PROVE  link[a] = "up" /\ ServerEnd(a)
    BY <1>2, <2>1 DEF LinkOK, ServerEnd
  <2>2. ~AssignFails(a) /\ ~SendFails(a)
    BY <1>1, <2>1, Elsewhere DEF AssignFails, FaultOn, SendFails
  <2>3. ~RevertGoesOn(a) /\ ~RevertFails(a)
    BY <1>2, <2>1, Elsewhere DEF RevertGoesOn, RevertFails, HandlerOK
  <2>4. \A j \in JobId : ~PollLoses(a, j)
    BY <1>1 DEF PollLoses
  <2> QED
    BY <1>3, <2>2, <2>3, <2>4 DEF StreamJobs, CalmStep
<1>4. ASSUME NEW a \in AgentId,
             Recv(a) \/ Connect(a) \/ Break(a) \/ AgentNotices(a) \/ ServerNotices(a) \/ AgentCrash(a)
      PROVE  CalmStep
  <2>1. ~Break(a) /\ ~AgentNotices(a) /\ ~ServerNotices(a) /\ ~AgentCrash(a)
    BY <1>1, <1>2 DEF Break, AgentNotices, ServerNotices, AgentCrash, LinkOK
  <2> QED
    BY <1>4, <2>1 DEF CalmStep
<1>5. ASSUME NEW p \in Client, Handle(p) \/ HandleFails(p)
      PROVE  CalmStep
  BY <1>1, <1>5 DEF HandleFails, CalmStep
<1>6. ASSUME NEW s \in Slot, ExecuteJob(s)
      PROVE  CalmStep
  <2>1. ~InitFails(s) /\ ~DoneFails(s)
    BY <1>1 DEF InitFails, DoneFails
  <2>2. ~DoneRejected(s)
    <3>1. s[1] \in AgentId /\ s \in SlotsOf(s[1])
      BY Goroutines DEF SlotsOf
    <3> QED
      BY <1>2, <3>1, Elsewhere DEF DoneRejected, LinkOK
  <2>3. ~OrphanGoesOn(s)
    BY <1>2 DEF OrphanGoesOn, ExecutionOK, Save, SaveFails, PublishJobUpdate
  <2> QED
    BY <1>6, <2>1, <2>2, <2>3 DEF ExecuteJob, CalmStep
<1>7. ASSUME NEW s \in Slot, ReadOutput(s)
      PROVE  CalmStep
  BY <1>1, <1>7 DEF ReadOutput, LogFails, CalmStep
<1>8. ~ServerRestart
  BY <1>1 DEF ServerRestart
<1> QED
  BY <1>1, <1>3, <1>4, <1>5, <1>6, <1>7, <1>8 DEF DispatchNext

\* Each goroutine works on its own call.
LEMMA OthersCalls ==
    ASSUME Types, NEW p \in Proc, NEW q \in Proc, q # p,
           \/ Save(p) \/ Enqueue(p) \/ PublishJobUpdate(p) \/ Signal(p)
           \/ \E j \in JobId : Request(p, j)
           \/ \E op, j, row : GetJob(p, op, j, row)
    PROVE  call'[q] = call[q]
<1>1. call \in [Proc -> Call \cup {Idle}]
  BY DEF Types, TypeInv, TypeOK
<1>2. ASSUME NEW b, PublishCancel(p, b)
      PROVE  call'[q] = call[q]
  BY <1>1, <1>2 DEF PublishCancel
<1>3. ASSUME NEW op, NEW j, NEW row, GetJob(p, op, j, row)
      PROVE  call'[q] = call[q]
  BY <1>1, <1>3 DEF GetJob, Start
<1>4. ASSUME NEW j \in JobId, Request(p, j)
      PROVE  call'[q] = call[q]
  <2>1. CASE CreateJob(p, j)
    BY <1>1, <2>1 DEF CreateJob, Start
  <2> QED
    BY <1>3, <1>4, <2>1 DEF Request, CancelJob, RetryJob
<1>5. CASE Save(p) \/ Enqueue(p) \/ PublishJobUpdate(p)
  BY <1>1, <1>5 DEF Save, Enqueue, PublishJobUpdate
<1>6. CASE Signal(p)
  BY <1>2, <1>6 DEF Signal
<1> QED
  BY <1>3, <1>4, <1>5, <1>6

LEMMA CalmCalls ==
    ASSUME Types, CalmStep, NEW q \in Proc
    PROVE  \/ call'[q] = call[q]
           \/ q \in Client /\ Handle(q)
           \/ q \in AgentId /\ (Assign(q) \/ AssignGoesOn(q))
           \/ q \in Slot /\ (Init(q) \/ InitGoesOn(q) \/ Done(q) \/ DoneGoesOn(q))
           \/ \E s \in Slot : q = Logger(s) /\ (Log(s) \/ LogGoesOn(s))
<1>1. ASSUME NEW p \in Client, Handle(p), q # p
      PROVE  call'[q] = call[q]
  BY <1>1, Goroutines, OthersCalls DEF Handle
<1>2. ASSUME NEW a \in AgentId, Assign(a) \/ AssignGoesOn(a), q # a
      PROVE  call'[q] = call[q]
  BY <1>2, Goroutines, OthersCalls DEF Assign, AssignJob, AssignGoesOn
<1>3. ASSUME NEW s \in Slot, Init(s) \/ InitGoesOn(s) \/ Done(s) \/ DoneGoesOn(s), q # s
      PROVE  call'[q] = call[q]
  BY <1>3, Goroutines, OthersCalls DEF Init, Done, UpdateJobStatus, InitGoesOn, DoneGoesOn
<1>4. ASSUME NEW s \in Slot, Log(s) \/ LogGoesOn(s), q # Logger(s)
      PROVE  call'[q] = call[q]
  BY <1>4, Goroutines, OthersCalls DEF Log, LogGoesOn, ProcessLog
<1>5. ASSUME NEW a \in AgentId,
             Connect(a) \/ Recv(a) \/ Send(a) \/ \E j \in JobId : Poll(a, j) \/ ForwardCancel(a, j)
      PROVE  call' = call
  BY <1>5 DEF Connect, Recv, RecvCancel, RecvJob, Send, Poll, GetNextJob, ForwardCancel,
     serviceVars
<1>6. ASSUME NEW s \in Slot,
             JobCtxDone(s) \/ LoggerStops(s) \/ \E failed \in BOOLEAN : ContainerExits(s, failed)
      PROVE  call' = call
  BY <1>6 DEF JobCtxDone, LoggerStops, ContainerExits, serviceVars
<1> QED
  BY <1>1, <1>2, <1>3, <1>4, <1>5, <1>6 DEF CalmStep

LEMMA CalmStreams ==
    ASSUME Types, CalmStep, NEW a \in AgentId
    PROVE  \/ stream'[a] = stream[a]
           \/ Assign(a) \/ AssignGoesOn(a) \/ Send(a) \/ \E j \in JobId : Poll(a, j)
<1>1. ASSUME NEW b \in AgentId, NEW to, StreamGoes(b, to), b # a
      PROVE  stream'[a] = stream[a]
  BY <1>1 DEF StreamGoes, Types, OwnTypes
<1>2. ASSUME NEW b \in AgentId, Assign(b) \/ AssignGoesOn(b) \/ Send(b), b # a
      PROVE  stream'[a] = stream[a]
  BY <1>1, <1>2 DEF Assign, AssignGoesOn, Send
<1>3. ASSUME NEW b \in AgentId, NEW j \in JobId, Poll(b, j), b # a
      PROVE  stream'[a] = stream[a]
  BY <1>1, <1>3 DEF Poll
<1>4. ASSUME NEW b \in AgentId, Connect(b) \/ Recv(b) \/ \E j \in JobId : ForwardCancel(b, j)
      PROVE  stream' = stream
  BY <1>4 DEF Connect, Recv, RecvCancel, RecvJob, ForwardCancel, serverVars
<1>5. ASSUME NEW p \in Client, Handle(p)
      PROVE  stream' = stream
  BY <1>5 DEF Handle, dispatchVars, serverVars
<1>6. ASSUME NEW s \in Slot,
             \/ Init(s) \/ InitGoesOn(s) \/ JobCtxDone(s) \/ Done(s) \/ DoneGoesOn(s)
             \/ \E failed \in BOOLEAN : ContainerExits(s, failed)
             \/ Log(s) \/ LogGoesOn(s) \/ LoggerStops(s)
      PROVE  stream' = stream
  BY <1>6 DEF Init, InitGoesOn, JobCtxDone, Done, DoneGoesOn, ContainerExits, Log, LogGoesOn,
     LoggerStops, dispatchVars, serverVars
<1> QED
  BY <1>2, <1>3, <1>4, <1>5, <1>6 DEF CalmStep

LEMMA CalmExecutions ==
    ASSUME Types, CalmStep, NEW s \in Slot
    PROVE  \/ exec'[s] = exec[s]
           \/ exec[s] # Free /\ exec'[s] = [exec[s] EXCEPT !.killed = TRUE]
           \/ Init(s) \/ InitGoesOn(s) \/ JobCtxDone(s) \/ Done(s) \/ DoneGoesOn(s)
           \/ \E failed \in BOOLEAN : ContainerExits(s, failed)
           \/ RecvJob(s[1], s)
<1>1. DispatchNext
  BY DEF CalmStep, DispatchNext, StreamJobs, ExecuteJob, ReadOutput
<1>2. ASSUME exec'[s] = Free, exec[s] # Free
      PROVE  DoneGoesOn(s)
  <2>1. ASSUME NEW t \in Slot, DoneGoesOn(t)
        PROVE  t = s
    BY <1>2, <2>1 DEF DoneGoesOn, Return, Types, OwnTypes
  <2>2. ASSUME NEW t \in Slot,
               \/ Init(t) \/ InitGoesOn(t) \/ JobCtxDone(t) \/ Done(t)
               \/ \E failed \in BOOLEAN : ContainerExits(t, failed)
               \/ Log(t) \/ LogGoesOn(t) \/ LoggerStops(t)
        PROVE  FALSE
    <3>1. exec[s] \in Execution
      BY <1>2 DEF Types, OwnTypes
    <3>2. CASE exec' = exec
      BY <1>2, <3>2
    <3>3. CASE Init(t) \/ Done(t)
      <4>1. exec'[s] \in {exec[s], [exec[s] EXCEPT !.pc = "initing"],
                          [exec[s] EXCEPT !.pc = "reporting"]}
        BY <3>3 DEF Init, Done, Types, OwnTypes
      <4> QED
        BY <1>2, <3>1, <4>1 DEF Execution, Free
    <3>4. CASE InitGoesOn(t)
      <4>1. exec'[s] = exec[s] \/ exec'[s] = [exec[s] EXCEPT !.pc = "run"]
        BY <3>4 DEF InitGoesOn, Types, OwnTypes
      <4> QED
        BY <1>2, <3>1, <4>1 DEF Execution, Free
    <3>5. CASE JobCtxDone(t)
      <4>1. exec'[s] \in {exec[s], [exec[s] EXCEPT !.pc = "report", !.failed = TRUE]}
        BY <3>5 DEF JobCtxDone, Types, OwnTypes
      <4> QED
        BY <1>2, <3>1, <4>1 DEF Execution, Free
    <3>6. ASSUME NEW failed \in BOOLEAN, ContainerExits(t, failed)
          PROVE  FALSE
      <4>1. exec'[s] \in {exec[s], [exec[s] EXCEPT !.pc = "report", !.failed = failed]}
        BY <3>6 DEF ContainerExits, Types, OwnTypes
      <4> QED
        BY <1>2, <3>1, <4>1 DEF Execution, Free
    <3> QED
      BY <2>2, <3>2, <3>3, <3>4, <3>5, <3>6 DEF Log, LogGoesOn, LoggerStops, dispatchVars, agentVars
  <2>3. ASSUME NEW a \in AgentId, Recv(a)
        PROVE  FALSE
    <3>1. exec[s] \in Execution
      BY <1>2 DEF Types, OwnTypes
    <3>2. CASE RecvCancel(a)
      <4>1. exec'[s] \in {exec[s], [exec[s] EXCEPT !.killed = TRUE]}
        BY <3>2 DEF RecvCancel
      <4> QED
        BY <1>2, <3>1, <4>1 DEF Execution, Free
    <3>3. ASSUME NEW t \in SlotsOf(a), RecvJob(a, t)
          PROVE  FALSE
      <4>1. exec'[s] = exec[s] \/ exec'[s].pc = "init"
        BY <3>3 DEF RecvJob, Types, OwnTypes
      <4> QED
        BY <1>2, <4>1, Elsewhere
    <3> QED
      BY <2>3, <3>2, <3>3 DEF Recv
  <2>4. ASSUME NEW a \in AgentId, \/ Connect(a) \/ Assign(a) \/ AssignGoesOn(a) \/ Send(a)
                                  \/ \E j \in JobId : Poll(a, j) \/ ForwardCancel(a, j)
        PROVE  exec' = exec
    BY <2>4 DEF Connect, Assign, AssignGoesOn, Send, Poll, ForwardCancel, agentVars
  <2>5. ASSUME NEW p \in Client, Handle(p)
        PROVE  exec' = exec
    BY <2>5 DEF Handle, dispatchVars, agentVars
  <2> QED
    BY <1>2, <2>1, <2>2, <2>3, <2>4, <2>5 DEF CalmStep
<1> QED
  BY <1>1, <1>2, ExecMoves

LEMMA CalmLoggers ==
    ASSUME Types, CalmStep, NEW s \in Slot
    PROVE  \/ logger'[s] = logger[s]
           \/ InitGoesOn(s) \/ LoggerStops(s)
           \/ \E failed \in BOOLEAN : ContainerExits(s, failed)
<1>1. ASSUME NEW t \in Slot, t # s, \/ InitGoesOn(t) \/ LoggerStops(t)
                                    \/ \E failed \in BOOLEAN : ContainerExits(t, failed)
      PROVE  logger'[s] = logger[s]
  BY <1>1 DEF InitGoesOn, LoggerStops, ContainerExits, Types, OwnTypes
<1>2. ASSUME NEW t \in Slot, Init(t) \/ JobCtxDone(t) \/ Done(t) \/ DoneGoesOn(t) \/ Log(t) \/ LogGoesOn(t)
      PROVE  logger' = logger
  BY <1>2 DEF Init, JobCtxDone, Done, DoneGoesOn, Log, LogGoesOn, dispatchVars, agentVars
<1>3. ASSUME NEW a \in AgentId,
             \/ Connect(a) \/ Recv(a) \/ Assign(a) \/ AssignGoesOn(a) \/ Send(a)
             \/ \E j \in JobId : Poll(a, j) \/ ForwardCancel(a, j)
      PROVE  logger' = logger
  BY <1>3 DEF Connect, Recv, RecvCancel, RecvJob, Assign, AssignGoesOn, Send, Poll,
     ForwardCancel, agentVars
<1>4. ASSUME NEW p \in Client, Handle(p)
      PROVE  logger' = logger
  BY <1>4 DEF Handle, dispatchVars, agentVars
<1> QED
  BY <1>1, <1>2, <1>3, <1>4 DEF CalmStep

LEMMA CalmLinks ==
    ASSUME Types, CalmStep, NEW a \in AgentId, LinkOK(a)
    PROVE  LinkOK(a)'
<1>1. CASE \E b \in AgentId : Connect(b)
  <2>1. PICK b \in AgentId : Connect(b)
    BY <1>1
  <2>2. /\ b = a => link'[a] = "up" /\ known'[a]
        /\ b # a => link'[a] = link[a] /\ known'[a] = known[a]
        /\ UNCHANGED <<stream, wire, exec>>
    BY <2>1 DEF Connect, agentVars, Types, OwnTypes
  <2> QED
    BY <2>2 DEF LinkOK
<1>2. CASE ~\E b \in AgentId : Connect(b)
  <2>1. link' = link /\ known' = known
    <3>1. ASSUME NEW b \in AgentId,
                 \/ Recv(b) \/ Assign(b) \/ AssignGoesOn(b) \/ Send(b)
                 \/ \E j \in JobId : Poll(b, j) \/ ForwardCancel(b, j)
          PROVE  link' = link /\ known' = known
      BY <3>1 DEF Recv, RecvCancel, RecvJob, Assign, AssignGoesOn, Send, Poll,
         ForwardCancel, serverVars
    <3>2. ASSUME NEW p \in Client, Handle(p)
          PROVE  link' = link /\ known' = known
      BY <3>2 DEF Handle, dispatchVars, serverVars
    <3>3. ASSUME NEW s \in Slot,
                 \/ Init(s) \/ InitGoesOn(s) \/ JobCtxDone(s) \/ Done(s) \/ DoneGoesOn(s)
                 \/ \E failed \in BOOLEAN : ContainerExits(s, failed)
                 \/ Log(s) \/ LogGoesOn(s) \/ LoggerStops(s)
          PROVE  link' = link /\ known' = known
      BY <3>3 DEF Init, InitGoesOn, JobCtxDone, Done, DoneGoesOn, ContainerExits, Log,
         LogGoesOn, LoggerStops, dispatchVars, serverVars
    <3> QED
      BY <1>2, <3>1, <3>2, <3>3 DEF CalmStep
  <2>2. ASSUME link[a] = "down"
        PROVE  stream'[a] = Looping /\ wire'[a] = <<>> /\ \A s \in SlotsOf(a) : exec'[s] = Free
    <3>1. /\ stream[a] = Looping /\ wire[a] = <<>> /\ \A s \in SlotsOf(a) : exec[s] = Free
          /\ ~ServerEnd(a) /\ ~AgentEnd(a)
      BY <2>2 DEF LinkOK, ServerEnd, AgentEnd
    <3>2. stream'[a] = Looping
      BY <3>1, CalmStreams, Elsewhere DEF Assign, AssignGoesOn, Send, Poll
    <3>3. wire'[a] = <<>>
      <4>2. ~Send(a) /\ ~Recv(a)
        BY <3>1, Elsewhere DEF Send, Recv, RecvCancel, RecvJob
      <4>4. ASSUME NEW b \in AgentId, NEW m, Transmit(b, m)
            PROVE  wire'[a] = wire[a]
        BY <2>2, <4>4 DEF Transmit, Types, OwnTypes
      <4>5. ASSUME NEW b \in AgentId,
                   \/ Recv(b) \/ Send(b) \/ Assign(b) \/ AssignGoesOn(b)
                   \/ \E j \in JobId : Poll(b, j) \/ ForwardCancel(b, j)
            PROVE  wire'[a] = wire[a]
        <5>1. CASE Recv(b)
          <6>1. b # a /\ wire' = [wire EXCEPT ![b] = Tail(@)]
            BY <4>2, <5>1 DEF Recv, RecvCancel, RecvJob
          <6> QED
            BY <6>1 DEF Types, OwnTypes
        <5>2. CASE Send(b)
          BY <4>4, <5>2 DEF Send
        <5>3. ASSUME NEW j \in JobId, ForwardCancel(b, j)
              PROVE  wire'[a] = wire[a]
          BY <4>4, <5>3 DEF ForwardCancel
        <5> QED
          BY <4>5, <5>1, <5>2, <5>3 DEF Assign, AssignGoesOn, Poll
      <4>6. ASSUME NEW p \in Client, Handle(p)
            PROVE  wire' = wire
        BY <4>6 DEF Handle, dispatchVars
      <4>7. ASSUME NEW s \in Slot,
                   \/ Init(s) \/ InitGoesOn(s) \/ JobCtxDone(s) \/ Done(s) \/ DoneGoesOn(s)
                   \/ \E failed \in BOOLEAN : ContainerExits(s, failed)
                   \/ Log(s) \/ LogGoesOn(s) \/ LoggerStops(s)
            PROVE  wire' = wire
        BY <4>7 DEF Init, InitGoesOn, JobCtxDone, Done, DoneGoesOn, ContainerExits, Log,
           LogGoesOn, LoggerStops, dispatchVars
      <4> QED
        BY <1>2, <3>1, <4>5, <4>6, <4>7 DEF CalmStep
    <3>4. ASSUME NEW s \in SlotsOf(a)
          PROVE  exec'[s] = Free
      <4>1. s \in Slot /\ s[1] = a /\ exec[s] = Free
        BY <3>1 DEF SlotsOf
      <4> QED
        BY <3>1, <4>1, CalmExecutions, Elsewhere DEF Init, InitGoesOn, JobCtxDone, Done,
           DoneGoesOn, ContainerExits, RecvJob
    <3> QED
      BY <3>2, <3>3, <3>4
  <2> QED
    BY <2>1, <2>2 DEF LinkOK
<1> QED
  BY <1>1, <1>2

LEMMA Distinct ==
    /\ \A p \in Client : p \notin AgentId /\ p \notin Slot /\ \A s \in Slot : p # Logger(s)
    /\ \A a \in AgentId : a \notin Client /\ a \notin Slot /\ \A s \in Slot : a # Logger(s)
    /\ \A s \in Slot : s \notin Client /\ s \notin AgentId /\ \A t \in Slot : s # Logger(t)
    /\ \A s \in Slot : Logger(s) \notin Client /\ Logger(s) \notin AgentId /\ Logger(s) \notin Slot
    /\ \A s, t \in Slot : Logger(s) = Logger(t) => s = t
<1>1. \A s \in Slot : Logger(s) \notin Slot
  BY GoroutineAssumption
<1> QED
  BY <1>1, GoroutineAssumption

SameCall(p) ==
    /\ call'[p] # Idle /\ call'[p].op = call[p].op /\ call'[p].job = call[p].job
    /\ call'[p].row = call[p].row

\* What a step makes of the call it goes on with.
LEMMA GoesOn ==
    ASSUME Types, NEW p \in Proc, Save(p) \/ Enqueue(p) \/ PublishJobUpdate(p) \/ Signal(p)
    PROVE  /\ call[p] # Idle /\ call[p].job \in JobId
           /\ call'[p] = Idle \/ SameCall(p)
           /\ call[p].op \in {"assign", "status", "log"} =>
                 call'[p] = Idle \/ call'[p].pc = "publish"
           /\ Save(p) /\ call[p].op = "retry" => call'[p] # Idle /\ call'[p].pc = "enqueue"
           /\ Save(p) /\ call[p].op = "log" => call'[p] = Idle
<1>1. call[p] \in Call /\ call[p] # Idle
  BY DEF Types, TypeInv, TypeOK, Save, Enqueue, PublishJobUpdate, Signal
<1>2. PICK c : c = call[p]
  OBVIOUS
<1>3. \A pc : [c EXCEPT !.pc = pc].pc = pc /\ [c EXCEPT !.pc = pc].op = c.op
              /\ [c EXCEPT !.pc = pc].job = c.job /\ [c EXCEPT !.pc = pc].row = c.row
  BY <1>1, <1>2 DEF Call
<1>4. \A pc \in {"publish", "enqueue", "signal"} : [c EXCEPT !.pc = pc] # Idle
  BY <1>3 DEF Idle
<1>5. CASE Save(p)
  <2>1. call'[p] = AfterSave(c)
    BY <1>2, <1>5 DEF Save, Types, TypeInv, TypeOK
  <2> QED
    BY <1>1, <1>2, <1>3, <1>4, <2>1 DEF AfterSave, AfterPublish, SameCall, Call
<1>6. CASE PublishJobUpdate(p)
  <2>1. call'[p] = AfterPublish(c) /\ c.pc = "publish"
    BY <1>2, <1>6 DEF PublishJobUpdate, Types, TypeInv, TypeOK
  <2> QED
    BY <1>1, <1>2, <1>3, <1>4, <1>6, <2>1 DEF AfterPublish, SameCall, Call, Save
<1>7. CASE Enqueue(p)
  <2>1. call'[p] = Idle /\ c.pc = "enqueue"
    BY <1>2, <1>7 DEF Enqueue, Types, TypeInv, TypeOK
  <2> QED
    BY <1>1, <1>2, <2>1 DEF Save, Call
<1>8. CASE Signal(p)
  <2>1. call'[p] = Idle /\ c.pc = "signal"
    <3>1. ASSUME NEW b, PublishCancel(p, b)
          PROVE  call'[p] = Idle
      BY <3>1 DEF PublishCancel, Types, TypeInv, TypeOK
    <3> QED
      BY <1>2, <1>8, <3>1 DEF Signal
  <2> QED
    BY <1>1, <1>2, <2>1 DEF Save, Call
<1> QED
  BY <1>5, <1>6, <1>7, <1>8

LEMMA StartedCall ==
    ASSUME Types, NEW p \in Proc, NEW op, NEW j, NEW row, GetJob(p, op, j, row)
    PROVE  /\ call'[p] # Idle /\ call'[p].pc = "save" /\ call'[p].op = op
           /\ call'[p].job = j /\ call'[p].row = row
           /\ Exists(j) /\ UNCHANGED jobs
<1> DEFINE c == [pc |-> "save", op |-> op, job |-> j, row |-> row]
<1>1. call'[p] = c
  BY DEF GetJob, Start, Types, TypeInv, TypeOK
<1>2. c.pc = "save" /\ c.op = op /\ c.job = j /\ c.row = row
  OBVIOUS
<1>3. c # Idle
  BY <1>2 DEF Idle
<1> HIDE DEF c
<1> QED
  BY <1>1, <1>2, <1>3 DEF GetJob

LEMMA CalmHandlers ==
    ASSUME Types, CalmStep, NEW a \in AgentId, HandlerOK(a)
    PROVE  HandlerOK(a)'
<1>1. a \in Proc
  BY Goroutines
<1>2. ASSUME NEW to, StreamGoes(a, to)
      PROVE  stream'[a] = to
  BY <1>2 DEF StreamGoes, Types, OwnTypes
<1>3. ASSUME stream[a] # Looping, NEW pc
      PROVE  [stream[a] EXCEPT !.pc = pc].pc = pc /\ [stream[a] EXCEPT !.pc = pc].job = stream[a].job
  BY <1>3 DEF Types, OwnTypes, StreamAt
<1>4. CASE Assign(a)
  <2>1. stream[a] # Looping
    BY <1>4, Elsewhere DEF Assign
  <2>2. stream'[a].pc = "assign" /\ stream'[a].job = stream[a].job
    <3>1. StreamGoes(a, [stream[a] EXCEPT !.pc = "assign"])
      BY <1>4 DEF Assign
    <3>2. stream[a] \in StreamAt
      BY <2>1 DEF Types, OwnTypes
    <3>3. stream'[a] = [stream[a] EXCEPT !.pc = "assign"]
      BY <1>2, <3>1
    <3> QED
      BY <3>2, <3>3 DEF StreamAt
  <2>3. call'[a] # Idle /\ call'[a].op = "assign" /\ call'[a].job = stream[a].job
    BY <1>1, <1>4, StartedCall DEF Assign, AssignJob
  <2> QED
    BY <2>2, <2>3 DEF HandlerOK
<1>5. CASE AssignGoesOn(a)
  <2>1. stream[a] # Looping /\ stream[a].pc = "assign"
    BY <1>5, Elsewhere DEF AssignGoesOn
  <2>2. call[a].op = "assign" /\ call[a].job = stream[a].job
    BY <2>1 DEF HandlerOK
  <2>3. call'[a] = Idle \/ SameCall(a)
    BY <1>1, <1>5, GoesOn DEF AssignGoesOn
  <2>4. /\ call'[a] = Idle => stream'[a].pc = "send"
        /\ call'[a] # Idle => stream'[a].pc = "assign" /\ stream'[a].job = stream[a].job
    <3>1. CASE call'[a] = Idle
      <4>1. StreamGoes(a, [stream[a] EXCEPT !.pc = "send"])
        BY <1>5, <3>1 DEF AssignGoesOn
      <4> QED
        BY <1>2, <1>3, <2>1, <3>1, <4>1
    <3>2. CASE call'[a] # Idle
      <4>1. StreamGoes(a, [stream[a] EXCEPT !.pc = stream[a].pc])
        BY <1>5, <3>2 DEF AssignGoesOn
      <4> QED
        BY <1>2, <1>3, <2>1, <3>2, <4>1
    <3> QED
      BY <3>1, <3>2
  <2> QED
    BY <2>2, <2>3, <2>4 DEF HandlerOK, SameCall
<1>6. CASE Send(a)
  <2>1. stream[a].pc = "send" /\ stream'[a] = Looping /\ call' = call
    BY <1>2, <1>6 DEF Send, serviceVars
  <2> QED
    BY <2>1, Elsewhere DEF HandlerOK
<1>7. ASSUME NEW j \in JobId, Poll(a, j)
      PROVE  HandlerOK(a)'
  <2>1. stream[a] = Looping /\ stream'[a] = [pc |-> "popped", job |-> j] /\ call' = call
    BY <1>2, <1>7 DEF Poll, GetNextJob
  <2>2. stream'[a].pc = "popped"
    BY <2>1
  <2> QED
    BY <2>1, <2>2, Elsewhere DEF HandlerOK
<1>8. CASE stream'[a] = stream[a] /\ call'[a] = call[a]
  BY <1>8 DEF HandlerOK
<1> QED
  BY <1>1, <1>4, <1>5, <1>6, <1>7, <1>8, CalmStreams, CalmCalls, Distinct

LEMMA CalmClients ==
    ASSUME Types, CalmStep, NEW p \in Client, ClientOK(p)
    PROVE  ClientOK(p)'
<1>1. p \in Proc
  BY Goroutines
<1>2. CASE call'[p] = call[p]
  BY <1>2 DEF ClientOK
<1>3. CASE Save(p) \/ Enqueue(p) \/ PublishJobUpdate(p) \/ Signal(p)
  <2>1. call[p] # Idle /\ (call'[p] = Idle \/ SameCall(p))
    BY <1>1, <1>3, GoesOn
  <2>2. CASE call[p].op = "create"
    <3>1. Enqueue(p)
      BY <1>3, <2>1, <2>2 DEF ClientOK, Save, PublishJobUpdate, Signal
    <3>2. call'[p] = Idle
      BY <1>1, <3>1 DEF Enqueue, Types, TypeInv, TypeOK
    <3> QED
      BY <3>2 DEF ClientOK
  <2> QED
    BY <2>1, <2>2 DEF ClientOK, SameCall
<1>4. ASSUME NEW j \in JobId, Request(p, j)
      PROVE  ClientOK(p)'
  <2>1. CASE CreateJob(p, j)
    <3>1. call'[p] = [pc |-> "enqueue", op |-> "create", job |-> j, row |-> NewRow]
      BY <1>1, <2>1 DEF CreateJob, Start, Types, TypeInv, TypeOK
    <3>2. call'[p].op = "create" /\ call'[p].pc = "enqueue"
      BY <3>1
    <3> QED
      BY <3>2 DEF ClientOK
  <2>2. CASE CancelJob(p, j)
    <3>1. PICK r : r = [jobs[j] EXCEPT !.status = "cancelled", !.cancelled = TRUE]
      OBVIOUS
    <3>2. GetJob(p, "cancel", j, r)
      BY <2>2, <3>1 DEF CancelJob
    <3>3. call'[p].op = "cancel" /\ call'[p].row = r /\ Exists(j)
      BY <1>1, <3>2, StartedCall
    <3>4. r.status = "cancelled"
      BY <3>1, <3>3 DEF Types, TypeInv, TypeOK, Row
    <3> QED
      BY <3>3, <3>4 DEF ClientOK
  <2>3. CASE RetryJob(p, j)
    <3>1. call'[p].op = "retry"
      BY <1>1, <2>3, StartedCall DEF RetryJob
    <3> QED
      BY <3>1 DEF ClientOK
  <2> QED
    BY <1>4, <2>1, <2>2, <2>3 DEF Request
<1> QED
  BY <1>1, <1>2, <1>3, <1>4, CalmCalls, Distinct DEF Handle

\* The fields of an execution after the steps that are its own.
LEMMA ExecFields ==
    ASSUME Types, NEW s \in Slot, exec[s] # Free
    PROVE  /\ [exec[s] EXCEPT !.killed = TRUE].pc = exec[s].pc
           /\ [exec[s] EXCEPT !.killed = TRUE].job = exec[s].job
           /\ \A pc : /\ [exec[s] EXCEPT !.pc = pc].pc = pc
                      /\ [exec[s] EXCEPT !.pc = pc].job = exec[s].job
           /\ \A f : /\ [exec[s] EXCEPT !.pc = "report", !.failed = f].pc = "report"
                     /\ [exec[s] EXCEPT !.pc = "report", !.failed = f].job = exec[s].job
BY DEF Types, OwnTypes, Execution

LEMMA ExecSteps ==
    ASSUME Types, NEW s \in Slot
    PROVE  /\ Init(s) => /\ exec[s].pc = "init" /\ exec'[s].pc = "initing"
                         /\ exec'[s].job = exec[s].job
           /\ InitGoesOn(s) => /\ exec[s].pc = "initing"
                               /\ call'[s] = Idle => /\ exec'[s].pc = "run"
                                                     /\ exec'[s].job = exec[s].job
                                                     /\ logger'[s] = exec[s].job
                               /\ call'[s] # Idle => UNCHANGED <<exec, logger>>
           /\ JobCtxDone(s) => /\ exec[s].pc = "run" /\ exec'[s].pc = "report"
                               /\ exec'[s].job = exec[s].job
                               /\ exec[s].job \in cut'
           /\ Done(s) => /\ exec[s].pc = "report" /\ exec'[s].pc = "reporting"
                         /\ exec'[s].job = exec[s].job
           /\ DoneGoesOn(s) => /\ exec[s].pc = "reporting"
                               /\ call'[s] = Idle => exec'[s] = Free
                               /\ call'[s] # Idle => UNCHANGED exec
           /\ \A f \in BOOLEAN : ContainerExits(s, f) =>
                               /\ exec[s].pc = "run" /\ exec'[s].pc = "report"
                               /\ exec'[s].job = exec[s].job
                               /\ logger'[s] = NoJob
           /\ RecvJob(s[1], s) => /\ exec[s] = Free /\ exec'[s].pc = "init"
                                  /\ logger[s] = NoJob /\ call[s] = Idle
<1>1. exec \in [Slot -> Execution \cup {Free}] /\ logger \in [Slot -> JobId \cup {NoJob}]
  BY DEF Types, OwnTypes
<1>2. Init(s) => /\ exec[s].pc = "init" /\ exec'[s].pc = "initing"
                 /\ exec'[s].job = exec[s].job
  BY <1>1, ExecFields, Elsewhere DEF Init
<1>3. ASSUME InitGoesOn(s)
      PROVE  /\ exec[s].pc = "initing"
             /\ call'[s] = Idle => /\ exec'[s].pc = "run"
                                   /\ exec'[s].job = exec[s].job
                                   /\ logger'[s] = exec[s].job
             /\ call'[s] # Idle => UNCHANGED <<exec, logger>>
  <2>1. exec[s].pc = "initing" /\ exec[s] # Free
    BY <1>3, Elsewhere DEF InitGoesOn
  <2>2. call'[s] = Idle => /\ exec'[s] = [exec[s] EXCEPT !.pc = "run"]
                           /\ logger'[s] = exec[s].job
    BY <1>1, <1>3 DEF InitGoesOn
  <2>3. call'[s] # Idle => UNCHANGED <<exec, logger>>
    BY <1>3 DEF InitGoesOn
  <2>4. ASSUME call'[s] = Idle
        PROVE  exec'[s].pc = "run" /\ exec'[s].job = exec[s].job
    <3>1. exec[s] \in Execution /\ exec'[s] = [exec[s] EXCEPT !.pc = "run"]
      BY <1>1, <2>1, <2>2, <2>4
    <3> QED
      BY <3>1 DEF Execution
  <2> QED
    BY <2>1, <2>2, <2>3, <2>4
<1>4. JobCtxDone(s) => /\ exec[s].pc = "run" /\ exec'[s].pc = "report"
                       /\ exec'[s].job = exec[s].job
                       /\ exec[s].job \in cut'
  BY <1>1, ExecFields, Elsewhere DEF JobCtxDone
<1>5. Done(s) => /\ exec[s].pc = "report" /\ exec'[s].pc = "reporting"
                 /\ exec'[s].job = exec[s].job
  BY <1>1, ExecFields, Elsewhere DEF Done
<1>6. DoneGoesOn(s) => /\ exec[s].pc = "reporting"
                       /\ call'[s] = Idle => exec'[s] = Free
                       /\ call'[s] # Idle => UNCHANGED exec
  BY <1>1 DEF DoneGoesOn, Return
<1>7. \A f \in BOOLEAN : ContainerExits(s, f) =>
          /\ exec[s].pc = "run" /\ exec'[s].pc = "report"
          /\ exec'[s].job = exec[s].job
          /\ logger'[s] = NoJob
  BY <1>1, ExecFields, Elsewhere DEF ContainerExits
<1>8. RecvJob(s[1], s) => /\ exec[s] = Free /\ exec'[s].pc = "init"
                          /\ logger[s] = NoJob /\ call[s] = Idle
  BY <1>1 DEF RecvJob
<1>9. InitGoesOn(s) => /\ exec[s].pc = "initing"
                       /\ call'[s] = Idle => /\ exec'[s].pc = "run"
                                             /\ exec'[s].job = exec[s].job
                                             /\ logger'[s] = exec[s].job
                       /\ call'[s] # Idle => UNCHANGED <<exec, logger>>
  BY <1>3
<1> QED
  BY <1>2, <1>4, <1>5, <1>6, <1>7, <1>8, <1>9

LEMMA CalmSlots ==
    ASSUME Types, CalmStep, NEW s \in Slot, ExecutionOK(s)
    PROVE  ExecutionOK(s)'
<1>1. s \in Proc
  BY Goroutines
<1>2. CASE Init(s)
  <2>1. /\ call'[s] # Idle /\ call'[s].op = "status" /\ call'[s].job = exec[s].job
    BY <1>1, <1>2, StartedCall DEF Init, UpdateJobStatus
  <2> QED
    BY <1>2, <2>1, ExecSteps DEF ExecutionOK
<1>3. CASE Done(s)
  <2>1. PICK j \in JobId, st \in {"success", "failure"} :
            j = exec[s].job /\ UpdateJobStatus(s, j, st)
    <3>1. exec[s].job \in JobId
      BY <1>3, ExecTypes, Elsewhere DEF Done, Types
    <3> QED
      BY <1>3, <3>1 DEF Done
  <2>2. PICK r : r = [jobs[j] EXCEPT !.status = st]
    OBVIOUS
  <2>3. /\ call'[s] # Idle /\ call'[s].op = "status" /\ call'[s].job = j /\ call'[s].row = r
        /\ Exists(j)
    BY <1>1, <2>1, <2>2, StartedCall DEF UpdateJobStatus
  <2>4. r.status = st
    BY <2>2, <2>3 DEF Types, TypeInv, TypeOK, Row
  <2> QED
    BY <1>3, <2>1, <2>3, <2>4, ExecSteps DEF ExecutionOK
<1>4. CASE InitGoesOn(s)
  <2>1. call'[s] = Idle \/ SameCall(s)
    BY <1>1, <1>4, GoesOn DEF InitGoesOn
  <2>2. exec[s].pc = "initing" /\ call[s].op = "status" /\ call[s].job = exec[s].job
    BY <1>4, ExecSteps DEF ExecutionOK
  <2>3. CASE call'[s] = Idle
    BY <1>4, <2>3, ExecSteps DEF ExecutionOK
  <2>4. CASE call'[s] # Idle
    BY <1>4, <2>1, <2>2, <2>4, ExecSteps DEF ExecutionOK, SameCall
  <2> QED
    BY <2>3, <2>4
<1>5. CASE DoneGoesOn(s)
  <2>1. call'[s] = Idle \/ SameCall(s)
    BY <1>1, <1>5, GoesOn DEF DoneGoesOn
  <2>2. /\ exec[s].pc = "reporting" /\ call[s].op = "status" /\ call[s].job = exec[s].job
        /\ call[s].row.status \in {"success", "failure"}
    BY <1>5, ExecSteps DEF ExecutionOK
  <2>3. CASE call'[s] = Idle
    BY <1>5, <2>3, ExecSteps, Elsewhere DEF ExecutionOK
  <2>4. CASE call'[s] # Idle
    BY <1>5, <2>1, <2>2, <2>4, ExecSteps DEF ExecutionOK, SameCall
  <2> QED
    BY <2>3, <2>4
<1>6. CASE /\ ~Init(s) /\ ~InitGoesOn(s) /\ ~Done(s) /\ ~DoneGoesOn(s)
  <2>1. call'[s] = call[s]
    BY <1>1, <1>6, CalmCalls, Distinct
  <2>2. \/ exec'[s] = exec[s]
        \/ exec[s] # Free /\ exec'[s] = [exec[s] EXCEPT !.killed = TRUE]
        \/ JobCtxDone(s) \/ \E f \in BOOLEAN : ContainerExits(s, f)
        \/ RecvJob(s[1], s)
    BY <1>6, CalmExecutions
  <2>3. CASE exec'[s] = exec[s]
    BY <2>1, <2>3 DEF ExecutionOK
  <2>4. CASE exec[s] # Free /\ exec'[s] = [exec[s] EXCEPT !.killed = TRUE]
    BY <2>1, <2>4, ExecFields DEF ExecutionOK
  <2>5. CASE JobCtxDone(s) \/ RecvJob(s[1], s) \/ \E f \in BOOLEAN : ContainerExits(s, f)
    <3>1. exec[s].pc \in {"run", "free"} /\ exec'[s].pc \in {"report", "init"}
      BY <2>5, ExecSteps, Elsewhere
    <3> QED
      BY <2>1, <3>1 DEF ExecutionOK
  <2> QED
    BY <2>2, <2>3, <2>4, <2>5
<1> QED
  BY <1>2, <1>3, <1>4, <1>5, <1>6

LEMMA CutGrows ==
    ASSUME CalmStep
    PROVE  cut \subseteq cut'
<1>1. ASSUME NEW a \in AgentId,
             \/ Connect(a) \/ Recv(a) \/ Assign(a) \/ AssignGoesOn(a) \/ Send(a)
             \/ \E j \in JobId : Poll(a, j) \/ ForwardCancel(a, j)
      PROVE  cut' = cut
  BY <1>1 DEF Connect, Recv, RecvCancel, RecvJob, Assign, AssignGoesOn, Send, Poll,
     ForwardCancel, history
<1>2. ASSUME NEW s \in Slot,
             \/ Init(s) \/ InitGoesOn(s) \/ JobCtxDone(s) \/ Done(s) \/ DoneGoesOn(s)
             \/ \E failed \in BOOLEAN : ContainerExits(s, failed)
             \/ Log(s) \/ LogGoesOn(s) \/ LoggerStops(s)
      PROVE  cut \subseteq cut'
  BY <1>2 DEF Init, InitGoesOn, JobCtxDone, Done, DoneGoesOn, ContainerExits, Log, LogGoesOn,
     LoggerStops, dispatchVars, history
<1>3. ASSUME NEW p \in Client, Handle(p)
      PROVE  cut' = cut
  BY <1>3 DEF Handle, dispatchVars, history
<1> QED
  BY <1>1, <1>2, <1>3 DEF CalmStep

LEMMA CalmOutputs ==
    ASSUME Types, CalmStep, NEW s \in Slot, LoggerOK(s), ExecutionOK(s)
    PROVE  LoggerOK(s)'
<1> DEFINE l == Logger(s)
           CallOK == call[l] # Idle => /\ logger[s] # NoJob /\ call[l].job = logger[s]
                                       /\ call[l].op = "log"
           RunOK == logger[s] # NoJob => \/ logger[s] \in cut
                                         \/ exec[s].pc = "run" /\ exec[s].job = logger[s]
           NewOK == exec[s].pc \in {"init", "initing"} => logger[s] = NoJob
<1>1. l \in Proc /\ cut \subseteq cut'
  BY Goroutines, CutGrows
<1>2. CallOK /\ RunOK /\ NewOK
  BY DEF LoggerOK
<1>3. CASE InitGoesOn(s)
  <2>1. call'[l] = call[l] /\ call[l] = Idle
    <3>1. call'[l] = call[l] \/ \E t \in Slot : l = Logger(t) /\ (Log(t) \/ LogGoesOn(t))
      BY <1>1, CalmCalls, Distinct
    <3>2. call[l] = Idle /\ logger[s] = NoJob
      BY <1>2, <1>3, ExecSteps
    <3>3. ~Log(s) /\ ~LogGoesOn(s)
      BY <3>2 DEF Log, LogGoesOn, Save
    <3> QED
      BY <3>1, <3>2, <3>3, Distinct
  <2>2. CASE call'[s] = Idle
    BY <1>3, <2>1, <2>2, ExecSteps DEF LoggerOK
  <2>3. CASE call'[s] # Idle
    <3>1. exec' = exec /\ logger' = logger
      BY <1>3, <2>3, ExecSteps
    <3> QED
      BY <1>1, <1>2, <2>1, <3>1 DEF LoggerOK
  <2> QED
    BY <2>2, <2>3
<1>4. ASSUME NEW f \in BOOLEAN, ContainerExits(s, f)
      PROVE  LoggerOK(s)'
  <2>1. call'[l] = Idle
    BY <1>4 DEF ContainerExits, serviceVars
  <2> QED
    BY <1>4, <2>1, ExecSteps DEF LoggerOK
<1>5. CASE LoggerStops(s)
  <2>1. call'[l] = Idle /\ logger'[s] = NoJob
    BY <1>5 DEF LoggerStops, serviceVars, Types, OwnTypes
  <2> QED
    BY <2>1 DEF LoggerOK
<1>6. CASE logger'[s] = logger[s] /\ ~InitGoesOn(s) /\ ~\E f \in BOOLEAN : ContainerExits(s, f)
  <2>1. call'[l] # Idle => /\ logger[s] # NoJob /\ call'[l].job = logger[s]
                           /\ call'[l].op = "log"
    <3>1. \/ call'[l] = call[l] \/ Log(s) \/ LogGoesOn(s)
      BY <1>1, CalmCalls, Distinct
    <3>2. CASE Log(s)
      BY <1>1, <3>2, StartedCall DEF Log, ProcessLog
    <3>3. CASE LogGoesOn(s)
      BY <1>1, <1>2, <3>3, GoesOn DEF LogGoesOn, SameCall
    <3> QED
      BY <1>2, <3>1, <3>2, <3>3
  <2>2. \/ exec'[s] = exec[s]
        \/ exec[s] # Free /\ exec'[s] = [exec[s] EXCEPT !.killed = TRUE]
        \/ Init(s) \/ JobCtxDone(s) \/ Done(s) \/ DoneGoesOn(s) \/ RecvJob(s[1], s)
    BY <1>6, CalmExecutions
  <2>3. /\ logger[s] # NoJob => \/ logger[s] \in cut'
                                \/ exec'[s].pc = "run" /\ exec'[s].job = logger[s]
        /\ exec'[s].pc \in {"init", "initing"} => logger[s] = NoJob
    <3>1. CASE exec'[s] = exec[s]
      BY <1>1, <1>2, <3>1
    <3>2. CASE exec[s] # Free /\ exec'[s] = [exec[s] EXCEPT !.killed = TRUE]
      BY <1>1, <1>2, <3>2, ExecFields
    <3>3. CASE Init(s) \/ RecvJob(s[1], s)
      BY <1>2, <3>3, ExecSteps
    <3>4. CASE JobCtxDone(s)
      BY <1>1, <1>2, <3>4, ExecSteps
    <3>5. CASE Done(s) \/ DoneGoesOn(s)
      <4>1. exec[s].pc \in {"report", "reporting"} /\ exec'[s].pc \in {"reporting", "free"}
        BY <3>5, ExecSteps, Elsewhere
      <4> QED
        BY <1>1, <1>2, <4>1
    <3> QED
      BY <2>2, <3>1, <3>2, <3>3, <3>4, <3>5
  <2> QED
    BY <1>6, <2>1, <2>3 DEF LoggerOK
<1> QED
  BY <1>3, <1>4, <1>5, <1>6, CalmLoggers

LEMMA CalmInvStep ==
    ASSUME Types, CalmInv, DispatchNext
    PROVE  CalmInv'
<1> SUFFICES ASSUME faults' = 0
             PROVE  /\ \A a \in AgentId : LinkOK(a)' /\ HandlerOK(a)'
                    /\ \A s \in Slot : ExecutionOK(s)' /\ LoggerOK(s)'
                    /\ \A p \in Client : ClientOK(p)'
  BY DEF CalmInv
<1>1. /\ CalmStep
      /\ \A a \in AgentId : LinkOK(a) /\ HandlerOK(a)
      /\ \A s \in Slot : ExecutionOK(s) /\ LoggerOK(s)
      /\ \A p \in Client : ClientOK(p)
  BY CalmMoves DEF CalmInv
<1> QED
  BY <1>1, CalmLinks, CalmHandlers, CalmSlots, CalmOutputs, CalmClients

LEMMA CalmHolds == DispatchSpec => []CalmInv
<1>1. DispatchInit => CalmInv
  BY Goroutines, Elsewhere DEF DispatchInit, ServiceInit, CalmInv, LinkOK, HandlerOK,
     ExecutionOK, LoggerOK, ClientOK, SlotsOf
<1>2. Types /\ CalmInv /\ UNCHANGED vars => CalmInv'
  BY DEF vars, dispatchVars, serverVars, agentVars, serviceVars, history, CalmInv, LinkOK,
     HandlerOK, ExecutionOK, LoggerOK, ClientOK
<1>3. Types /\ CalmInv /\ [DispatchNext]_vars => CalmInv'
  BY <1>2, CalmInvStep
<1> QED
  BY <1>1, <1>3, TypesHold, PTL DEF DispatchSpec

LEMMA CalmQueue ==
    ASSUME Types, CalmStep, NEW j \in JobId
    PROVE  queue'[j] \in {queue[j], queue[j] + 1} \/ \E a \in AgentId : Poll(a, j)
<1>1. queue \in [JobId -> Nat]
  BY DEF Types, TypeInv, TypeOK
<1>2. ASSUME NEW p \in Proc, Save(p) \/ Enqueue(p) \/ PublishJobUpdate(p) \/ Signal(p)
      PROVE  queue'[j] \in {queue[j], queue[j] + 1}
  BY <1>1, <1>2 DEF Save, Enqueue, PublishJobUpdate, Signal, PublishCancel
<1>3. ASSUME NEW op, NEW i, NEW p, NEW row, GetJob(p, op, i, row)
      PROVE  queue' = queue
  BY <1>3 DEF GetJob
<1>4. ASSUME NEW p \in Client, Handle(p)
      PROVE  queue'[j] \in {queue[j], queue[j] + 1}
  BY <1>2, <1>3, <1>4, Goroutines DEF Handle, Request, CreateJob, CancelJob, RetryJob
<1>5. ASSUME NEW a \in AgentId, NEW i \in JobId, Poll(a, i), i # j
      PROVE  queue'[j] = queue[j]
  BY <1>1, <1>5 DEF Poll, GetNextJob
<1>6. ASSUME NEW a \in AgentId,
             \/ Connect(a) \/ Recv(a) \/ Assign(a) \/ AssignGoesOn(a) \/ Send(a)
             \/ \E i \in JobId : ForwardCancel(a, i)
      PROVE  queue'[j] \in {queue[j], queue[j] + 1}
  BY <1>2, <1>3, <1>6, Goroutines DEF Connect, Recv, RecvCancel, RecvJob, Assign, AssignJob,
     AssignGoesOn, Send, ForwardCancel, serviceVars
<1>7. ASSUME NEW s \in Slot,
             \/ Init(s) \/ InitGoesOn(s) \/ JobCtxDone(s) \/ Done(s) \/ DoneGoesOn(s)
             \/ \E failed \in BOOLEAN : ContainerExits(s, failed)
             \/ Log(s) \/ LogGoesOn(s) \/ LoggerStops(s)
      PROVE  queue'[j] \in {queue[j], queue[j] + 1}
  BY <1>2, <1>3, <1>7, Goroutines DEF Init, UpdateJobStatus, InitGoesOn, JobCtxDone, Done,
     DoneGoesOn, ContainerExits, Log, ProcessLog, LogGoesOn, LoggerStops, serviceVars
<1> QED
  BY <1>4, <1>5, <1>6, <1>7 DEF CalmStep

LEMMA CalmWires ==
    ASSUME Types, CalmStep, NEW a \in AgentId
    PROVE  wire'[a] = wire[a] \/ Recv(a) \/ \E m \in Message : wire'[a] = Append(wire[a], m)
<1>1. ASSUME NEW b \in AgentId, NEW m \in Message, Transmit(b, m)
      PROVE  wire'[a] = wire[a] \/ wire'[a] = Append(wire[a], m)
  BY <1>1 DEF Transmit, Types, OwnTypes
<1>2. ASSUME NEW b \in AgentId, Send(b)
      PROVE  wire'[a] = wire[a] \/ \E m \in Message : wire'[a] = Append(wire[a], m)
  <2>1. stream[b].job \in JobId
    BY <1>2, StreamTypes, Elsewhere DEF Send, Types
  <2>2. [cancel |-> FALSE, job |-> stream[b].job] \in Message
    BY <2>1 DEF Message
  <2> QED
    BY <1>1, <1>2, <2>2 DEF Send
<1>3. ASSUME NEW b \in AgentId, NEW j \in JobId, ForwardCancel(b, j)
      PROVE  wire'[a] = wire[a] \/ \E m \in Message : wire'[a] = Append(wire[a], m)
  <2>1. [cancel |-> TRUE, job |-> j] \in Message
    BY DEF Message
  <2> QED
    BY <1>1, <1>3, <2>1 DEF ForwardCancel
<1>4. ASSUME NEW b \in AgentId, Recv(b), b # a
      PROVE  wire'[a] = wire[a]
  <2>1. wire' = [wire EXCEPT ![b] = Tail(@)]
    BY <1>4 DEF Recv, RecvCancel, RecvJob
  <2> QED
    BY <1>4, <2>1 DEF Types, OwnTypes
<1>5. ASSUME NEW b \in AgentId,
             Connect(b) \/ Assign(b) \/ AssignGoesOn(b) \/ \E j \in JobId : Poll(b, j)
      PROVE  wire' = wire
  BY <1>5 DEF Connect, Assign, AssignGoesOn, Poll
<1>6. ASSUME NEW p \in Client, Handle(p)
      PROVE  wire' = wire
  BY <1>6 DEF Handle, dispatchVars
<1>7. ASSUME NEW s \in Slot,
             \/ Init(s) \/ InitGoesOn(s) \/ JobCtxDone(s) \/ Done(s) \/ DoneGoesOn(s)
             \/ \E failed \in BOOLEAN : ContainerExits(s, failed)
             \/ Log(s) \/ LogGoesOn(s) \/ LoggerStops(s)
      PROVE  wire' = wire
  BY <1>7 DEF Init, InitGoesOn, JobCtxDone, Done, DoneGoesOn, ContainerExits, Log, LogGoesOn,
     LoggerStops, dispatchVars
<1> QED
  BY <1>2, <1>3, <1>4, <1>5, <1>6, <1>7 DEF CalmStep

LEMMA CalmRows ==
    ASSUME Types, CalmStep, NEW j \in JobId
    PROVE  \/ jobs'[j] = jobs[j]
           \/ \E p \in Client : CreateJob(p, j)
           \/ \E p \in Proc : /\ Save(p) /\ call[p].job = j /\ jobs'[j] = call[p].row
                              /\ \/ p \in Client
                                 \/ p \in AgentId /\ AssignGoesOn(p)
                                 \/ p \in Slot /\ (InitGoesOn(p) \/ DoneGoesOn(p))
                                 \/ \E s \in Slot : p = Logger(s) /\ LogGoesOn(s)
<1>1. jobs \in [JobId -> Row \cup {NoRow}]
  BY DEF Types, TypeInv, TypeOK
<1>2. ASSUME NEW p \in Proc, Save(p)
      PROVE  jobs'[j] = jobs[j] \/ (call[p].job = j /\ jobs'[j] = call[p].row)
  BY <1>1, <1>2 DEF Save
<1>3. ASSUME NEW p \in Proc, Enqueue(p) \/ PublishJobUpdate(p) \/ Signal(p)
      PROVE  jobs' = jobs
  BY <1>3 DEF Enqueue, PublishJobUpdate, Signal, PublishCancel
<1>4. ASSUME NEW op, NEW i, NEW p, NEW row, GetJob(p, op, i, row)
      PROVE  jobs' = jobs
  BY <1>4 DEF GetJob
<1>5. ASSUME NEW p \in Client, NEW i \in JobId, CreateJob(p, i), i # j
      PROVE  jobs'[j] = jobs[j]
  BY <1>1, <1>5 DEF CreateJob
<1>6. ASSUME NEW p \in Client, Handle(p)
      PROVE  jobs'[j] = jobs[j] \/ CreateJob(p, j) \/ Save(p)
  BY <1>3, <1>4, <1>5, <1>6, Goroutines DEF Handle, Request, CancelJob, RetryJob
<1>7. ASSUME NEW a \in AgentId,
             \/ Connect(a) \/ Recv(a) \/ Assign(a) \/ Send(a)
             \/ \E i \in JobId : Poll(a, i) \/ ForwardCancel(a, i)
      PROVE  jobs' = jobs
  BY <1>4, <1>7 DEF Connect, Recv, RecvCancel, RecvJob, Assign, AssignJob,
     Send, Poll, GetNextJob, ForwardCancel, serviceVars
<1>8. ASSUME NEW s \in Slot,
             \/ Init(s) \/ JobCtxDone(s) \/ Done(s)
             \/ \E failed \in BOOLEAN : ContainerExits(s, failed)
             \/ Log(s) \/ LoggerStops(s)
      PROVE  jobs' = jobs
  BY <1>4, <1>8 DEF Init, UpdateJobStatus, JobCtxDone, Done, ContainerExits, Log, ProcessLog,
     LoggerStops, serviceVars
<1>9. ASSUME NEW a \in AgentId, AssignGoesOn(a)
      PROVE  jobs' = jobs \/ Save(a)
  BY <1>3, <1>9, Goroutines DEF AssignGoesOn
<1>10. ASSUME NEW s \in Slot, InitGoesOn(s) \/ DoneGoesOn(s)
       PROVE  jobs' = jobs \/ Save(s)
  BY <1>3, <1>10, Goroutines DEF InitGoesOn, DoneGoesOn
<1>11. ASSUME NEW s \in Slot, LogGoesOn(s)
       PROVE  Save(Logger(s))
  BY <1>11 DEF LogGoesOn
<1> QED
  BY <1>2, <1>6, <1>7, <1>8, <1>9, <1>10, <1>11, Goroutines DEF CalmStep

\* How somebody who has a job loses it: to the next one, or because it is
\* done.
LEMMA SlotKeepsOwning ==
    ASSUME Types, CalmStep, NEW s \in Slot, ExecutionOK(s), Unfinished(s),
           NEW j \in JobId, exec[s].job = j
    PROVE  Owned(j)' \/ j \in cut' \/ ~Open(j)'
<1>1. s \in Proc /\ exec[s] \in Execution
  BY Goroutines DEF Unfinished, Types, OwnTypes
<1>2. ASSUME exec'[s].job = j, exec'[s].pc \in {"init", "initing", "run", "report"}
      PROVE  Owned(j)'
  <2>1. exec'[s] # Free
    BY <1>2, Elsewhere
  <2> QED
    BY <1>2, <2>1 DEF Owned, Unfinished
<1>3. CASE Init(s) \/ JobCtxDone(s) \/ \E f \in BOOLEAN : ContainerExits(s, f)
  BY <1>2, <1>3, ExecSteps
<1>4. CASE InitGoesOn(s)
  <2>1. exec'[s] = exec[s] \/ (exec'[s].pc = "run" /\ exec'[s].job = exec[s].job)
    BY <1>4, ExecSteps
  <2> QED
    BY <1>2, <1>4, <2>1, ExecSteps
<1>5. CASE Done(s)
  <2>1. exec'[s].job = j /\ exec'[s].pc = "reporting" /\ exec'[s] # Free
    BY <1>5, ExecSteps, Elsewhere
  <2>2. call'[s] # Idle /\ call'[s].pc = "save"
    BY <1>1, <1>5, StartedCall DEF Done, UpdateJobStatus
  <2> QED
    BY <2>1, <2>2 DEF Owned, Unfinished
<1>6. CASE DoneGoesOn(s)
  <2>1. exec[s].pc = "reporting" /\ call[s] # Idle /\ call[s].pc = "save"
    BY <1>6 DEF DoneGoesOn, Unfinished
  <2>2. Save(s)
    BY <1>6, <2>1 DEF DoneGoesOn, PublishJobUpdate
  <2>3. call[s].job = j /\ call[s].row.status \in {"success", "failure"}
    BY <2>1 DEF ExecutionOK
  <2>4. jobs'[j] = call[s].row
    BY <2>2, <2>3 DEF Save, Types, TypeInv, TypeOK
  <2> QED
    BY <2>3, <2>4 DEF Open
<1>7. CASE /\ ~Init(s) /\ ~InitGoesOn(s) /\ ~Done(s) /\ ~DoneGoesOn(s) /\ ~JobCtxDone(s)
           /\ ~\E f \in BOOLEAN : ContainerExits(s, f)
  <2>1. call'[s] = call[s]
    BY <1>1, <1>7, CalmCalls, Distinct
  <2>2. exec'[s] = exec[s] \/ exec'[s] = [exec[s] EXCEPT !.killed = TRUE]
    BY <1>7, CalmExecutions, ExecSteps DEF Unfinished
  <2>3. exec'[s].pc = exec[s].pc /\ exec'[s].job = j /\ exec'[s] # Free
    BY <1>1, <2>2, Elsewhere DEF Execution
  <2> QED
    BY <2>1, <2>3 DEF Owned, Unfinished
<1> QED
  BY <1>3, <1>4, <1>5, <1>6, <1>7

LEMMA StreamKeepsOwning ==
    ASSUME Types, CalmStep, NEW a \in AgentId, LinkOK(a), NEW j \in JobId,
           stream[a] # Looping, stream[a].job = j
    PROVE  Owned(j)'
<1>1. stream[a] \in StreamAt /\ link[a] = "up"
  BY DEF LinkOK, Types, OwnTypes
<1>2. CASE Assign(a)
  <2>1. stream'[a] = [stream[a] EXCEPT !.pc = "assign"]
    BY <1>2 DEF Assign, StreamGoes, Types, OwnTypes
  <2>2. stream'[a].pc = "assign" /\ stream'[a].job = j
    BY <1>1, <2>1 DEF StreamAt
  <2> QED
    BY <2>2, Elsewhere DEF Owned
<1>3. CASE AssignGoesOn(a)
  <2>1. stream'[a] \in {[stream[a] EXCEPT !.pc = "send"], [stream[a] EXCEPT !.pc = "assign"]}
    BY <1>1, <1>3 DEF AssignGoesOn, StreamGoes, Types, OwnTypes
  <2>2. stream'[a].pc \in {"send", "assign"} /\ stream'[a].job = j
    BY <1>1, <2>1 DEF StreamAt
  <2> QED
    BY <2>2, Elsewhere DEF Owned
<1>4. CASE Send(a)
  <2>1. PICK m : m = JobMessage(j)
    OBVIOUS
  <2>2. wire'[a] = Append(wire[a], m)
    BY <1>1, <1>4, <2>1 DEF Send, Transmit, JobMessage, Types, OwnTypes
  <2>3. wire[a] \in Seq(Message) /\ m \in Message
    BY <2>1 DEF Types, OwnTypes, JobMessage, Message
  <2>4. Len(wire[a]) + 1 \in DOMAIN wire'[a] /\ wire'[a][Len(wire[a]) + 1] = m
    BY <2>2, <2>3
  <2> QED
    BY <2>1, <2>4 DEF Owned
<1>5. CASE stream'[a] = stream[a]
  BY <1>5 DEF Owned
<1>6. \A i \in JobId : ~Poll(a, i)
  BY DEF Poll
<1> QED
  BY <1>2, <1>3, <1>4, <1>5, <1>6, CalmStreams

LEMMA WireKeepsOwning ==
    ASSUME Types, CalmStep, NEW a \in AgentId, NEW j \in JobId,
           NEW i \in DOMAIN wire[a], wire[a][i] = JobMessage(j)
    PROVE  Owned(j)'
<1>1. wire[a] \in Seq(Message) /\ i \in 1 .. Len(wire[a]) /\ Len(wire[a]) \in Nat
  BY DEF Types, OwnTypes
<1>2. CASE wire'[a] = wire[a]
  BY <1>2 DEF Owned
<1>3. ASSUME NEW m \in Message, wire'[a] = Append(wire[a], m)
      PROVE  Owned(j)'
  <2>1. i \in DOMAIN wire'[a] /\ wire'[a][i] = wire[a][i]
    BY <1>1, <1>3
  <2> QED
    BY <2>1 DEF Owned
<1>4. CASE Recv(a)
  <2>1. wire[a] # <<>>
    BY <1>4 DEF Recv, RecvCancel, RecvJob
  <2>2. CASE i = 1
    <3>1. Head(wire[a]) = JobMessage(j)
      BY <1>1, <2>1, <2>2
    <3>2. ~Head(wire[a]).cancel /\ Head(wire[a]).job = j
      BY <3>1 DEF JobMessage
    <3>3. PICK s \in SlotsOf(a) : RecvJob(a, s)
      BY <1>4, <3>2 DEF Recv, RecvCancel
    <3>4. s \in Slot /\ exec'[s].pc = "init" /\ exec'[s].job = j
      BY <3>2, <3>3 DEF SlotsOf, RecvJob, Types, OwnTypes
    <3> QED
      BY <3>4, Elsewhere DEF Owned, Unfinished
  <2>3. CASE i # 1
    <3>1. PICK t : t = Tail(wire[a])
      OBVIOUS
    <3>2. /\ t \in Seq(Message) /\ Len(t) = Len(wire[a]) - 1
          /\ \A k \in 1 .. Len(t) : t[k] = wire[a][k + 1]
      BY <1>1, <2>1, <3>1, HeadTailProperties
    <3>3. wire'[a] = t
      BY <1>4, <3>1 DEF Recv, RecvCancel, RecvJob, Types, OwnTypes
    <3>4. i - 1 \in 1 .. Len(t) /\ (i - 1) + 1 = i /\ DOMAIN t = 1 .. Len(t)
      BY <1>1, <2>3, <3>2
    <3>5. i - 1 \in DOMAIN wire'[a] /\ wire'[a][i - 1] = JobMessage(j)
      BY <3>2, <3>3, <3>4
    <3> QED
      BY <3>5 DEF Owned
  <2> QED
    BY <2>2, <2>3
<1> QED
  BY <1>2, <1>3, <1>4, CalmWires

LEMMA KeepsExpected ==
    ASSUME Types, CalmStep, \A a \in AgentId : LinkOK(a), \A s \in Slot : ExecutionOK(s),
           NEW j \in JobId, Expected(j)
    PROVE  Expected(j)' \/ j \in cut' \/ ~Open(j)'
<1>1. CASE queue[j] > 0
  <2>1. queue[j] \in Nat
    BY DEF Types, TypeInv, TypeOK
  <2>2. CASE queue'[j] \in {queue[j], queue[j] + 1}
    BY <1>1, <2>1, <2>2 DEF Expected
  <2>3. ASSUME NEW a \in AgentId, Poll(a, j)
        PROVE  Expected(j)'
    <3>1. stream'[a] = [pc |-> "popped", job |-> j]
      BY <2>3 DEF Poll, StreamGoes, Types, OwnTypes
    <3>2. stream'[a].pc = "popped" /\ stream'[a].job = j
      BY <3>1
    <3> QED
      BY <3>2, Elsewhere DEF Expected, Owned
  <2> QED
    BY <2>2, <2>3, CalmQueue
<1>2. ASSUME NEW p \in Client, WorkingOn(p, j), call[p].pc = "enqueue"
      PROVE  Expected(j)'
  <2>1. p \in Proc
    BY Goroutines
  <2>2. CASE call'[p] = call[p]
    BY <1>2, <2>2 DEF Expected, WorkingOn
  <2>3. CASE Enqueue(p)
    <3>1. queue'[j] = queue[j] + 1 /\ queue[j] \in Nat
      BY <1>2, <2>3 DEF WorkingOn, Enqueue, Types, TypeInv, TypeOK
    <3> QED
      BY <3>1 DEF Expected
  <2>4. Handle(p) => Enqueue(p)
    BY <1>2 DEF Handle, WorkingOn, Request, CreateJob, CancelJob, RetryJob, GetJob, Start,
       Save, PublishJobUpdate, Signal
  <2> QED
    BY <2>1, <2>2, <2>3, <2>4, CalmCalls, Distinct
<1>3. CASE Owned(j)
  BY <1>3, SlotKeepsOwning, StreamKeepsOwning, WireKeepsOwning DEF Owned, Expected
<1> QED
  BY <1>1, <1>2, <1>3 DEF Expected

\* Who makes a row say pending or running has the job, or queues it.
LEMMA OpensExpected ==
    ASSUME Types, CalmInv, CalmStep, faults = 0, NEW j \in JobId,
           Open(j)', jobs'[j] # jobs[j], j \notin cut
    PROVE  Expected(j)'
<1>1. ASSUME NEW p \in Client, CreateJob(p, j)
      PROVE  Expected(j)'
  <2>1. call'[p] = [pc |-> "enqueue", op |-> "create", job |-> j, row |-> NewRow]
    BY <1>1, Goroutines DEF CreateJob, Start, Types, TypeInv, TypeOK
  <2>2. call'[p].pc = "enqueue" /\ call'[p].job = j /\ call'[p] # Idle
    <3>1. PICK c : c = [pc |-> "enqueue", op |-> "create", job |-> j, row |-> NewRow]
      OBVIOUS
    <3>2. c.pc = "enqueue" /\ c.job = j
      BY <3>1
    <3>3. c # Idle
      BY <3>2 DEF Idle
    <3> QED
      BY <2>1, <3>1, <3>2, <3>3
  <2> QED
    BY <2>2 DEF Expected, WorkingOn
<1>2. ASSUME NEW p \in Proc, Save(p), call[p].job = j, jobs'[j] = call[p].row
      PROVE  /\ call[p] # Idle /\ call[p].pc = "save"
             /\ call[p].row.status \in {"pending", "running"}
  BY <1>2 DEF Save, Open
<1>3. ASSUME NEW p \in Client, Save(p), call[p].job = j, jobs'[j] = call[p].row
      PROVE  Expected(j)'
  <2>1. p \in Proc /\ ClientOK(p)
    BY <1>3, Goroutines DEF CalmInv
  <2>2. call[p].op = "retry"
    BY <1>2, <1>3, <2>1 DEF ClientOK
  <2>3. call'[p] # Idle /\ call'[p].pc = "enqueue" /\ call'[p].job = j
    BY <1>3, <2>1, <2>2, GoesOn DEF SameCall
  <2> QED
    BY <2>3 DEF Expected, WorkingOn
<1>4. ASSUME NEW a \in AgentId, AssignGoesOn(a), call[a].job = j
      PROVE  Expected(j)'
  <2>1. stream[a] # Looping /\ stream[a].job = j
    BY <1>4, Elsewhere DEF AssignGoesOn, CalmInv, HandlerOK
  <2>2. LinkOK(a)
    BY DEF CalmInv
  <2> QED
    BY <2>1, <2>2, StreamKeepsOwning DEF Expected
<1>5. ASSUME NEW s \in Slot, InitGoesOn(s) \/ DoneGoesOn(s), Save(s), call[s].job = j,
             jobs'[j] = call[s].row
      PROVE  Expected(j)'
  <2>1. s \in Proc /\ ExecutionOK(s) /\ call[s].row.status \in {"pending", "running"}
    BY <1>2, <1>5, Goroutines DEF CalmInv
  <2>2. InitGoesOn(s) /\ exec[s].pc = "initing" /\ exec[s].job = j
    BY <1>5, <2>1, ExecSteps DEF ExecutionOK
  <2>3. exec'[s].pc \in {"initing", "run"} /\ exec'[s].job = j
    BY <2>2, ExecSteps
  <2>4. exec'[s] # Free
    BY <2>3, Elsewhere
  <2> QED
    BY <2>3, <2>4 DEF Expected, Owned, Unfinished
<1>6. ASSUME NEW s \in Slot, LogGoesOn(s), call[Logger(s)].job = j
      PROVE  Expected(j)'
  <2>1. LoggerOK(s) /\ call[Logger(s)] # Idle
    BY <1>6 DEF CalmInv, LogGoesOn, Save
  <2>2. exec[s].pc = "run" /\ exec[s].job = j
    BY <1>6, <2>1 DEF LoggerOK
  <2>3. exec' = exec /\ exec[s] # Free
    BY <1>6, <2>2, Elsewhere DEF LogGoesOn, dispatchVars, agentVars
  <2> QED
    BY <2>2, <2>3 DEF Expected, Owned, Unfinished
<1> QED
  BY <1>1, <1>3, <1>4, <1>5, <1>6, CalmRows

LEMMA ExpectStep ==
    ASSUME Types, CalmInv, ExpectInv, DispatchNext
    PROVE  ExpectInv'
<1> SUFFICES ASSUME faults' = 0, NEW j \in JobId, Open(j)', j \notin cut'
             PROVE  Expected(j)'
  BY DEF ExpectInv
<1>1. faults = 0 /\ CalmStep
  BY CalmMoves
<1>2. j \notin cut
  BY <1>1, CutGrows
<1>3. CASE jobs'[j] # jobs[j]
  BY <1>1, <1>2, <1>3, OpensExpected
<1>4. CASE jobs'[j] = jobs[j]
  <2>1. Expected(j)
    BY <1>1, <1>2, <1>4 DEF ExpectInv, Open
  <2>2. (\A a \in AgentId : LinkOK(a)) /\ \A s \in Slot : ExecutionOK(s)
    BY <1>1 DEF CalmInv
  <2> QED
    BY <1>1, <2>1, <2>2, KeepsExpected
<1> QED
  BY <1>3, <1>4

LEMMA ExpectHolds == DispatchSpec => []ExpectInv
<1>1. DispatchInit => ExpectInv
  BY DEF DispatchInit, ServiceInit, ExpectInv, Open
<1>2. ExpectInv /\ UNCHANGED vars => ExpectInv'
  BY DEF vars, dispatchVars, serverVars, agentVars, serviceVars, history, ExpectInv, Open,
     Expected, Owned, Unfinished, WorkingOn
<1>3. Types /\ CalmInv /\ ExpectInv /\ [DispatchNext]_vars => ExpectInv'
  BY <1>2, ExpectStep
<1> QED
  BY <1>1, <1>3, TypesHold, CalmHolds, PTL DEF DispatchSpec

\* As long as nothing failed, a job whose row says pending or running, and
\* that had no execution cut short, is in the queue, with a handler, on the
\* wire or in a slot, or some call is about to settle it: no interleaving of
\* creation, cancellation, retry, assignment, reports and log lines leaves
\* it behind (job_service.go, server.go, agent.go).
THEOREM NoneLeftBehind == DispatchSpec => []NoJobLeftBehind
<1>1. ASSUME Types, CalmInv, ExpectInv
      PROVE  NoJobLeftBehind
  <2> SUFFICES ASSUME NEW j \in JobId, LeftBehind(j), faults = 0, j \notin cut
               PROVE  FALSE
    BY <1>1 DEF NoJobLeftBehind, Types, OwnTypes
  <2>1. Open(j) /\ queue[j] = 0 /\ Places(j) = {} /\ Quiet(j)
    BY DEF LeftBehind, Open
  <2>2. Owned(j)
    BY <1>1, <2>1, Goroutines DEF ExpectInv, Expected, Quiet
  <2>3. ASSUME NEW a \in AgentId, stream[a] # Looping, stream[a].job = j
        PROVE  FALSE
    <3>1. stream[a].pc \in {"popped", "assign", "send"}
      BY <1>1, <2>3 DEF CalmInv, HandlerOK, Types, OwnTypes, StreamAt
    <3>2. <<"stream", a>> \in Places(j)
      BY <2>3, <3>1 DEF Places
    <3> QED
      BY <2>1, <3>2
  <2>4. ASSUME NEW a \in AgentId, NEW i \in DOMAIN wire[a], wire[a][i] = JobMessage(j)
        PROVE  FALSE
    <3>1. <<"wire", a, i>> \in Places(j)
      BY <2>4 DEF Places, JobMessage
    <3> QED
      BY <2>1, <3>1
  <2>5. ASSUME NEW s \in Slot, exec[s] # Free, exec[s].job = j
        PROVE  FALSE
    <3>1. <<"slot", s>> \in Places(j)
      BY <2>5 DEF Places
    <3> QED
      BY <2>1, <3>1
  <2> QED
    BY <2>2, <2>3, <2>4, <2>5 DEF Owned, Unfinished
<1> QED
  BY <1>1, TypesHold, CalmHolds, ExpectHolds, PTL

-----------------------------------------------------------------------------
(***************************************************************************)
(* What JobService promises of every row holds in the whole system too:    *)
(* agents call it concurrently with the clients, and a restart of the      *)
(* server ends calls between any two of their steps.                       *)
(***************************************************************************)
LEMMA CopyGood ==
    ASSUME Types, RowInv, CopyStep
    PROVE  RowInv'
<1>1. ASSUME NEW j \in JobId, Exists(j)
      PROVE  jobs[j] \in Row /\ GoodRow(jobs[j])
  BY <1>1 DEF Types, TypeInv, TypeOK, RowInv
<1>2. ASSUME NEW p \in Proc, NEW j \in JobId, NEW st \in Status \ {"cancelled"},
             UpdateJobStatus(p, j, st)
      PROVE  RowInv'
  <2>1. GoodRow([jobs[j] EXCEPT !.status = st])
    BY <1>1, <1>2 DEF UpdateJobStatus, GetJob, Row, GoodRow
  <2> QED
    BY <1>2, <2>1, GetJobGood DEF UpdateJobStatus, Types
<1>3. ASSUME NEW a \in AgentId, Assign(a)
      PROVE  RowInv'
  <2>1. a \in Proc /\ stream[a].job \in JobId
    BY <1>3, Goroutines, StreamTypes, Elsewhere DEF Assign, Types
  <2>2. PICK j \in JobId : j = stream[a].job
    BY <2>1
  <2>3. GetJob(a, "assign", j, [jobs[j] EXCEPT !.agent = a, !.status = "running"])
    BY <1>3, <2>2 DEF Assign, AssignJob
  <2>4. GoodRow([jobs[j] EXCEPT !.agent = a, !.status = "running"])
    BY <1>1, <2>3 DEF GetJob, Row, GoodRow
  <2> QED
    BY <2>1, <2>3, <2>4, GetJobGood DEF Types
<1>4. ASSUME NEW a \in AgentId, SendFails(a)
      PROVE  RowInv'
  <2>1. a \in Proc /\ stream[a].job \in JobId
    BY <1>4, Goroutines, StreamTypes, Elsewhere DEF SendFails, Types
  <2> QED
    BY <1>2, <1>4, <2>1 DEF SendFails, Status
<1>5. ASSUME NEW s \in Slot, Init(s) \/ Done(s)
      PROVE  RowInv'
  <2>1. s \in Proc /\ exec[s].job \in JobId
    BY <1>5, Goroutines, ExecTypes, Elsewhere DEF Init, Done, Types
  <2>2. PICK st \in Status \ {"cancelled"} : UpdateJobStatus(s, exec[s].job, st)
    BY <1>5 DEF Init, Done, Status
  <2> QED
    BY <1>2, <2>1, <2>2
<1>6. ASSUME NEW s \in Slot, Log(s)
      PROVE  RowInv'
  <2>1. Logger(s) \in Proc /\ logger[s] \in JobId
    BY <1>6, Goroutines DEF Log, Types, OwnTypes
  <2>2. PICK j \in JobId : j = logger[s]
    BY <2>1
  <2>3. GetJob(Logger(s), "log", j,
           [jobs[j] EXCEPT !.logs = @ + 1, !.progress = IF FALSE THEN 1 ELSE @])
    BY <1>6, <2>2 DEF Log, ProcessLog
  <2>4. \A n, q : GoodRow([jobs[j] EXCEPT !.logs = n, !.progress = q])
    BY <1>1, <2>3 DEF GetJob, Row, GoodRow
  <2>5. GoodRow([jobs[j] EXCEPT !.logs = @ + 1, !.progress = IF FALSE THEN 1 ELSE @])
    BY <2>4
  <2> QED
    BY <2>1, <2>3, <2>5, GetJobGood DEF Types
<1> QED
  BY <1>3, <1>4, <1>5, <1>6 DEF CopyStep

LEMMA SystemRows == DispatchSpec => []RowInv
<1>1. DispatchInit => RowInv
  BY DEF DispatchInit, ServiceInit, RowInv
<1>2. ASSUME Types, RowInv, DispatchNext
      PROVE  RowInv'
  <2>1. ASSUME NEW j \in JobId, GetNextJob(j)
        PROVE  RowInv'
    BY <1>2, <2>1 DEF GetNextJob, RowInv, GoodRow
  <2>2. CASE Forgets
    BY <1>2, <2>2 DEF Forgets, RowInv, GoodRow
  <2>3. TypeInv /\ ServiceStep
    BY <1>2, StepTypes DEF Types
  <2> QED
    BY <1>2, <2>1, <2>2, <2>3, CopyGood, RequestGood, ContinueGood DEF ServiceStep, PlainStep
<1>3. RowInv /\ UNCHANGED vars => RowInv'
  BY DEF vars, serviceVars, RowInv, GoodRow
<1>4. Types /\ RowInv /\ [DispatchNext]_vars => RowInv'
  BY <1>2, <1>3
<1> QED
  BY <1>1, <1>4, TypesHold, PTL DEF DispatchSpec

\* With the agents and the server's restarts added, no row counts more than
\* MaxRetries retries, and one that says cancelled carries the flag: neither
\* a report that comes late nor a call ended halfway breaks it.
THEOREM RowsInTheSystem == DispatchSpec => [](RetryBound /\ CancelledMarked)
<1>1. RowInv => RetryBound /\ CancelledMarked
  BY DEF RowInv, RetryBound, CancelledMarked, Rows, GoodRow
<1> QED
  BY <1>1, SystemRows, PTL

=============================================================================
