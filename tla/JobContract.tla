---------------------------- MODULE JobContract ----------------------------
(***************************************************************************)
(* What the job service promises about the stored record of a job when the *)
(* calls made for one job do not overlap: the life cycle of a job, one     *)
(* atomic step for each call that succeeds.  Only the fields the life      *)
(* cycle is about are here: status, the agent the job was given to and the *)
(* number of retries.                                                      *)
(***************************************************************************)
EXTENDS Naturals

CONSTANTS
    JobId,        \* identifiers of jobs
    AgentId,      \* identifiers of agents
    MaxRetries,   \* Job.MaxRetries
    NoAgent,      \* a nil AgentID
    NoRow         \* a job that is not in the database

VARIABLE record   \* record[j]: what a reader of the database sees of job j

Status == {"pending", "running", "success", "failure", "cancelled"}
Active == {"pending", "running"}
Retryable == {"failure", "cancelled"}

Record == [status : Status, agent : AgentId \cup {NoAgent}, retryCount : Nat]

Init == record = [j \in JobId |-> NoRow]

Created(j) == record[j] # NoRow

Create(j) ==
    /\ ~Created(j)
    /\ record' = [record EXCEPT ![j] =
                    [status |-> "pending", agent |-> NoAgent, retryCount |-> 0]]

Assign(j, a) ==
    /\ Created(j)
    /\ record' = [record EXCEPT ![j].agent = a, ![j].status = "running"]

\* The agent that runs the job, or the server on its behalf, reports a status.
Report(j, s) ==
    /\ Created(j)
    /\ record' = [record EXCEPT ![j].status = s]

Cancel(j) ==
    /\ Created(j)
    /\ record[j].status \in Active
    /\ record' = [record EXCEPT ![j].status = "cancelled"]

Retry(j) ==
    /\ Created(j)
    /\ record[j].status \in Retryable
    /\ record[j].retryCount < MaxRetries
    /\ record' = [record EXCEPT ![j].status = "pending", ![j].retryCount = @ + 1]

Next ==
    \E j \in JobId :
        \/ Create(j)
        \/ \E a \in AgentId : Assign(j, a)
        \/ \E s \in Status \ {"cancelled"} : Report(j, s)
        \/ Cancel(j)
        \/ Retry(j)

Spec == Init /\ [][Next]_record
=============================================================================
