------------------------------ MODULE JobQueue ------------------------------
(***************************************************************************)
(* What ports.JobQueue promises to the streams that share it: an entry is  *)
(* given to one of them, or lost, but never given twice.  In which order   *)
(* entries come out is not part of the promise.                            *)
(***************************************************************************)
CONSTANTS
    Entry,        \* entries ever put into the queue
    Consumer      \* goroutines that take entries out

VARIABLES
    offered,      \* entries put into the queue so far
    waiting,      \* entries that are in the queue
    taken         \* who was given which entry

Init == offered = {} /\ waiting = {} /\ taken = {}

Put(e) ==
    /\ e \notin offered
    /\ offered' = offered \cup {e}
    /\ waiting' = waiting \cup {e}
    /\ UNCHANGED taken

Take(c, e) ==
    /\ e \in waiting
    /\ waiting' = waiting \ {e}
    /\ taken' = taken \cup {<<c, e>>}
    /\ UNCHANGED offered

Lose(e) ==
    /\ e \in waiting
    /\ waiting' = waiting \ {e}
    /\ UNCHANGED <<offered, taken>>

Next ==
    \E e \in Entry :
        \/ Put(e)
        \/ \E c \in Consumer : Take(c, e)
        \/ Lose(e)

Spec == Init /\ [][Next]_<<offered, waiting, taken>>
=============================================================================
