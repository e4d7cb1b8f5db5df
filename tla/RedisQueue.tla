----------------------------- MODULE RedisQueue -----------------------------
(***************************************************************************)
(* The job queue of internal/adapters/queue/redis/adapter.go: a sorted set *)
(* in Redis, with the score that Enqueue computes and the loop in which    *)
(* Dequeue polls it until its context is done.                             *)
(***************************************************************************)
EXTENDS Naturals, FiniteSets

CONSTANTS
    Entry,        \* entries (a job as it was when it was queued)
    Consumer,     \* goroutines in GetNextJob, one for each stream
    priority,     \* priority[e]: Job.Priority
    Second,       \* clock ticks in a second
    Grain,        \* clock ticks that one float64 of this size stands for
    MaxClock,     \* bound: clock ticks
    MaxLosses     \* bound: replies of Redis that are lost

ASSUME QueueAssumption ==
    /\ priority \in [Entry -> 0 .. 10]
    /\ Second \in Nat \ {0} /\ Grain \in Nat \ {0}
    /\ MaxClock \in Nat /\ MaxLosses \in Nat

VARIABLES
    clock,        \* time.Now
    at,           \* at[e]: when e was queued; only for e in offered
    offered,      \* history: entries queued so far
    zset,         \* the members of the sorted set
    consumer,     \* consumer[c]: where c is in Dequeue
    taken,        \* history: who was given which entry
    losses        \* how many replies were lost

vars == <<clock, at, offered, zset, consumer, taken, losses>>

\* Mutant: the priority is not part of the score.
RankUnprioritised(e) == at[e] \div Grain

\* The score is the negative of this, rounded to a float64, and the lowest
\* score goes first: the highest priority and the newest entry.
Rank(e) == (priority[e] * Second + at[e]) \div Grain

\* Mutant: members of equal score wait for each other.
FirstStrict == {e \in zset : \A f \in zset \ {e} : Rank(f) < Rank(e)}

\* ZPOPMIN; members of equal score are ordered by their bytes.
First == {e \in zset : \A f \in zset : Rank(f) <= Rank(e)}

-----------------------------------------------------------------------------
Tick ==
    /\ clock < MaxClock
    /\ clock' = clock + 1
    /\ UNCHANGED <<at, offered, zset, consumer, taken, losses>>

\* Mutant: the score is used as the key of the member.
EnqueueReplaces(e) ==
    /\ e \notin offered
    /\ at' = [at EXCEPT ![e] = clock]
    /\ offered' = offered \cup {e}
    /\ zset' = {f \in zset : Rank(f) # (priority[e] * Second + clock) \div Grain} \cup {e}
    /\ UNCHANGED <<clock, consumer, taken, losses>>

Enqueue(e) ==
    /\ e \notin offered
    /\ at' = [at EXCEPT ![e] = clock]
    /\ offered' = offered \cup {e}
    /\ zset' = zset \cup {e}
    /\ UNCHANGED <<clock, consumer, taken, losses>>

\* A tick of a stream's loop calls Dequeue with a deadline.
Dequeue(c) ==
    /\ consumer[c] = "away"
    /\ consumer' = [consumer EXCEPT ![c] = "asking"]
    /\ UNCHANGED <<clock, at, offered, zset, taken, losses>>

\* Mutant: the member is read (ZRANGE) and not removed.
PopPeek(c, e) ==
    /\ consumer[c] = "asking" /\ e \in First
    /\ taken' = taken \cup {<<c, e>>}
    /\ consumer' = [consumer EXCEPT ![c] = "away"]
    /\ UNCHANGED <<clock, at, offered, zset, losses>>

Pop(c, e) ==
    /\ consumer[c] = "asking" /\ e \in First
    /\ zset' = zset \ {e}
    /\ taken' = taken \cup {<<c, e>>}
    /\ consumer' = [consumer EXCEPT ![c] = "away"]
    /\ UNCHANGED <<clock, at, offered, losses>>

\* The deadline passes, or the connection breaks, after Redis has removed
\* the member and before its reply is here; or the member is not a job.
PopLost(c, e) ==
    /\ consumer[c] = "asking" /\ e \in First
    /\ losses < MaxLosses
    /\ losses' = losses + 1
    /\ zset' = zset \ {e}
    /\ consumer' = [consumer EXCEPT ![c] = "away"]
    /\ UNCHANGED <<clock, at, offered, taken>>

PopEmpty(c) ==
    /\ consumer[c] = "asking" /\ zset = {}
    /\ consumer' = [consumer EXCEPT ![c] = "waiting"]
    /\ UNCHANGED <<clock, at, offered, zset, taken, losses>>

\* After a second the loop asks again, unless the deadline has passed.
WakeUp(c) ==
    /\ consumer[c] = "waiting"
    /\ consumer' = [consumer EXCEPT ![c] = "asking"]
    /\ UNCHANGED <<clock, at, offered, zset, taken, losses>>

GiveUp(c) ==
    /\ consumer[c] = "waiting"
    /\ consumer' = [consumer EXCEPT ![c] = "away"]
    /\ UNCHANGED <<clock, at, offered, zset, taken, losses>>

-----------------------------------------------------------------------------
Init ==
    /\ clock = 0
    /\ at = [e \in Entry |-> 0]
    /\ offered = {} /\ zset = {} /\ taken = {}
    /\ consumer = [c \in Consumer |-> "away"]
    /\ losses = 0

Poll(c) ==
    \/ Dequeue(c) \/ PopEmpty(c) \/ WakeUp(c) \/ GiveUp(c)
    \/ \E e \in Entry : Pop(c, e) \/ PopLost(c, e)

Next ==
    \/ Tick
    \/ \E e \in Entry : Enqueue(e)
    \/ \E c \in Consumer : Poll(c)

Spec == Init /\ [][Next]_vars

\* A stream that is connected keeps asking.
FairSpec == Spec /\ \A c \in Consumer : WF_vars(Poll(c))

-----------------------------------------------------------------------------
(***************************************************************************)
(* Properties.                                                             *)
(***************************************************************************)
\* However the consumers' polls interleave, and whatever replies are lost,
\* the queue gives an entry to one consumer at most.
Abstract == INSTANCE JobQueue WITH waiting <- zset
ImplementsJobQueue == Abstract!Spec

\* An entry that left the queue was given to a consumer, except for as many
\* as there were lost replies: giving up on a deadline loses nothing.
NothingElseLost ==
    Cardinality(offered \ zset) = Cardinality(taken) + losses

Given(e) == \E c \in Consumer : <<c, e>> \in taken

\* The order that the score does give: an entry is given out ahead of a
\* waiting one of higher priority only if it was queued later, by a second
\* for each step of priority between them (up to the rounding).
PriorityWithinSeconds ==
    [][\A e, f \in Entry :
         (e \in zset /\ ~Given(e) /\ f \in zset /\ Given(e)'
            /\ priority[f] > priority[e])
         => at[e] + Grain > at[f] + (priority[f] - priority[e]) * Second]_vars

\* What the comment on the score says: "higher priority jobs come first, and
\* within same priority, FIFO" (adapter.go:43).
OrderAsDocumented ==
    [][\A e, f \in Entry :
         (e \in zset /\ f \in zset /\ Given(e)' /\ f # e)
         => /\ priority[f] <= priority[e]
            /\ priority[f] = priority[e] => at[e] <= at[f]]_vars

\* Once the last entry is queued, every entry is given out or lost, as long
\* as consumers poll.  The newest goes first, so that a queue which never
\* runs dry may keep its oldest entry for ever.
EveryEntryLeaves ==
    \A e \in Entry : (e \in zset /\ offered = Entry) ~> (e \notin zset)
=============================================================================
