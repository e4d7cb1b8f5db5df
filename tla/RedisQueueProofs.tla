-------------------------- MODULE RedisQueueProofs --------------------------
(***************************************************************************)
(* RedisQueue implements JobQueue, loses no entry but with a lost reply,   *)
(* and keeps the order that its score does give, for any entries,          *)
(* consumers, priorities and rounding.                                     *)
(***************************************************************************)
EXTENDS RedisQueue, FiniteSetTheorems, TLAPS

USE QueueAssumption DEF QueueAssumption

-----------------------------------------------------------------------------
(***************************************************************************)
(* What was given out or lost is not in the sorted set, and no entry was   *)
(* given to two consumers.                                                 *)
(***************************************************************************)
QueueInv ==
    /\ offered \subseteq Entry /\ zset \subseteq offered
    /\ taken \subseteq Consumer \X (offered \ zset)

Account ==
    /\ IsFiniteSet(offered) /\ IsFiniteSet(taken) /\ losses \in Nat
    /\ NothingElseLost

Clocks == clock \in Nat /\ at \in [Entry -> Nat]

Inv == QueueInv /\ Account /\ Clocks

LEMMA InitInv == Init => Inv
BY FS_EmptySet DEF Init, Inv, QueueInv, Account, Clocks, NothingElseLost

\* An entry leaves the sorted set.
LEMMA Leaves ==
    ASSUME QueueInv, Account, NEW e \in zset
    PROVE  Cardinality(offered \ (zset \ {e})) = Cardinality(offered \ zset) + 1
<1>1. IsFiniteSet(offered \ zset) /\ e \notin offered \ zset
  BY FS_Difference DEF Account
<1>2. offered \ (zset \ {e}) = (offered \ zset) \cup {e}
  BY DEF QueueInv
<1> QED
  BY <1>1, <1>2, FS_AddElement

LEMMA EnqueueInv ==
    ASSUME Inv, NEW e \in Entry, Enqueue(e)
    PROVE  Inv'
<1>1. QueueInv' /\ Clocks'
  BY DEF Enqueue, Inv, QueueInv, Clocks
<1>2. IsFiniteSet(offered')
  BY FS_AddElement DEF Enqueue, Inv, Account
<1>3. offered' \ zset' = offered \ zset
  BY DEF Enqueue, Inv, QueueInv
<1> QED
  BY <1>1, <1>2, <1>3 DEF Enqueue, Inv, Account, NothingElseLost

LEMMA PopInv ==
    ASSUME Inv, NEW c \in Consumer, NEW e \in Entry, Pop(c, e)
    PROVE  Inv'
<1>1. e \in zset
  BY DEF Pop, First
<1>2. QueueInv' /\ Clocks'
  BY <1>1 DEF Pop, Inv, QueueInv, Clocks
<1>3. <<c, e>> \notin taken
  BY <1>1 DEF Inv, QueueInv
<1>4. IsFiniteSet(taken') /\ Cardinality(taken') = Cardinality(taken) + 1
  BY <1>3, FS_AddElement DEF Pop, Inv, Account
<1>5. Cardinality(offered' \ zset') = Cardinality(offered \ zset) + 1
  BY <1>1, Leaves DEF Pop, Inv
<1>6. Cardinality(taken) \in Nat
  BY FS_CardinalityType DEF Inv, Account
<1> QED
  BY <1>2, <1>4, <1>5, <1>6 DEF Pop, Inv, Account, NothingElseLost

LEMMA PopLostInv ==
    ASSUME Inv, NEW c \in Consumer, NEW e \in Entry, PopLost(c, e)
    PROVE  Inv'
<1>1. e \in zset
  BY DEF PopLost, First
<1>2. QueueInv' /\ Clocks'
  BY <1>1 DEF PopLost, Inv, QueueInv, Clocks
<1>3. Cardinality(offered' \ zset') = Cardinality(offered \ zset) + 1
  BY <1>1, Leaves DEF PopLost, Inv
<1>4. Cardinality(taken) \in Nat
  BY FS_CardinalityType DEF Inv, Account
<1> QED
  BY <1>2, <1>3, <1>4 DEF PopLost, Inv, Account, NothingElseLost

LEMMA StepInv == Inv /\ [Next]_vars => Inv'
<1> SUFFICES ASSUME Inv, [Next]_vars PROVE Inv'
  OBVIOUS
<1>1. ASSUME UNCHANGED <<at, offered, zset, taken, losses>>, clock' \in {clock, clock + 1}
      PROVE  Inv'
  BY <1>1 DEF Inv, QueueInv, Account, NothingElseLost, Clocks
<1>2. CASE Tick
  BY <1>1, <1>2 DEF Tick
<1>3. ASSUME NEW c \in Consumer, Dequeue(c) \/ PopEmpty(c) \/ WakeUp(c) \/ GiveUp(c)
      PROVE  Inv'
  BY <1>1, <1>3 DEF Dequeue, PopEmpty, WakeUp, GiveUp
<1>4. CASE UNCHANGED vars
  BY <1>1, <1>4 DEF vars
<1> QED
  BY <1>2, <1>3, <1>4, EnqueueInv, PopInv, PopLostInv DEF Next, Poll

LEMMA Invariant == Spec => []Inv
BY InitInv, StepInv, PTL DEF Spec

\* An entry that left the sorted set was given to a consumer, except for as
\* many as there were lost replies, whatever polls interleave with it.
THEOREM NoEntryLost == Spec => []NothingElseLost
BY Invariant, PTL DEF Inv, Account

-----------------------------------------------------------------------------
(***************************************************************************)
(* Refinement of JobQueue.                                                 *)
(***************************************************************************)
LEMMA StepImplements == Inv /\ [Next]_vars => [Abstract!Next]_<<offered, zset, taken>>
<1> SUFFICES ASSUME Inv, [Next]_vars
             PROVE  [Abstract!Next]_<<offered, zset, taken>>
  OBVIOUS
<1>1. ASSUME NEW e \in Entry, Enqueue(e)
      PROVE  Abstract!Put(e)
  BY <1>1 DEF Enqueue, Abstract!Put
<1>2. ASSUME NEW c \in Consumer, NEW e \in Entry, Pop(c, e)
      PROVE  Abstract!Take(c, e)
  BY <1>2 DEF Pop, First, Abstract!Take
<1>3. ASSUME NEW c \in Consumer, NEW e \in Entry, PopLost(c, e)
      PROVE  Abstract!Lose(e)
  BY <1>3 DEF PopLost, First, Abstract!Lose
<1>4. ASSUME NEW c \in Consumer, Dequeue(c) \/ PopEmpty(c) \/ WakeUp(c) \/ GiveUp(c)
      PROVE  UNCHANGED <<offered, zset, taken>>
  BY <1>4 DEF Dequeue, PopEmpty, WakeUp, GiveUp
<1> QED
  BY <1>1, <1>2, <1>3, <1>4 DEF Next, Poll, Tick, vars, Abstract!Next

\* The sorted set and the polling loops give an entry to one consumer or lose
\* it, and never give it twice: RedisQueue implements JobQueue.
THEOREM RedisQueueImplementsJobQueue == Spec => ImplementsJobQueue
<1>1. Init => Abstract!Init
  BY DEF Init, Abstract!Init
<1> QED
  BY <1>1, Invariant, StepImplements, PTL DEF Spec, ImplementsJobQueue, Abstract!Spec

-----------------------------------------------------------------------------
(***************************************************************************)
(* The order.                                                              *)
(***************************************************************************)
\* What the comparison of two rounded numbers says of the numbers.
LEMMA Rounding ==
    ASSUME NEW x \in Nat, NEW y \in Nat, NEW g \in Nat \ {0}, y \div g <= x \div g
    PROVE  y < x + g
<1> DEFINE p == x \div g
           q == y \div g
<1>1. p \in Nat /\ q \in Nat
  OBVIOUS
<1>2. g * p <= x /\ y < g * q + g
  OBVIOUS
<1>3. g * q <= g * p
  BY <1>1
<1> QED
  BY <1>1, <1>2, <1>3

LEMMA OrderOfStep ==
    ASSUME Inv, [Next]_vars, NEW e \in Entry, NEW f \in Entry,
           e \in zset, ~Given(e), f \in zset, Given(e)', priority[f] > priority[e]
    PROVE  at[e] + Grain > at[f] + (priority[f] - priority[e]) * Second
<1> DEFINE p == priority[e]
           q == priority[f]
<1>1. /\ p \in Nat /\ q \in Nat /\ q - p \in Nat /\ at[e] \in Nat /\ at[f] \in Nat
      /\ Second \in Nat /\ Grain \in Nat \ {0}
  BY DEF Inv, Clocks
<1>2. PICK c \in Consumer : Pop(c, e)
  <2>1. taken' # taken
    BY DEF Given
  <2>2. PICK c \in Consumer, d \in Entry : Pop(c, d)
    BY <2>1 DEF Next, Poll, vars, Tick, Enqueue, Dequeue, PopEmpty, WakeUp, GiveUp, PopLost
  <2>3. d = e
    BY <2>2 DEF Pop, Given
  <2> QED
    BY <2>2, <2>3
<1>3. Rank(f) <= Rank(e)
  BY <1>2 DEF Pop, First
<1> HIDE DEF p, q
<1>4. p * Second \in Nat /\ q * Second \in Nat /\ q * Second = p * Second + (q - p) * Second
  BY <1>1
<1>5. q * Second + at[f] < (p * Second + at[e]) + Grain
  <2>1. (q * Second + at[f]) \div Grain <= (p * Second + at[e]) \div Grain
    BY <1>3 DEF Rank, p, q
  <2>2. q * Second + at[f] \in Nat /\ p * Second + at[e] \in Nat
    BY <1>1, <1>4
  <2> QED
    BY <1>1, <2>1, <2>2, Rounding
<1>6. (q - p) * Second \in Nat
  BY <1>1
<1>7. at[e] + Grain > at[f] + (q - p) * Second
  BY <1>1, <1>4, <1>5, <1>6
<1> QED
  BY <1>7 DEF p, q

\* An entry is given out ahead of a waiting one of higher priority only if it
\* was queued later, by a second for each step of priority (up to the rounding
\* of the score to a float64).
THEOREM PriorityCounts == Spec => PriorityWithinSeconds
<1>1. Inv /\ [Next]_vars =>
        [\A e, f \in Entry :
           (e \in zset /\ ~Given(e) /\ f \in zset /\ Given(e)' /\ priority[f] > priority[e])
           => at[e] + Grain > at[f] + (priority[f] - priority[e]) * Second]_vars
  BY OrderOfStep
<1> QED
  BY <1>1, Invariant, PTL DEF Spec, PriorityWithinSeconds
=============================================================================
