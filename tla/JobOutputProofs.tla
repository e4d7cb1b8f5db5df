--------------------------- MODULE JobOutputProofs ---------------------------
(***************************************************************************)
(* A job's container is removed by the Run that made it, all its output is *)
(* stored before Done, and what is stored is the ordered end of what was   *)
(* accepted and bounded in size: for any jobs, slots, lines and limits.    *)
(***************************************************************************)
EXTENDS JobOutput, FiniteSetTheorems, SequenceTheorems, WellFoundedInduction,
        TLAPS

-----------------------------------------------------------------------------
(***************************************************************************)
(* Sizes of logs.  Sizes is recursive: a function that satisfies its       *)
(* equation is the only one, as two would differ at a least position.      *)
(***************************************************************************)
LogLine == Entry \cup {Header}

LEMMA LeastNat ==
    ASSUME NEW T \in SUBSET Nat, T # {}
    PROVE  \E m \in T : \A k \in T : m <= k
<1> DEFINE R == OpToRel(<, Nat)
<1>1. PICK m \in T : \A k \in T : <<k, m>> \notin R
  <2> HIDE DEF R
  <2>1. IsWellFoundedOn(R, Nat)
    BY NatLessThanWellFounded DEF R
  <2> QED
    BY <2>1, WFMin
<1>2. \A k \in T : ~(k < m)
  BY <1>1 DEF OpToRel
<1> QED
  BY <1>2

LEMMA LineSizeType ==
    ASSUME NEW e \in LogLine
    PROVE  LineSize(e) \in Nat
BY OutputAssumption DEF OutputAssumption, LogLine, Entry, LineSize

\* f gives the sizes of the beginnings of a log.
Measures(f, log) ==
    /\ f \in [0 .. Len(log) -> Nat] /\ f[0] = 0
    /\ \A k \in 1 .. Len(log) : f[k] = f[k - 1] + LineSize(log[k])

Sized(log) == Measures(Sizes(log), log)

LEMMA MeasuresUnique ==
    ASSUME NEW log \in Seq(LogLine), NEW f, NEW g, Measures(f, log), 
           DOMAIN g = 0 .. Len(log), g[0] = 0,
           \A k \in 1 .. Len(log) : g[k] = g[k - 1] + LineSize(log[k])
    PROVE  \A n \in 0 .. Len(log) : f[n] = g[n]
<1> SUFFICES ASSUME NEW n \in 0 .. Len(log), f[n] # g[n]
             PROVE  FALSE
  OBVIOUS
<1> DEFINE T == {k \in 0 .. Len(log) : f[k] # g[k]}
<1>1. PICK m \in T : \A k \in T : m <= k
  <2>1. T \in SUBSET Nat /\ T # {}
    OBVIOUS
  <2> HIDE DEF T
  <2> QED
    BY <2>1, LeastNat
<1>2. m # 0 /\ m \in 0 .. Len(log)
  BY DEF Measures
<1>3. m - 1 \in 0 .. Len(log) /\ m - 1 \notin T /\ m \in 1 .. Len(log)
  BY <1>1, <1>2
<1>4. f[m - 1] = g[m - 1]
  BY <1>3
<1> QED
  BY <1>3, <1>4 DEF Measures

LEMMA SizesAre ==
    ASSUME NEW log \in Seq(LogLine), NEW f, Measures(f, log)
    PROVE  Sizes(log) = f
<1> DEFINE Eq(s) == s = [n \in 0 .. Len(log) |-> IF n = 0 THEN 0
                                                ELSE s[n - 1] + LineSize(log[n])]
           g == Sizes(log)
<1>1. Eq(f)
  BY DEF Measures
<1>2. Eq(g)
  BY <1>1 DEF Sizes
<1> HIDE DEF g
<1>3. /\ DOMAIN g = 0 .. Len(log) /\ g = [n \in 0 .. Len(log) |-> g[n]] /\ g[0] = 0
      /\ \A k \in 1 .. Len(log) : g[k] = g[k - 1] + LineSize(log[k])
  <2>1. Len(log) \in Nat
    OBVIOUS
  <2> QED
    BY <1>2, <2>1
<1>4. \A n \in 0 .. Len(log) : f[n] = g[n]
  <2>1. DOMAIN g = 0 .. Len(log)
    BY <1>3
  <2>2. g[0] = 0
    BY <1>3
  <2>3. \A k \in 1 .. Len(log) : g[k] = g[k - 1] + LineSize(log[k])
    BY <1>3
  <2> QED
    BY <2>1, <2>2, <2>3, MeasuresUnique, Zenon
<1>5. f = [n \in 0 .. Len(log) |-> f[n]]
  BY DEF Measures
<1>6. g = f
  BY <1>3, <1>4, <1>5
<1> QED
  BY <1>6 DEF g

LEMMA MeasuredIsSized ==
    ASSUME NEW log \in Seq(LogLine), NEW f, Measures(f, log)
    PROVE  Sized(log) /\ Sizes(log) = f
BY SizesAre DEF Sized

LEMMA SizesGrow ==
    ASSUME NEW log \in Seq(LogLine), Sized(log),
           NEW m \in 0 .. Len(log), NEW n \in m .. Len(log)
    PROVE  Sizes(log)[m] <= Sizes(log)[n]
<1> DEFINE f == Sizes(log)
           T == {k \in m .. Len(log) : f[k] < f[m]}
<1> SUFFICES ASSUME ~(f[m] <= f[n])
             PROVE  FALSE
  OBVIOUS
<1>1. Measures(f, log)
  BY DEF Sized
<1> HIDE DEF f
<1>2. n \in T
  BY <1>1 DEF Measures
<1>3. PICK k \in T : \A l \in T : k <= l
  <2>1. T \in SUBSET Nat /\ T # {}
    BY <1>2
  <2> HIDE DEF T
  <2> QED
    BY <2>1, LeastNat
<1>4. /\ k \in 1 .. Len(log) /\ k - 1 \in m .. Len(log) /\ k - 1 \notin T
      /\ f[k] < f[m]
  BY <1>1, <1>3 DEF Measures
<1>5. ~(f[k - 1] < f[m])
  BY <1>4
<1>6. f[k] = f[k - 1] + LineSize(log[k]) /\ LineSize(log[k]) \in Nat
  BY <1>1, <1>4, LineSizeType DEF Measures
<1> QED
  <2>1. f \in [0 .. Len(log) -> Nat]
    BY <1>1 DEF Measures
  <2>2. k - 1 \in 0 .. Len(log) /\ k \in 0 .. Len(log)
    BY <1>4
  <2> HIDE DEF T
  <2>3. f[m] \in Nat /\ f[k - 1] \in Nat /\ f[k] \in Nat
    BY <2>1, <2>2
  <2> QED
    BY <1>4, <1>5, <1>6, <2>3

LEMMA EmptySized == Sized(<<>>)
<1> DEFINE f == [n \in 0 .. 0 |-> 0]
<1>1. Len(<<>>) = 0
  OBVIOUS
<1>2. Measures(f, <<>>)
  BY <1>1 DEF Measures
<1>3. <<>> \in Seq(LogLine)
  OBVIOUS
<1> QED
  BY <1>2, <1>3, MeasuredIsSized

LEMMA AppendSized ==
    ASSUME NEW log \in Seq(LogLine), Sized(log), NEW e \in LogLine
    PROVE  /\ Sized(Append(log, e))
           /\ \A n \in 0 .. Len(log) : Sizes(Append(log, e))[n] = Sizes(log)[n]
<1> DEFINE f == Sizes(log)
           t == Append(log, e)
           g == [n \in 0 .. Len(log) + 1 |-> IF n <= Len(log) THEN f[n]
                                             ELSE f[Len(log)] + LineSize(e)]
<1>1. Measures(f, log)
  BY DEF Sized
<1>2. /\ t \in Seq(LogLine) /\ Len(t) = Len(log) + 1 /\ t[Len(log) + 1] = e
      /\ \A k \in 1 .. Len(log) : t[k] = log[k]
  OBVIOUS
<1>3. Len(log) \in Nat /\ LineSize(e) \in Nat
  BY LineSizeType
<1> HIDE DEF f, t
<1>4. Measures(g, t)
  <2>1. g \in [0 .. Len(t) -> Nat] /\ g[0] = 0
    BY <1>1, <1>2, <1>3 DEF Measures
  <2>2. ASSUME NEW k \in 1 .. Len(t)
        PROVE  g[k] = g[k - 1] + LineSize(t[k])
    BY <1>1, <1>2, <1>3 DEF Measures
  <2> QED
    BY <2>1, <2>2 DEF Measures
<1>5. Sized(t) /\ Sizes(t) = g
  BY <1>2, <1>4, MeasuredIsSized
<1> QED
  BY <1>3, <1>5 DEF t, f

-----------------------------------------------------------------------------
(***************************************************************************)
(* Truncation: what is left of a log is a header and the end of the log,   *)
(* of size Keep at most.                                                   *)
(***************************************************************************)
Cut(log, a) == <<Header>> \o SubSeq(log, a + 1, Len(log))

LEMMA HeaderIsLine == Header \in LogLine /\ LineSize(Header) = 1
BY DEF LogLine, LineSize

LEMMA CutElements ==
    ASSUME NEW log \in Seq(LogLine), NEW a \in 0 .. Len(log)
    PROVE  /\ Cut(log, a) \in Seq(LogLine) /\ Len(Cut(log, a)) = Len(log) - a + 1
           /\ Cut(log, a)[1] = Header
           /\ \A n \in 2 .. Len(log) - a + 1 : Cut(log, a)[n] = log[a + n - 1]
<1> DEFINE s == SubSeq(log, a + 1, Len(log))
<1>1. /\ s \in Seq(LogLine) /\ Len(s) = Len(log) - a
      /\ \A n \in 1 .. Len(log) - a : s[n] = log[a + n]
  OBVIOUS
<1>2. <<Header>> \in Seq(LogLine) /\ Len(<<Header>>) = 1 /\ <<Header>>[1] = Header
  BY HeaderIsLine
<1> HIDE DEF s
<1>3. /\ <<Header>> \o s \in Seq(LogLine) /\ Len(<<Header>> \o s) = Len(log) - a + 1
      /\ (<<Header>> \o s)[1] = Header
      /\ \A n \in 2 .. Len(log) - a + 1 : (<<Header>> \o s)[n] = s[n - 1]
  BY <1>1, <1>2
<1>4. ASSUME NEW n \in 2 .. Len(log) - a + 1
      PROVE  s[n - 1] = log[a + n - 1]
  <2>1. n - 1 \in 1 .. Len(log) - a /\ a + (n - 1) = a + n - 1
    OBVIOUS
  <2> QED
    BY <1>1, <2>1
<1> QED
  BY <1>3, <1>4 DEF Cut, s

LEMMA CutSized ==
    ASSUME NEW log \in Seq(LogLine), Sized(log), NEW a \in 0 .. Len(log)
    PROVE  /\ Sized(Cut(log, a))
           /\ \A n \in 1 .. Len(log) - a + 1 :
                 Sizes(Cut(log, a))[n] = 1 + Sizes(log)[a + n - 1] - Sizes(log)[a]
<1> DEFINE f == Sizes(log)
           t == Cut(log, a)
           g == [n \in 0 .. Len(log) - a + 1 |->
                    IF n = 0 THEN 0 ELSE 1 + f[a + n - 1] - f[a]]
<1>1. Measures(f, log)
  BY DEF Sized
<1>2. /\ t \in Seq(LogLine) /\ Len(t) = Len(log) - a + 1 /\ t[1] = Header
      /\ \A n \in 2 .. Len(log) - a + 1 : t[n] = log[a + n - 1]
  BY CutElements
<1>3. \A n \in a .. Len(log) : f[a] <= f[n]
  BY SizesGrow
<1> HIDE DEF f, t
<1>4. f \in [0 .. Len(log) -> Nat]
  BY <1>1 DEF Measures
<1>5. Measures(g, t)
  <2>1. ASSUME NEW n \in 1 .. Len(t)
        PROVE  g[n] \in Nat /\ g[n] = g[n - 1] + LineSize(t[n])
    <3>1. a + n - 1 \in a .. Len(log) /\ a + n - 1 \in 0 .. Len(log)
      BY <1>2
    <3>2. f[a] \in Nat /\ f[a + n - 1] \in Nat /\ f[a] <= f[a + n - 1]
      BY <1>3, <1>4, <3>1
    <3>3. g[n] = 1 + f[a + n - 1] - f[a]
      BY <1>2
    <3>4. CASE n = 1
      <4>1. g[1] = 1 /\ g[0] = 0
        <5>1. g[1] = 1 + f[a] - f[a]
          BY <3>3, <3>4, a + 1 - 1 = a
        <5> QED
          BY <3>2, <5>1
      <4> QED
        BY <1>2, <3>4, <4>1, HeaderIsLine
    <3>5. CASE n # 1
      <4>1. n \in 2 .. Len(log) - a + 1 /\ a + n - 1 \in 1 .. Len(log)
        BY <1>2, <3>5
      <4>2. f[a + n - 1] = f[a + n - 1 - 1] + LineSize(log[a + n - 1])
        BY <1>1, <4>1 DEF Measures
      <4>3. t[n] = log[a + n - 1]
        BY <1>2, <4>1
      <4>4. g[n - 1] = 1 + f[a + (n - 1) - 1] - f[a]
        BY <1>2, <4>1
      <4>5. a + (n - 1) - 1 = a + n - 1 - 1 /\ a + n - 1 - 1 \in 0 .. Len(log)
        BY <4>1
      <4>6. log[a + n - 1] \in LogLine
        BY <4>1
      <4>7. LineSize(t[n]) \in Nat /\ f[a + n - 1 - 1] \in Nat
        BY <1>4, <4>3, <4>5, <4>6, LineSizeType
      <4>8. g[n - 1] = 1 + f[a + n - 1 - 1] - f[a]
        BY <4>4, <4>5
      <4>9. f[a + n - 1] = f[a + n - 1 - 1] + LineSize(t[n])
        BY <4>2, <4>3
      <4> DEFINE x == f[a + n - 1]
                 y == f[a + n - 1 - 1]
                 l == LineSize(t[n])
                 z == f[a]
      <4>10. x \in Nat /\ y \in Nat /\ l \in Nat /\ z \in Nat /\ x = y + l /\ z <= x
        BY <3>2, <4>7, <4>9
      <4>11. g[n] = 1 + x - z /\ g[n - 1] = 1 + y - z
        BY <3>3, <4>8
      <4> HIDE DEF g, x, y, z, l
      <4>12. g[n] \in Nat /\ g[n] = g[n - 1] + l
        BY <4>10, <4>11
      <4> QED
        BY <4>12 DEF l
    <3> QED
      BY <3>4, <3>5
  <2>2. g[0] = 0 /\ g \in [0 .. Len(t) -> Nat]
    <3>1. DOMAIN g = 0 .. Len(t) /\ g = [n \in 0 .. Len(t) |-> g[n]] /\ g[0] = 0
      BY <1>2
    <3> HIDE DEF g
    <3>2. ASSUME NEW n \in 0 .. Len(t)
          PROVE  g[n] \in Nat
      <4>1. n = 0 \/ n \in 1 .. Len(t)
        BY <1>2
      <4>2. \A k \in 1 .. Len(t) : g[k] \in Nat
        BY <2>1
      <4> QED
        BY <3>1, <4>1, <4>2
    <3> QED
      BY <3>1, <3>2
  <2> QED
    BY <2>1, <2>2 DEF Measures
<1>6. Sized(t) /\ Sizes(t) = g
  BY <1>2, <1>5, MeasuredIsSized
<1> QED
  BY <1>6 DEF t, f

LEMMA Truncated ==
    ASSUME NEW log \in Seq(LogLine), Sized(log), Size(log) >= MaxLog
    PROVE  \E a \in 1 .. Len(log) : /\ Truncate(log) = Cut(log, a)
                                    /\ Size(log) - Sizes(log)[a] <= Keep
<1> DEFINE f == Sizes(log)
           len == Len(log)
           kept == {k \in DOMAIN log : f[k - 1] > f[len] - Keep}
<1>1. Truncate(log) = <<Header>> \o SubSeq(log, len - Cardinality(kept) + 1, len)
  BY DEF Truncate, Size
<1>2. f \in [0 .. len -> Nat] /\ f[0] = 0
  BY DEF Sized, Measures
<1>3. DOMAIN log = 1 .. len /\ len \in Nat
  OBVIOUS
<1>4. MaxLog \in Nat /\ Keep \in Nat /\ Keep + 1 < MaxLog /\ f[len] >= MaxLog
  BY OutputAssumption DEF OutputAssumption, Size
<1>5. \A m \in 0 .. len : \A n \in m .. len : f[m] <= f[n]
  BY SizesGrow
<1>6. len # 0
  BY <1>2, <1>4
<1> HIDE DEF f, len
<1>7. SUFFICES \E a \in 1 .. len : /\ Cardinality(kept) = len - a
                                   /\ f[len] - f[a] <= Keep
  <2> HIDE DEF kept
  <2>1. PICK a \in 1 .. len : Cardinality(kept) = len - a /\ f[len] - f[a] <= Keep
    BY <1>7
  <2>2. len - Cardinality(kept) + 1 = a + 1
    BY <1>3, <2>1
  <2>3. Truncate(log) = Cut(log, a)
    BY <1>1, <2>2 DEF Cut, len
  <2> QED
    BY <2>1, <2>3 DEF f, len, Size
<1>8. CASE kept = {}
  <2>1. Cardinality(kept) = 0
    BY <1>8, FS_EmptySet, Zenon
  <2>2. len \in 1 .. len /\ len - len = 0 /\ f[len] - f[len] = 0
    BY <1>2, <1>3, <1>6
  <2> HIDE DEF kept
  <2> QED
    BY <1>4, <2>1, <2>2
<1>9. CASE kept # {}
  <2>1. PICK m \in kept : \A k \in kept : m <= k
    <3>1. kept \in SUBSET Nat
      BY <1>3
    <3> HIDE DEF kept
    <3> QED
      BY <1>9, <3>1, LeastNat
  <2>2. m \in 1 .. len /\ f[m - 1] > f[len] - Keep
    BY <1>3, <2>1
  <2>3. m # 1
    BY <1>2, <1>3, <1>4, <2>2
  <2>4. m - 1 \in 1 .. len
    BY <1>3, <2>2, <2>3
  <2>5. f[len] - f[m - 1] <= Keep
    BY <1>2, <1>3, <1>4, <2>2, <2>4
  <2>6. kept = m .. len
    <3>1. ASSUME NEW k \in m .. len
          PROVE  k \in kept
      <4>1. m - 1 \in 0 .. len /\ k - 1 \in m - 1 .. len /\ k \in 1 .. len
        BY <1>3, <2>2
      <4>2. f[m - 1] <= f[k - 1]
        BY <1>5, <4>1
      <4>3. f[m - 1] \in Nat /\ f[k - 1] \in Nat /\ f[len] \in Nat
        BY <1>2, <1>3, <4>1
      <4> QED
        BY <1>3, <1>4, <2>2, <4>1, <4>2, <4>3
    <3> QED
      BY <1>3, <2>1, <2>2, <3>1
  <2>7. Cardinality(kept) = len - (m - 1)
    <3>1. Cardinality(m .. len) = len - m + 1
      BY <1>3, <2>2, FS_Interval
    <3>2. Cardinality(kept) = Cardinality(m .. len)
      BY <2>6, Zenon
    <3> HIDE DEF kept
    <3> QED
      BY <1>3, <2>2, <3>1, <3>2
  <2> QED
    BY <2>4, <2>5, <2>7
<1> QED
  BY <1>8, <1>9

\* What comes before the last line of a log is below the limit.
BelowLimit(log) == \A n \in 0 .. Len(log) - 1 : Sizes(log)[n] < MaxLog

LEMMA AppendBelowLimit ==
    ASSUME NEW log \in Seq(LogLine), Sized(log), Size(log) < MaxLog, NEW e \in LogLine
    PROVE  /\ Append(log, e) \in Seq(LogLine) /\ Sized(Append(log, e))
           /\ BelowLimit(Append(log, e))
<1> DEFINE t == Append(log, e)
<1>1. t \in Seq(LogLine) /\ Len(t) = Len(log) + 1 /\ Len(log) \in Nat
  OBVIOUS
<1>2. Sized(t) /\ \A n \in 0 .. Len(log) : Sizes(t)[n] = Sizes(log)[n]
  BY AppendSized
<1>3. ASSUME NEW n \in 0 .. Len(log)
      PROVE  Sizes(t)[n] < MaxLog
  <2>1. Sizes(log)[n] <= Sizes(log)[Len(log)]
    BY SizesGrow
  <2>2. Sizes(log)[n] \in Nat /\ Sizes(log)[Len(log)] \in Nat
    BY DEF Sized, Measures
  <2> QED
    BY <1>2, <2>1, <2>2, OutputAssumption DEF OutputAssumption, Size
<1> HIDE DEF t
<1>4. BelowLimit(t)
  BY <1>1, <1>3 DEF BelowLimit
<1> QED
  BY <1>1, <1>2, <1>4 DEF t

\* Whatever is in the row, what AppendLine makes of it is within the limit.
LEMMA AppendLineBounded ==
    ASSUME NEW log \in Seq(LogLine), Sized(log), NEW e \in LogLine
    PROVE  /\ AppendLine(log, e) \in Seq(LogLine) /\ Sized(AppendLine(log, e))
           /\ BelowLimit(AppendLine(log, e))
           /\ \/ AppendLine(log, e) = Append(log, e)
              \/ \E a \in 1 .. Len(log) : AppendLine(log, e) = Append(Cut(log, a), e)
<1>1. CASE ~(Size(log) >= MaxLog)
  <2>1. Size(log) \in Nat
    BY DEF Sized, Measures, Size
  <2>2. Size(log) < MaxLog
    BY <1>1, <2>1, OutputAssumption DEF OutputAssumption
  <2>3. AppendLine(log, e) = Append(log, e)
    BY <1>1 DEF AppendLine
  <2> QED
    BY <2>2, <2>3, AppendBelowLimit
<1>2. CASE Size(log) >= MaxLog
  <2>1. PICK a \in 1 .. Len(log) : /\ Truncate(log) = Cut(log, a)
                                   /\ Size(log) - Sizes(log)[a] <= Keep
    BY <1>2, Truncated
  <2> DEFINE t == Cut(log, a)
  <2>2. AppendLine(log, e) = Append(t, e)
    BY <1>2, <2>1 DEF AppendLine
  <2>3. /\ t \in Seq(LogLine) /\ Len(t) = Len(log) - a + 1 /\ Sized(t)
        /\ \A n \in 1 .. Len(log) - a + 1 :
              Sizes(t)[n] = 1 + Sizes(log)[a + n - 1] - Sizes(log)[a]
    BY CutElements, CutSized
  <2>4. Size(t) < MaxLog
    <3>1. Len(t) \in 1 .. Len(log) - a + 1 /\ a + Len(t) - 1 = Len(log)
      BY <2>3
    <3>2. Sizes(t)[Len(t)] = 1 + Sizes(log)[Len(log)] - Sizes(log)[a]
      BY <2>3, <3>1
    <3>3. Sizes(log)[Len(log)] \in Nat /\ Sizes(log)[a] \in Nat
      BY DEF Sized, Measures
    <3> QED
      BY <2>1, <3>2, <3>3, OutputAssumption DEF OutputAssumption, Size
  <2> HIDE DEF t
  <2>5. /\ Append(t, e) \in Seq(LogLine) /\ Sized(Append(t, e))
        /\ BelowLimit(Append(t, e))
    BY <2>3, <2>4, AppendBelowLimit
  <2> QED
    BY <2>2, <2>5 DEF t
<1> QED
  BY <1>1, <1>2

-----------------------------------------------------------------------------
(***************************************************************************)
(* Types, by groups of variables.                                          *)
(***************************************************************************)
AgentTypes ==
    /\ exec \in [Job -> {"queued", "run", "report", "reporting", "done"}]
    /\ IsFiniteSet(Holding) /\ Cardinality(Holding) <= Capacity
    /\ outcome \in [Job -> {"none", "success", "failure"}]

RunTypes ==
    /\ run \in [Job -> [pc : {"none", "create", "start", "logs", "wait", "drain",
                             "remove", "end"}, failed : BOOLEAN]]
    /\ killed \subseteq Job /\ abandoned \subseteq Job /\ stray \subseteq Job
    /\ faults \in 0 .. MaxFaults

HostTypes ==
    /\ container \in [Job -> {"none", "created", "running", "exited", "removed"}]
    /\ printed \in [Job -> 0 .. MaxLines] /\ long \in [Job -> 0 .. MaxLines]

ReaderTypes ==
    /\ reader \in [Job -> {"none", "reading", "stopped"}]
    /\ read \in [Job -> 0 .. MaxLines] /\ pending \in [Job -> Seq(Entry)]

LogTypes ==
    /\ stored \in [Job -> Seq(LogLine)] /\ accepted \in [Job -> Seq(Entry)]
    /\ copy \in [Job -> Seq(LogLine) \cup {NoCopy}]

TypeInv == AgentTypes /\ RunTypes /\ HostTypes /\ ReaderTypes /\ LogTypes

\* The action of one job.
Acts(j) == Execute(j) \/ Run(j) \/ Container(j) \/ Reader(j) \/ Server(j)

LEMMA TypeInvHasTypes == TypeInv => OutputTypeOK
BY DEF TypeInv, AgentTypes, RunTypes, HostTypes, ReaderTypes, LogTypes, LogLine,
       OutputTypeOK

LEMMA TypeInit == Init => TypeInv
<1> SUFFICES ASSUME Init
             PROVE  TypeInv
  OBVIOUS
<1> USE OutputAssumption DEF OutputAssumption
<1>1. AgentTypes
  <2>1. Holding = {}
    BY DEF Init, Holding
  <2> QED
    BY <2>1, FS_EmptySet DEF Init, AgentTypes
<1>2. RunTypes /\ HostTypes
  BY DEF Init, RunTypes, HostTypes
<1>3. ReaderTypes /\ LogTypes
  <2>1. <<>> \in Seq(Entry) /\ <<>> \in Seq(LogLine)
    OBVIOUS
  <2> QED
    BY <2>1 DEF Init, ReaderTypes, LogTypes
<1> QED
  BY <1>1, <1>2, <1>3 DEF TypeInv

\* A job leaves the semaphore, or none does.
LEMMA HoldingShrinks ==
    ASSUME AgentTypes, Holding' \subseteq Holding
    PROVE  IsFiniteSet(Holding') /\ Cardinality(Holding') <= Capacity
<1>1. /\ IsFiniteSet(Holding) /\ Cardinality(Holding) <= Capacity
  BY DEF AgentTypes
<1>2. IsFiniteSet(Holding') /\ Cardinality(Holding') <= Cardinality(Holding)
  BY <1>1, FS_Subset
<1>3. Cardinality(Holding) \in Nat /\ Cardinality(Holding') \in Nat /\ Capacity \in Nat
  BY <1>1, <1>2, FS_CardinalityType, OutputAssumption DEF OutputAssumption
<1> QED
  BY <1>1, <1>2, <1>3

LEMMA AgentTypesStep == TypeInv /\ Next => AgentTypes'
<1> SUFFICES ASSUME TypeInv, Next
             PROVE  AgentTypes'
  OBVIOUS
<1> USE DEF TypeInv
<1>1. ASSUME NEW j \in Job, Receive(j)
      PROVE  AgentTypes'
  <2>1. Holding' = Holding \cup {j} /\ j \notin Holding
    BY <1>1 DEF Receive, Holding, AgentTypes
  <2>2. IsFiniteSet(Holding') /\ Cardinality(Holding') <= Capacity
    <3>1. IsFiniteSet(Holding)
      BY DEF AgentTypes
    <3>2. IsFiniteSet(Holding') /\ Cardinality(Holding') = Cardinality(Holding) + 1
      BY <2>1, <3>1, FS_AddElement
    <3>3. Cardinality(Holding) \in Nat
      BY <3>1, FS_CardinalityType
    <3> QED
      BY <1>1, <3>2, <3>3, OutputAssumption DEF Receive, OutputAssumption
  <2> QED
    BY <1>1, <2>2 DEF Receive, AgentTypes
<1>2. ASSUME NEW j \in Job, RunReturned(j) \/ NoLongerWaiting(j)
      PROVE  AgentTypes'
  <2>1. Holding' \subseteq Holding
    BY <1>2 DEF RunReturned, NoLongerWaiting, Outcome, Holding, AgentTypes
  <2> QED
    BY <1>2, <2>1, HoldingShrinks DEF RunReturned, NoLongerWaiting, Outcome, AgentTypes
<1>3. ASSUME NEW j \in Job, Done(j) \/ SaveCopy(j)
      PROVE  AgentTypes'
  <2>1. Holding' \subseteq Holding
    BY <1>3 DEF Done, SaveCopy, Holding, AgentTypes
  <2>2. exec' \in [Job -> {"queued", "run", "report", "reporting", "done"}]
    BY <1>3 DEF Done, SaveCopy, AgentTypes
  <2>3. outcome' = outcome
    BY <1>3 DEF Done, SaveCopy
  <2> QED
    BY <2>1, <2>2, <2>3, HoldingShrinks DEF AgentTypes
<1>4. CASE AgentExits
  <2>1. Holding' \subseteq Holding
    BY <1>4 DEF AgentExits, Holding, AgentTypes
  <2>2. /\ exec' \in [Job -> {"queued", "run", "report", "reporting", "done"}]
        /\ outcome' = outcome
    BY <1>4 DEF AgentExits
  <2> QED
    BY <2>1, <2>2, HoldingShrinks DEF AgentTypes
<1>5. ASSUME NEW j \in Job, CtxDone(j) \/ Run(j) \/ Container(j) \/ Reader(j)
                            \/ ProcessLog(j) \/ LogFails(j) \/ CancelJob(j)
      PROVE  AgentTypes'
  <2>1. UNCHANGED <<exec, outcome>>
    BY <1>5 DEF CtxDone, Run, Create, CreateFails, Start, StartFails, FollowLogs, Wait,
                WaitFails, Drained, Cleanup, CleanupFails, Container, PrintLine, Exit,
                Reader, Scan, StreamEnds, ProcessLog, LogFails, CancelJob, agentVars
  <2>2. Holding' = Holding
    BY <2>1 DEF Holding
  <2> QED
    BY <2>1, <2>2, HoldingShrinks DEF AgentTypes
<1> QED
  BY <1>1, <1>2, <1>3, <1>4, <1>5 DEF Next, Execute, Server

LEMMA RunTypesStep == TypeInv /\ Next => RunTypes'
<1> SUFFICES ASSUME TypeInv, Next
             PROVE  RunTypes'
  OBVIOUS
<1> USE OutputAssumption DEF OutputAssumption, TypeInv, RunTypes
<1>1. ASSUME NEW j \in Job, Execute(j)
      PROVE  RunTypes'
  BY <1>1 DEF Execute, Receive, CtxDone, RunReturned, NoLongerWaiting, Outcome, RunGoes,
              history
<1>2. ASSUME NEW j \in Job, Run(j)
      PROVE  RunTypes'
  <2> USE DEF RunGoes, RunFails, CallFails, Fault, history
  <2>1. CASE Create(j) \/ Start(j) \/ Drained(j) \/ Cleanup(j)
    BY <2>1 DEF Create, Start, Drained, Cleanup
  <2>2. CASE CreateFails(j)
    BY <2>2 DEF CreateFails
  <2>3. CASE StartFails(j)
    BY <2>3 DEF StartFails
  <2>4. CASE WaitFails(j)
    BY <2>4 DEF WaitFails
  <2>5. CASE FollowLogs(j)
    BY <2>5 DEF FollowLogs
  <2>6. CASE Wait(j)
    BY <2>6 DEF Wait
  <2>7. CASE CleanupFails(j)
    BY <2>7 DEF CleanupFails
  <2> QED
    BY <1>2, <2>1, <2>2, <2>3, <2>4, <2>5, <2>6, <2>7 DEF Run
<1>3. ASSUME NEW j \in Job, Container(j) \/ Reader(j)
      PROVE  RunTypes'
  BY <1>3 DEF Container, PrintLine, Exit, Reader, Scan, StreamEnds, agentVars, history
<1>4. ASSUME NEW j \in Job, Server(j)
      PROVE  RunTypes'
  BY <1>4 DEF Server, ProcessLog, LogFails, CancelJob, Done, SaveCopy, Fault, agentVars,
              history
<1>5. CASE AgentExits
  BY <1>5 DEF AgentExits, Fault
<1> QED
  BY <1>1, <1>2, <1>3, <1>4, <1>5 DEF Next

LEMMA HostTypesStep == TypeInv /\ Next => HostTypes'
<1> SUFFICES ASSUME TypeInv, Next
             PROVE  HostTypes'
  OBVIOUS
<1> USE OutputAssumption DEF OutputAssumption, TypeInv, HostTypes, hostVars
<1>1. ASSUME NEW j \in Job, Run(j)
      PROVE  HostTypes'
  <2>1. CASE Create(j) \/ CreateFails(j) \/ StartFails(j) \/ Cleanup(j)
    BY <2>1 DEF Create, CreateFails, StartFails, Cleanup
  <2>2. CASE Start(j)
    BY <2>2 DEF Start
  <2>3. CASE FollowLogs(j) \/ Wait(j) \/ WaitFails(j) \/ Drained(j) \/ CleanupFails(j)
    BY <2>3 DEF FollowLogs, Wait, WaitFails, Drained, CleanupFails
  <2> QED
    BY <1>1, <2>1, <2>2, <2>3 DEF Run
<1>2. ASSUME NEW j \in Job, Container(j)
      PROVE  HostTypes'
  BY <1>2 DEF Container, PrintLine, Exit
<1>3. ASSUME NEW j \in Job, Execute(j) \/ Reader(j) \/ Server(j)
      PROVE  HostTypes'
  BY <1>3 DEF Execute, Receive, CtxDone, RunReturned, NoLongerWaiting, Outcome, Reader,
              Scan, StreamEnds, Server, ProcessLog, LogFails, CancelJob, Done, SaveCopy
<1>4. CASE AgentExits
  BY <1>4 DEF AgentExits
<1> QED
  BY <1>1, <1>2, <1>3, <1>4 DEF Next

LEMMA EntriesAre ==
    ASSUME NEW n \in Line
    PROVE  /\ Entries(n) \in Seq(Entry) /\ Len(Entries(n)) \in {1, 2}
           /\ Entries(n)[1] = [line |-> n, progress |-> FALSE]
           /\ Len(Entries(n)) = 2 => Entries(n)[2] = [line |-> n, progress |-> TRUE]
<1> DEFINE d == [line |-> n, progress |-> FALSE]
           e == [line |-> n, progress |-> TRUE]
<1>1. d \in Entry /\ e \in Entry
  BY DEF Entry
<1>2. Entries(n) = <<d>> \o IF HasProgress(n) THEN <<e>> ELSE <<>>
  BY DEF Entries
<1> HIDE DEF d, e
<1>3. CASE HasProgress(n)
  <2>1. Entries(n) = <<d>> \o <<e>>
    BY <1>2, <1>3
  <2> DEFINE s == <<d>>
             t == <<e>>
  <2>2. /\ s \in Seq(Entry) /\ Len(s) = 1 /\ s[1] = d
        /\ t \in Seq(Entry) /\ Len(t) = 1 /\ t[1] = e
    BY <1>1
  <2>3. Entries(n) = s \o t
    BY <2>1
  <2> HIDE DEF s, t
  <2>4. /\ s \o t \in Seq(Entry) /\ Len(s \o t) = Len(s) + Len(t)
        /\ \A k \in 1 .. Len(s) + Len(t) :
              (s \o t)[k] = IF k <= Len(s) THEN s[k] ELSE t[k - Len(s)]
    BY <2>2, ConcatProperties
  <2>5. Len(s \o t) = 2 /\ (s \o t)[1] = d /\ (s \o t)[2] = e
    BY <2>2, <2>4
  <2> QED
    BY <2>3, <2>4, <2>5 DEF d, e
<1>4. CASE ~HasProgress(n)
  <2>1. Entries(n) = <<d>> \o <<>>
    BY <1>2, <1>4
  <2>2. Entries(n) = <<d>>
    BY <2>1
  <2> QED
    BY <1>1, <2>2 DEF d
<1> QED
  BY <1>3, <1>4

LEMMA ReaderTypesStep == TypeInv /\ Next => ReaderTypes'
<1> SUFFICES ASSUME TypeInv, Next
             PROVE  ReaderTypes'
  OBVIOUS
<1> USE OutputAssumption DEF OutputAssumption, TypeInv, ReaderTypes, readerVars
<1>1. ASSUME NEW j \in Job, Scan(j)
      PROVE  ReaderTypes'
  <2> DEFINE n == read[j] + 1
  <2>1. n \in Line /\ n \in 0 .. MaxLines
    BY <1>1 DEF Scan, HostTypes, Line
  <2>2. Entries(n) \in Seq(Entry)
    BY <2>1, EntriesAre
  <2>3. CASE n = long[j]
    BY <1>1, <2>3 DEF Scan
  <2>4. CASE n # long[j]
    BY <1>1, <2>1, <2>2, <2>4 DEF Scan
  <2> QED
    BY <2>3, <2>4
<1>2. ASSUME NEW j \in Job, StreamEnds(j) \/ FollowLogs(j)
      PROVE  ReaderTypes'
  BY <1>2 DEF StreamEnds, FollowLogs
<1>3. ASSUME NEW j \in Job, ProcessLog(j) \/ LogFails(j)
      PROVE  ReaderTypes'
  <2>1. pending[j] # <<>> /\ pending[j] \in Seq(Entry)
    BY <1>3 DEF ProcessLog, LogFails
  <2>2. Tail(pending[j]) \in Seq(Entry) /\ <<>> \in Seq(Entry)
    BY <2>1
  <2> QED
    BY <1>3, <2>2 DEF ProcessLog, LogFails
<1>4. ASSUME NEW j \in Job,
             \/ Execute(j) \/ Container(j) \/ CancelJob(j) \/ Done(j) \/ SaveCopy(j)
             \/ Run(j) /\ ~FollowLogs(j)
      PROVE  ReaderTypes'
  BY <1>4 DEF Execute, Receive, CtxDone, RunReturned, NoLongerWaiting, Outcome, Container,
              PrintLine, Exit, CancelJob, Done, SaveCopy, Run, Create, CreateFails, Start,
              StartFails, Wait, WaitFails, Drained, Cleanup, CleanupFails
<1>5. CASE AgentExits
  <2>1. <<>> \in Seq(Entry)
    OBVIOUS
  <2> QED
    BY <1>5, <2>1 DEF AgentExits
<1> QED
  BY <1>1, <1>2, <1>3, <1>4, <1>5 DEF Next, Reader, Server

\* What the row is after ProcessLog.
LEMMA StoreStep ==
    ASSUME TypeInv, NEW j \in Job, ProcessLog(j), Sized(stored[j])
    PROVE  LET e == Head(pending[j]) IN
           /\ pending[j] \in Seq(Entry) /\ pending[j] # <<>>
           /\ e \in Entry /\ e \in LogLine /\ e = pending[j][1]
           /\ stored[j] \in Seq(LogLine) /\ accepted[j] \in Seq(Entry)
           /\ stored'[j] = AppendLine(stored[j], e) /\ stored'[j] \in Seq(LogLine)
           /\ Sized(stored'[j]) /\ BelowLimit(stored'[j])
           /\ accepted'[j] = Append(accepted[j], e) /\ accepted'[j] \in Seq(Entry)
           /\ \/ stored'[j] = Append(stored[j], e)
              \/ \E a \in 1 .. Len(stored[j]) : stored'[j] = Append(Cut(stored[j], a), e)
<1> DEFINE e == Head(pending[j])
<1>1. pending[j] \in Seq(Entry) /\ pending[j] # <<>>
  BY DEF ProcessLog, TypeInv, ReaderTypes
<1>2. e \in Entry /\ e \in LogLine /\ e = pending[j][1]
  BY <1>1 DEF LogLine
<1>3. stored[j] \in Seq(LogLine) /\ accepted[j] \in Seq(Entry)
  BY DEF TypeInv, LogTypes
<1>4. stored'[j] = AppendLine(stored[j], e) /\ accepted'[j] = Append(accepted[j], e)
  BY DEF ProcessLog, Store, TypeInv, LogTypes
<1> HIDE DEF e
<1>5. /\ AppendLine(stored[j], e) \in Seq(LogLine) /\ Sized(AppendLine(stored[j], e))
      /\ BelowLimit(AppendLine(stored[j], e))
      /\ \/ AppendLine(stored[j], e) = Append(stored[j], e)
         \/ \E a \in 1 .. Len(stored[j]) :
               AppendLine(stored[j], e) = Append(Cut(stored[j], a), e)
  BY <1>2, <1>3, AppendLineBounded
<1>6. Append(accepted[j], e) \in Seq(Entry)
  BY <1>2, <1>3
<1>7. /\ stored'[j] \in Seq(LogLine) /\ Sized(stored'[j]) /\ BelowLimit(stored'[j])
      /\ \/ stored'[j] = Append(stored[j], e)
         \/ \E a \in 1 .. Len(stored[j]) : stored'[j] = Append(Cut(stored[j], a), e)
  BY <1>4, <1>5, Zenon
<1>8. accepted'[j] \in Seq(Entry)
  BY <1>4, <1>6, Zenon
<1> QED
  BY <1>1, <1>2, <1>3, <1>4, <1>7, <1>8, Zenon DEF e

-----------------------------------------------------------------------------
(***************************************************************************)
(* The inductive invariant, for each job.                                  *)
(***************************************************************************)
SizeInv(j) ==
    /\ Sized(stored[j]) /\ BelowLimit(stored[j])
    /\ copy[j] # NoCopy => Sized(copy[j]) /\ BelowLimit(copy[j])

\* Where Run is tells what the container is.
RunInv(j) ==
    /\ exec[j] = "queued" <=> RunAt(j, "none")
    /\ run[j].pc \in {"none", "create"} => container[j] = "none"
    /\ RunAt(j, "start") => container[j] = "created"
    /\ run[j].pc \in {"logs", "wait", "drain"} => container[j] \in {"running", "exited"}
    /\ container[j] = "removed" => RunAt(j, "end")
    /\ container[j] \in {"none", "created"} => printed[j] = 0
    /\ j \in stray \/ (Exists(j) => run[j].pc \notin {"none", "end"})

ReaderInv(j) ==
    /\ run[j].pc \in {"none", "create", "start", "logs"} => reader[j] = "none"
    /\ container[j] \in {"none", "created"} => reader[j] = "none"
    /\ reader[j] = "none" => read[j] = 0
    /\ reader[j] # "reading" => pending[j] = <<>>

\* Every entry of a line that was read is accepted or in the call under way.
Scanned(j) ==
    \A n \in 1 .. read[j] : \A p \in DOMAIN Entries(n) :
        \/ \E k \in DOMAIN accepted[j] : accepted[j][k] = Entries(n)[p]
        \/ \E k \in DOMAIN pending[j] : pending[j][k] = Entries(n)[p]

AllRead(j) == container[j] \in {"exited", "removed"} /\ read[j] = printed[j]

\* Run waits for the reader, and the report for Run, unless the job is given up.
DrainInv(j) ==
    j \notin abandoned =>
        /\ j \notin killed
        /\ exec[j] \in {"report", "reporting", "done"} => RunAt(j, "end")
        /\ run[j].pc \in {"wait", "drain"} => reader[j] # "none"
        /\ RunAt(j, "remove") => reader[j] = "stopped"
        /\ RunAt(j, "end") => reader[j] = "stopped" \/ container[j] \in {"none", "created"}
        /\ reader[j] = "stopped" => AllRead(j) \/ long[j] \in 1 .. printed[j]
        /\ Scanned(j)

Ascends(log) == \A k, l \in DOMAIN log : k < l => Before(log[k], log[l])

\* A log holds lines that were read, and nothing of the call under way.
ReadBefore(log, n, call) ==
    \A k \in DOMAIN log :
        log[k].line <= n /\ \A p \in DOMAIN call : Before(log[k], call[p])

OrderInv(j) ==
    /\ Ascends(pending[j])
    /\ \A p \in DOMAIN pending[j] : pending[j][p].line = read[j]
    /\ Ascends(stored[j]) /\ ReadBefore(stored[j], read[j], pending[j])
    /\ copy[j] # NoCopy => Ascends(copy[j]) /\ ReadBefore(copy[j], read[j], pending[j])

EndOf(log, all) == log = all \/ \E k \in 1 .. Len(all) : log = Cut(all, k)

KeptInv(j) ==
    j \notin abandoned =>
        /\ EndOf(stored[j], accepted[j])
        /\ copy[j] # NoCopy => copy[j] = stored[j] /\ exec[j] = "reporting"

JobInv(j) ==
    SizeInv(j) /\ RunInv(j) /\ ReaderInv(j) /\ DrainInv(j) /\ OrderInv(j) /\ KeptInv(j)

Inv == TypeInv /\ \A j \in Job : JobInv(j)

LEMMA LogTypesStep == Inv /\ Next => LogTypes'
<1> SUFFICES ASSUME Inv, Next
             PROVE  LogTypes'
  OBVIOUS
<1> USE DEF Inv, TypeInv, LogTypes, logVars
<1>1. ASSUME NEW j \in Job, ProcessLog(j)
      PROVE  LogTypes'
  <2>1. stored'[j] \in Seq(LogLine) /\ accepted'[j] \in Seq(Entry)
    BY <1>1, StoreStep, Zenon DEF JobInv, SizeInv
  <2>2. /\ stored' = [stored EXCEPT ![j] = stored'[j]]
        /\ accepted' = [accepted EXCEPT ![j] = accepted'[j]]
        /\ copy' = copy
    BY <1>1 DEF ProcessLog, Store
  <2> QED
    BY <2>1, <2>2
<1>2. ASSUME NEW j \in Job, CancelJob(j) \/ Done(j)
      PROVE  LogTypes'
  BY <1>2 DEF CancelJob, Done
<1>3. ASSUME NEW j \in Job, SaveCopy(j)
      PROVE  LogTypes'
  BY <1>3 DEF SaveCopy
<1>4. ASSUME NEW j \in Job,
             Execute(j) \/ Run(j) \/ Container(j) \/ Reader(j) \/ LogFails(j)
      PROVE  LogTypes'
  BY <1>4 DEF Execute, Receive, CtxDone, RunReturned, NoLongerWaiting, Outcome, Run,
              Create, CreateFails, Start, StartFails, FollowLogs, Wait, WaitFails, Drained,
              Cleanup, CleanupFails, Container, PrintLine, Exit, Reader, Scan, StreamEnds,
              LogFails
<1>5. CASE AgentExits
  BY <1>5 DEF AgentExits
<1> QED
  BY <1>1, <1>2, <1>3, <1>4, <1>5 DEF Next, Server

LEMMA TypeStep == Inv /\ Next => TypeInv'
BY AgentTypesStep, RunTypesStep, HostTypesStep, ReaderTypesStep, LogTypesStep
   DEF Inv, TypeInv

-----------------------------------------------------------------------------
(***************************************************************************)
(* Ends of logs.                                                           *)
(***************************************************************************)
LEMMA AppendElements ==
    ASSUME NEW log \in Seq(LogLine), NEW e \in LogLine
    PROVE  /\ Append(log, e) \in Seq(LogLine) /\ Len(Append(log, e)) = Len(log) + 1
           /\ \A k \in 1 .. Len(log) : Append(log, e)[k] = log[k]
           /\ Append(log, e)[Len(log) + 1] = e
OBVIOUS

LEMMA AppendCut ==
    ASSUME NEW log \in Seq(LogLine), NEW e \in LogLine, NEW a \in 1 .. Len(log)
    PROVE  Append(Cut(log, a), e) = Cut(Append(log, e), a)
<1> DEFINE all == Append(log, e)
           s == Append(Cut(log, a), e)
           t == Cut(all, a)
<1>1. /\ Cut(log, a) \in Seq(LogLine) /\ Len(Cut(log, a)) = Len(log) - a + 1
      /\ Cut(log, a)[1] = Header
      /\ \A n \in 2 .. Len(log) - a + 1 : Cut(log, a)[n] = log[a + n - 1]
  BY CutElements
<1>2. /\ all \in Seq(LogLine) /\ Len(all) = Len(log) + 1 /\ all[Len(log) + 1] = e
      /\ \A k \in 1 .. Len(log) : all[k] = log[k]
  BY AppendElements
<1>3. /\ s \in Seq(LogLine) /\ Len(s) = Len(log) - a + 1 + 1
      /\ s[Len(log) - a + 1 + 1] = e
      /\ \A n \in 1 .. Len(log) - a + 1 : s[n] = Cut(log, a)[n]
  BY <1>1, AppendElements
<1> HIDE DEF all, s
<1>4. /\ t \in Seq(LogLine) /\ Len(t) = Len(all) - a + 1 /\ t[1] = Header
      /\ \A n \in 2 .. Len(all) - a + 1 : t[n] = all[a + n - 1]
  <2>1. a \in 0 .. Len(all)
    BY <1>2
  <2> QED
    BY <1>2, <2>1, CutElements
<1> HIDE DEF t
<1>5. Len(s) = Len(t)
  BY <1>2, <1>3, <1>4
<1>6. ASSUME NEW n \in 1 .. Len(s)
      PROVE  s[n] = t[n]
  <2>1. CASE n = 1
    BY <1>1, <1>3, <1>4, <2>1
  <2>2. CASE n \in 2 .. Len(log) - a + 1
    <3>1. /\ a + n - 1 \in 1 .. Len(log) /\ n \in 2 .. Len(all) - a + 1
          /\ n \in 1 .. Len(log) - a + 1
      BY <1>2, <2>2
    <3>2. s[n] = Cut(log, a)[n]
      BY <1>3, <3>1
    <3>3. Cut(log, a)[n] = log[a + n - 1]
      BY <1>1, <2>2
    <3>4. t[n] = all[a + n - 1]
      BY <1>4, <3>1
    <3>5. all[a + n - 1] = log[a + n - 1]
      BY <1>2, <3>1
    <3> QED
      BY <3>2, <3>3, <3>4, <3>5, Zenon
  <2>3. CASE n = Len(log) - a + 1 + 1
    <3>1. a + n - 1 = Len(log) + 1 /\ n \in 2 .. Len(all) - a + 1
      BY <1>2, <2>3
    <3>2. t[n] = all[a + n - 1]
      BY <1>4, <3>1
    <3> QED
      BY <1>2, <1>3, <2>3, <3>1, <3>2
  <2> QED
    BY <1>3, <2>1, <2>2, <2>3
<1>7. s = t
  BY <1>3, <1>4, <1>5, <1>6, SeqEqual
<1> QED
  BY <1>7 DEF s, t, all

LEMMA CutCut ==
    ASSUME NEW log \in Seq(LogLine), NEW k \in 1 .. Len(log),
           NEW a \in 1 .. Len(log) - k + 1
    PROVE  k + a - 1 \in 1 .. Len(log) /\ Cut(Cut(log, k), a) = Cut(log, k + a - 1)
<1> DEFINE c == Cut(log, k)
           b == k + a - 1
           s == Cut(c, a)
           t == Cut(log, b)
<1>1. b \in 1 .. Len(log)
  OBVIOUS
<1>2. /\ c \in Seq(LogLine) /\ Len(c) = Len(log) - k + 1
      /\ \A n \in 2 .. Len(log) - k + 1 : c[n] = log[k + n - 1]
  <2>1. k \in 0 .. Len(log)
    OBVIOUS
  <2> QED
    BY <2>1, CutElements
<1> HIDE DEF c
<1>3. /\ s \in Seq(LogLine) /\ Len(s) = Len(c) - a + 1 /\ s[1] = Header
      /\ \A n \in 2 .. Len(c) - a + 1 : s[n] = c[a + n - 1]
  <2>1. a \in 0 .. Len(c)
    BY <1>2
  <2> QED
    BY <1>2, <2>1, CutElements
<1>4. /\ t \in Seq(LogLine) /\ Len(t) = Len(log) - b + 1 /\ t[1] = Header
      /\ \A n \in 2 .. Len(log) - b + 1 : t[n] = log[b + n - 1]
  <2> HIDE DEF b
  <2> QED
    BY <1>1, CutElements
<1>5. Len(s) = Len(log) - k - a + 2 /\ Len(t) = Len(log) - k - a + 2
  BY <1>2, <1>3, <1>4
<1>6. ASSUME NEW n \in 1 .. Len(s)
      PROVE  s[n] = t[n]
  <2>1. CASE n = 1
    BY <1>3, <1>4, <2>1
  <2>2. CASE n # 1
    <3>1. /\ n \in 2 .. Len(c) - a + 1 /\ n \in 2 .. Len(log) - b + 1
          /\ a + n - 1 \in 2 .. Len(log) - k + 1 /\ k + (a + n - 1) - 1 = b + n - 1
      BY <1>2, <1>5, <2>2
    <3>2. s[n] = c[a + n - 1] /\ t[n] = log[b + n - 1]
      BY <1>3, <1>4, <3>1
    <3>3. c[a + n - 1] = log[k + (a + n - 1) - 1]
      BY <1>2, <3>1
    <3> QED
      BY <3>1, <3>2, <3>3, Zenon
  <2> QED
    BY <2>1, <2>2
<1>7. s = t
  <2> HIDE DEF s, t
  <2> QED
    BY <1>3, <1>4, <1>5, <1>6, SeqEqual
<1> QED
  BY <1>1, <1>7 DEF c

LEMMA BeforeIsOrder ==
    ASSUME NEW d \in LogLine, NEW e \in LogLine, Before(d, e)
    PROVE  d.line <= e.line /\ Before(Header, e)
BY OutputAssumption DEF OutputAssumption, LogLine, Entry, Header, Line, Before

LEMMA HeaderIsFirst ==
    ASSUME NEW e \in Entry
    PROVE  Before(Header, e)
BY OutputAssumption DEF OutputAssumption, Entry, Header, Line, Before

LEMMA AscendsAppend ==
    ASSUME NEW log \in Seq(LogLine), NEW e \in LogLine, Ascends(log),
           \A k \in DOMAIN log : Before(log[k], e)
    PROVE  Ascends(Append(log, e))
<1> DEFINE t == Append(log, e)
<1>1. /\ t \in Seq(LogLine) /\ Len(t) = Len(log) + 1 /\ t[Len(log) + 1] = e
      /\ \A k \in 1 .. Len(log) : t[k] = log[k]
  BY AppendElements
<1> HIDE DEF t
<1>2. ASSUME NEW k \in 1 .. Len(t), NEW l \in 1 .. Len(t), k < l
      PROVE  Before(t[k], t[l])
  BY <1>1, <1>2 DEF Ascends
<1>3. DOMAIN t = 1 .. Len(t)
  BY <1>1
<1> QED
  BY <1>2, <1>3 DEF Ascends, t

\* A cut keeps the order, and has nothing but lines of the log and the header.
LEMMA AscendsCut ==
    ASSUME NEW log \in Seq(LogLine), Ascends(log), NEW a \in 1 .. Len(log)
    PROVE  /\ Ascends(Cut(log, a))
           /\ \A n \in DOMAIN Cut(log, a) :
                 \/ Cut(log, a)[n] = Header
                 \/ \E k \in DOMAIN log : Cut(log, a)[n] = log[k]
<1> DEFINE t == Cut(log, a)
<1>1. /\ t \in Seq(LogLine) /\ Len(t) = Len(log) - a + 1 /\ t[1] = Header
      /\ \A n \in 2 .. Len(log) - a + 1 : t[n] = log[a + n - 1]
  <2>1. a \in 0 .. Len(log)
    OBVIOUS
  <2> QED
    BY <2>1, CutElements
<1> HIDE DEF t
<1>2. DOMAIN t = 1 .. Len(log) - a + 1 /\ DOMAIN log = 1 .. Len(log)
  BY <1>1
<1>3. ASSUME NEW n \in 2 .. Len(log) - a + 1
      PROVE  a + n - 1 \in 2 .. Len(log) /\ t[n] = log[a + n - 1]
  BY <1>1
<1>4. ASSUME NEW k \in 1 .. Len(log) - a + 1, NEW l \in 1 .. Len(log) - a + 1, k < l
      PROVE  Before(t[k], t[l])
  <2>1. l \in 2 .. Len(log) - a + 1
    BY <1>4
  <2>2. a + l - 1 \in 2 .. Len(log) /\ t[l] = log[a + l - 1]
    BY <1>3, <2>1
  <2>3. CASE k = 1
    <3>1. Before(log[1], log[a + l - 1])
      <4>1. 1 \in DOMAIN log /\ a + l - 1 \in DOMAIN log /\ 1 < a + l - 1
        BY <1>2, <2>2
      <4> QED
        BY <4>1 DEF Ascends
    <3>2. log[1] \in LogLine /\ log[a + l - 1] \in LogLine
      BY <1>2, <2>2
    <3>3. Before(Header, log[a + l - 1])
      BY <3>1, <3>2, BeforeIsOrder
    <3> QED
      BY <1>1, <2>2, <2>3, <3>3
  <2>4. CASE k # 1
    <3>1. k \in 2 .. Len(log) - a + 1
      BY <2>4
    <3>2. a + k - 1 \in 2 .. Len(log) /\ t[k] = log[a + k - 1]
      BY <1>3, <3>1
    <3>3. a + k - 1 < a + l - 1
      BY <1>4
    <3>4. a + k - 1 \in DOMAIN log /\ a + l - 1 \in DOMAIN log
      BY <1>2, <2>2, <3>2
    <3>5. Before(log[a + k - 1], log[a + l - 1])
      BY <3>3, <3>4 DEF Ascends
    <3> QED
      BY <2>2, <3>2, <3>5, Zenon
  <2> QED
    BY <2>3, <2>4
<1>5. ASSUME NEW n \in DOMAIN t
      PROVE  t[n] = Header \/ \E k \in DOMAIN log : t[n] = log[k]
  <2>1. n = 1 \/ n \in 2 .. Len(log) - a + 1
    BY <1>2
  <2>2. ASSUME n \in 2 .. Len(log) - a + 1
        PROVE  \E k \in DOMAIN log : t[n] = log[k]
    <3>1. a + n - 1 \in DOMAIN log /\ t[n] = log[a + n - 1]
      BY <1>2, <1>3, <2>2
    <3> QED
      BY <3>1
  <2> QED
    BY <1>1, <2>1, <2>2
<1>6. Ascends(t)
  BY <1>2, <1>4 DEF Ascends
<1> QED
  BY <1>5, <1>6 DEF t

-----------------------------------------------------------------------------
(***************************************************************************)
(* A step of one job leaves the others as they are.                        *)
(***************************************************************************)
Same(i) ==
    /\ exec'[i] = exec[i] /\ run'[i] = run[i]
    /\ container'[i] = container[i] /\ printed'[i] = printed[i] /\ long'[i] = long[i]
    /\ reader'[i] = reader[i] /\ read'[i] = read[i] /\ pending'[i] = pending[i]
    /\ stored'[i] = stored[i] /\ copy'[i] = copy[i] /\ accepted'[i] = accepted[i]
    /\ (i \in killed') = (i \in killed) /\ (i \in abandoned') = (i \in abandoned)
    /\ (i \in stray') = (i \in stray)

LEMMA OthersUnchanged ==
    ASSUME TypeInv, NEW j \in Job, Acts(j), NEW i \in Job, i # j
    PROVE  Same(i)
<1> USE DEF TypeInv, AgentTypes, RunTypes, HostTypes, ReaderTypes, LogTypes, Same,
            agentVars, hostVars, readerVars, logVars, history
<1>1. CASE Execute(j)
  BY <1>1 DEF Execute, Receive, CtxDone, RunReturned, NoLongerWaiting, Outcome, RunGoes
<1>2. CASE Run(j)
  <2> USE DEF RunGoes, RunFails
  <2>1. CASE Create(j) \/ CreateFails(j)
    BY <2>1 DEF Create, CreateFails
  <2>2. CASE Start(j) \/ StartFails(j)
    BY <2>2 DEF Start, StartFails
  <2>3. CASE FollowLogs(j) \/ Wait(j) \/ WaitFails(j)
    BY <2>3 DEF FollowLogs, Wait, WaitFails
  <2>4. CASE Drained(j) \/ Cleanup(j) \/ CleanupFails(j)
    BY <2>4 DEF Drained, Cleanup, CleanupFails
  <2> QED
    BY <1>2, <2>1, <2>2, <2>3, <2>4 DEF Run
<1>3. CASE Container(j) \/ Reader(j)
  BY <1>3 DEF Container, PrintLine, Exit, Reader, Scan, StreamEnds
<1>4. CASE Server(j)
  BY <1>4 DEF Server, ProcessLog, Store, LogFails, CancelJob, Done, SaveCopy
<1> QED
  BY <1>1, <1>2, <1>3, <1>4 DEF Acts

LEMMA SameKeeps ==
    ASSUME NEW i \in Job, Same(i), JobInv(i)
    PROVE  JobInv(i)'
<1> USE DEF Same, JobInv
<1>1. SizeInv(i)'
  BY DEF SizeInv
<1>2. RunInv(i)'
  BY DEF RunInv, RunAt, Exists
<1>3. ReaderInv(i)'
  BY DEF ReaderInv
<1>4. DrainInv(i)'
  BY DEF DrainInv, RunAt, AllRead, Scanned
<1>5. OrderInv(i)'
  BY DEF OrderInv, ReadBefore
<1>6. KeptInv(i)'
  BY DEF KeptInv
<1> QED
  BY <1>1, <1>2, <1>3, <1>4, <1>5, <1>6

-----------------------------------------------------------------------------
(***************************************************************************)
(* The step of a job keeps its own part of the invariant.                  *)
(***************************************************************************)
JobTypes(j) ==
    /\ exec[j] \in {"queued", "run", "report", "reporting", "done"}
    /\ run[j] \in [pc : {"none", "create", "start", "logs", "wait", "drain", "remove",
                         "end"}, failed : BOOLEAN]
    /\ container[j] \in {"none", "created", "running", "exited", "removed"}
    /\ printed[j] \in 0 .. MaxLines /\ long[j] \in 0 .. MaxLines
    /\ reader[j] \in {"none", "reading", "stopped"}
    /\ read[j] \in 0 .. MaxLines /\ pending[j] \in Seq(Entry)
    /\ stored[j] \in Seq(LogLine) /\ accepted[j] \in Seq(Entry)
    /\ copy[j] \in Seq(LogLine) \cup {NoCopy}

LEMMA TypesOfJob == TypeInv => \A j \in Job : JobTypes(j)
BY DEF TypeInv, AgentTypes, RunTypes, HostTypes, ReaderTypes, LogTypes, JobTypes

LEMMA RunStep ==
    ASSUME Inv, NEW j \in Job, Acts(j)
    PROVE  RunInv(j)'
<1>1. RunInv(j) /\ TypeInv
  BY DEF Inv, JobInv
<1> USE <1>1 DEF RunInv, RunAt, Exists, TypeInv, AgentTypes, RunTypes, HostTypes,
             agentVars, hostVars, history
<1>2. CASE Execute(j)
  BY <1>2 DEF Execute, Receive, CtxDone, RunReturned, NoLongerWaiting, Outcome, RunGoes
<1>3. CASE Run(j)
  <2> USE DEF RunGoes, RunFails
  <2>1. CASE Create(j) \/ CreateFails(j)
    BY <2>1 DEF Create, CreateFails
  <2>2. CASE Start(j)
    BY <2>2 DEF Start
  <2>3. CASE StartFails(j)
    BY <2>3 DEF StartFails
  <2>4. CASE FollowLogs(j)
    BY <2>4 DEF FollowLogs
  <2>5. CASE Wait(j) \/ WaitFails(j) \/ Drained(j)
    BY <2>5 DEF Wait, WaitFails, Drained
  <2>6. CASE Cleanup(j) \/ CleanupFails(j)
    BY <2>6 DEF Cleanup, CleanupFails
  <2> QED
    BY <1>3, <2>1, <2>2, <2>3, <2>4, <2>5, <2>6 DEF Run
<1>4. CASE Container(j)
  BY <1>4 DEF Container, PrintLine, Exit
<1>5. CASE Reader(j)
  BY <1>5 DEF Reader, Scan, StreamEnds
<1>6. CASE Server(j)
  BY <1>6 DEF Server, ProcessLog, LogFails, CancelJob, Done, SaveCopy
<1> QED
  BY <1>2, <1>3, <1>4, <1>5, <1>6 DEF Acts

LEMMA ReaderStep ==
    ASSUME Inv, NEW j \in Job, Acts(j)
    PROVE  ReaderInv(j)'
<1>1. ReaderInv(j) /\ RunInv(j) /\ TypeInv
  BY DEF Inv, JobInv
<1> USE <1>1 DEF ReaderInv, RunInv, RunAt, TypeInv, AgentTypes, RunTypes, HostTypes,
             ReaderTypes, agentVars, hostVars, readerVars
<1>2. CASE Execute(j)
  BY <1>2 DEF Execute, Receive, CtxDone, RunReturned, NoLongerWaiting, Outcome, RunGoes
<1>3. CASE Run(j)
  <2> USE DEF RunGoes, RunFails
  <2>1. CASE Create(j) \/ CreateFails(j)
    BY <2>1 DEF Create, CreateFails
  <2>2. CASE Start(j) \/ StartFails(j)
    BY <2>2 DEF Start, StartFails
  <2>3. CASE FollowLogs(j)
    BY <2>3 DEF FollowLogs
  <2>4. CASE Wait(j) \/ WaitFails(j) \/ Drained(j)
    BY <2>4 DEF Wait, WaitFails, Drained
  <2>5. CASE Cleanup(j) \/ CleanupFails(j)
    BY <2>5 DEF Cleanup, CleanupFails
  <2> QED
    BY <1>3, <2>1, <2>2, <2>3, <2>4, <2>5 DEF Run
<1>4. CASE Container(j)
  BY <1>4 DEF Container, PrintLine, Exit
<1>5. CASE Reader(j)
  BY <1>5 DEF Reader, Scan, StreamEnds
<1>6. CASE Server(j)
  <2>1. CASE ProcessLog(j) \/ LogFails(j)
    <3>1. reader[j] = "reading" /\ reader' = reader /\ read' = read
          /\ run' = run /\ container' = container
      BY <2>1 DEF ProcessLog, LogFails
    <3> QED
      BY <3>1
  <2>2. CASE CancelJob(j) \/ Done(j) \/ SaveCopy(j)
    BY <2>2 DEF CancelJob, Done, SaveCopy
  <2> QED
    BY <1>6, <2>1, <2>2 DEF Server
<1> QED
  BY <1>2, <1>3, <1>4, <1>5, <1>6 DEF Acts

\* The rows change only when an entry is stored or a copy taken or saved.
LEMMA SizeStep ==
    ASSUME Inv, NEW j \in Job, Acts(j)
    PROVE  SizeInv(j)'
<1>1. SizeInv(j) /\ TypeInv
  BY DEF Inv, JobInv
<1> USE DEF SizeInv
<1>2. CASE ProcessLog(j)
  <2>1. Sized(stored'[j]) /\ BelowLimit(stored'[j])
    BY <1>1, <1>2, StoreStep, Zenon
  <2>2. copy' = copy
    BY <1>2 DEF ProcessLog
  <2> QED
    BY <1>1, <2>1, <2>2
<1>3. CASE CancelJob(j) \/ Done(j)
  <2>1. stored' = stored /\ copy'[j] = stored[j]
    BY <1>1, <1>3 DEF CancelJob, Done, TypeInv, LogTypes
  <2> QED
    BY <1>1, <2>1
<1>4. CASE SaveCopy(j)
  <2>1. stored'[j] = copy[j] /\ copy'[j] = NoCopy /\ copy[j] # NoCopy
    BY <1>1, <1>4 DEF SaveCopy, TypeInv, LogTypes
  <2> QED
    BY <1>1, <2>1
<1>5. CASE Execute(j) \/ Run(j) \/ Container(j) \/ Reader(j) \/ LogFails(j)
  <2>1. stored' = stored /\ copy' = copy
    BY <1>5 DEF Execute, Receive, CtxDone, RunReturned, NoLongerWaiting, Outcome, Run,
                Create, CreateFails, Start, StartFails, FollowLogs, Wait, WaitFails,
                Drained, Cleanup, CleanupFails, Container, PrintLine, Exit, Reader, Scan,
                StreamEnds, LogFails, logVars
  <2> QED
    BY <1>1, <2>1
<1> QED
  BY <1>2, <1>3, <1>4, <1>5 DEF Acts, Server

\* What is read is accepted or under way: an entry leaves the call when it is
\* stored, and the next line is read when the call is over.
LEMMA ScannedStep ==
    ASSUME Inv, NEW j \in Job, Acts(j), j \notin abandoned', Scanned(j)
    PROVE  Scanned(j)'
<1>1. TypeInv /\ JobTypes(j)
  BY TypesOfJob DEF Inv
<1> USE DEF Scanned
<1>2. CASE Scan(j)
  <2> DEFINE n == read[j] + 1
  <2>1. pending[j] = <<>> /\ accepted' = accepted /\ DOMAIN pending[j] = {}
    BY <1>2 DEF Scan, logVars
  <2>2. CASE n = long[j]
    BY <1>2, <2>1, <2>2 DEF Scan
  <2>3. CASE n # long[j]
    <3>1. read'[j] = n /\ pending'[j] = Entries(n)
      BY <1>1, <1>2, <2>3 DEF Scan, TypeInv, ReaderTypes
    <3>2. ASSUME NEW l \in 1 .. read[j], NEW p \in DOMAIN Entries(l)
          PROVE  \E k \in DOMAIN accepted'[j] : accepted'[j][k] = Entries(l)[p]
      BY <2>1
    <3>3. ASSUME NEW p \in DOMAIN Entries(n)
          PROVE  \E k \in DOMAIN pending'[j] : pending'[j][k] = Entries(n)[p]
      BY <3>1
    <3>4. \A l \in 1 .. read'[j] : l \in 1 .. read[j] \/ l = n
      BY <1>1, <3>1 DEF JobTypes
    <3>5. ASSUME NEW l \in 1 .. read'[j], NEW p \in DOMAIN Entries(l)
          PROVE  \/ \E k \in DOMAIN accepted'[j] : accepted'[j][k] = Entries(l)[p]
                 \/ \E k \in DOMAIN pending'[j] : pending'[j][k] = Entries(l)[p]
      <4>1. CASE l \in 1 .. read[j]
        BY <3>2, <4>1
      <4>2. CASE l = n
        BY <3>3, <4>2
      <4> QED
        BY <3>4, <4>1, <4>2
    <3> QED
      BY <3>5
  <2> QED
    BY <2>2, <2>3
<1>3. CASE ProcessLog(j)
  <2> DEFINE e == Head(pending[j])
  <2>1. pending[j] \in Seq(Entry) /\ pending[j] # <<>> /\ accepted[j] \in Seq(Entry)
    BY <1>1, <1>3 DEF ProcessLog, JobTypes
  <2>2. /\ pending'[j] = Tail(pending[j]) /\ accepted'[j] = Append(accepted[j], e)
        /\ read' = read
    BY <1>1, <1>3 DEF ProcessLog, Store, TypeInv, ReaderTypes, LogTypes
  <2>3. e \in Entry /\ e = pending[j][1]
    BY <2>1
  <2> HIDE DEF e
  <2>4. /\ \A k \in DOMAIN accepted[j] :
              /\ k \in DOMAIN Append(accepted[j], e)
              /\ Append(accepted[j], e)[k] = accepted[j][k]
        /\ Len(accepted[j]) + 1 \in DOMAIN Append(accepted[j], e)
        /\ Append(accepted[j], e)[Len(accepted[j]) + 1] = e
    BY <2>1, <2>3
  <2>5. ASSUME NEW k \in DOMAIN pending[j], k # 1
        PROVE  /\ k - 1 \in DOMAIN Tail(pending[j])
               /\ Tail(pending[j])[k - 1] = pending[j][k]
    <3>1. k \in 1 .. Len(pending[j]) /\ Len(pending[j]) \in Nat
      BY <2>1
    <3>2. /\ Tail(pending[j]) \in Seq(Entry)
          /\ Len(Tail(pending[j])) = Len(pending[j]) - 1
          /\ \A i \in 1 .. Len(Tail(pending[j])) : Tail(pending[j])[i] = pending[j][i + 1]
      BY <2>1, HeadTailProperties
    <3>3. k - 1 \in 1 .. Len(Tail(pending[j])) /\ (k - 1) + 1 = k
      BY <2>5, <3>1, <3>2
    <3>4. DOMAIN Tail(pending[j]) = 1 .. Len(Tail(pending[j]))
      BY <3>2
    <3> QED
      BY <3>2, <3>3, <3>4
  <2>6. ASSUME NEW l \in 1 .. read[j], NEW p \in DOMAIN Entries(l)
        PROVE  \/ \E k \in DOMAIN accepted'[j] : accepted'[j][k] = Entries(l)[p]
               \/ \E k \in DOMAIN pending'[j] : pending'[j][k] = Entries(l)[p]
    <3>1. CASE \E k \in DOMAIN accepted[j] : accepted[j][k] = Entries(l)[p]
      BY <2>2, <2>4, <3>1
    <3>2. CASE \E k \in DOMAIN pending[j] : pending[j][k] = Entries(l)[p]
      <4>1. PICK k \in DOMAIN pending[j] : pending[j][k] = Entries(l)[p]
        BY <3>2
      <4>2. CASE k = 1
        BY <2>2, <2>3, <2>4, <4>1, <4>2
      <4>3. CASE k # 1
        BY <2>2, <2>5, <4>1, <4>3
      <4> QED
        BY <4>2, <4>3
    <3> QED
      BY <3>1, <3>2
  <2> QED
    BY <2>2, <2>6
<1>4. CASE ~Scan(j) /\ ~ProcessLog(j)
  <2>1. read' = read /\ pending' = pending /\ accepted' = accepted
    <3>1. CASE LogFails(j)
      BY <1>1, <3>1 DEF LogFails, TypeInv, RunTypes
    <3>2. CASE ~LogFails(j)
      BY <1>4, <3>2
         DEF Acts, Execute, Receive, CtxDone, RunReturned, NoLongerWaiting, Outcome, Run,
             Create, CreateFails, Start, StartFails, FollowLogs, Wait, WaitFails, Drained,
             Cleanup, CleanupFails, Container, PrintLine, Exit, Reader, StreamEnds, Server,
             CancelJob, Done, SaveCopy, logVars, readerVars
    <3> QED
      BY <3>1, <3>2
  <2> QED
    BY <2>1
<1> QED
  BY <1>2, <1>3, <1>4

LEMMA AbandonedGrows ==
    ASSUME TypeInv, NEW j \in Job, Acts(j)
    PROVE  abandoned \subseteq abandoned'
BY DEF Acts, Execute, Receive, CtxDone, RunReturned, NoLongerWaiting, Outcome, Run, Create,
       CreateFails, Start, StartFails, FollowLogs, Wait, WaitFails, Drained, Cleanup,
       CleanupFails, Container, PrintLine, Exit, Reader, Scan, StreamEnds, Server,
       ProcessLog, LogFails, CancelJob, Done, SaveCopy, history

LEMMA DrainStep ==
    ASSUME Inv, NEW j \in Job, Acts(j)
    PROVE  DrainInv(j)'
<1> SUFFICES ASSUME j \notin abandoned'
             PROVE  DrainInv(j)'
  BY DEF DrainInv
<1>1. DrainInv(j) /\ ReaderInv(j) /\ RunInv(j) /\ TypeInv /\ j \notin abandoned
  BY AbandonedGrows DEF Inv, JobInv
<1>2. Scanned(j)'
  BY <1>1, ScannedStep DEF DrainInv
<1>3. JobTypes(j)
  BY <1>1, TypesOfJob
<1> DEFINE D == /\ j \notin killed
                /\ exec[j] \in {"report", "reporting", "done"} => RunAt(j, "end")
                /\ run[j].pc \in {"wait", "drain"} => reader[j] # "none"
                /\ RunAt(j, "remove") => reader[j] = "stopped"
                /\ RunAt(j, "end") =>
                      reader[j] = "stopped" \/ container[j] \in {"none", "created"}
                /\ reader[j] = "stopped" => AllRead(j) \/ long[j] \in 1 .. printed[j]
<1> SUFFICES D'
  BY <1>2 DEF DrainInv
<1>4. D
  BY <1>1 DEF DrainInv
<1> USE <1>4 DEF RunAt, AllRead
<1>5. CASE Execute(j)
  <2>1. UNCHANGED <<container, printed, long, reader, read>>
    BY <1>5 DEF Execute, Receive, CtxDone, RunReturned, NoLongerWaiting, Outcome, hostVars,
                readerVars
  <2>2. CASE Receive(j)
    BY <1>1, <2>1, <2>2 DEF Receive, RunGoes, RunInv, TypeInv, AgentTypes, RunTypes
  <2>3. CASE CtxDone(j)
    BY <2>3 DEF CtxDone
  <2>4. CASE RunReturned(j)
    BY <1>1, <2>1, <2>4 DEF RunReturned, Outcome, TypeInv, AgentTypes
  <2>5. CASE NoLongerWaiting(j)
    BY <2>5 DEF NoLongerWaiting
  <2> QED
    BY <1>5, <2>2, <2>3, <2>4, <2>5 DEF Execute
<1>6. CASE Run(j)
  <2> USE <1>1, <1>3 DEF RunGoes, RunFails, TypeInv, RunTypes, HostTypes, ReaderTypes,
                         readerVars, hostVars, history, RunInv, ReaderInv, JobTypes
  <2>1. CASE Create(j)
    BY <2>1 DEF Create
  <2>2. CASE CreateFails(j)
    BY <2>2 DEF CreateFails
  <2>3. CASE Start(j)
    BY <2>3 DEF Start
  <2>4. CASE StartFails(j) \/ WaitFails(j)
    BY <2>4 DEF StartFails, WaitFails
  <2>5. CASE FollowLogs(j)
    BY <2>5 DEF FollowLogs
  <2>6. CASE Wait(j)
    BY <2>6 DEF Wait
  <2>7. CASE Drained(j)
    BY <2>7 DEF Drained
  <2>8. CASE Cleanup(j)
    BY <2>8 DEF Cleanup
  <2>9. CASE CleanupFails(j)
    BY <2>9 DEF CleanupFails
  <2> QED
    BY <1>6, <2>1, <2>2, <2>3, <2>4, <2>5, <2>6, <2>7, <2>8, <2>9 DEF Run
<1>7. CASE Container(j)
  <2>1. UNCHANGED <<exec, killed, run, reader, read, long>>
    BY <1>7 DEF Container, PrintLine, Exit, agentVars, readerVars
  <2>2. /\ container[j] = "running" /\ container'[j] \in {"running", "exited"}
        /\ printed[j] \in 0 .. MaxLines
        /\ printed'[j] = printed[j] \/ printed'[j] = printed[j] + 1
    BY <1>1, <1>3, <1>7 DEF Container, PrintLine, Exit, TypeInv, HostTypes, JobTypes
  <2>3. long[j] \in 1 .. printed[j] => long'[j] \in 1 .. printed'[j]
    BY <2>1, <2>2
  <2> QED
    BY <2>1, <2>2, <2>3
<1>8. CASE Reader(j)
  <2>1. UNCHANGED <<exec, killed, run, container, printed, long>> /\ reader[j] = "reading"
    BY <1>8 DEF Reader, Scan, StreamEnds, agentVars, hostVars
  <2>2. CASE Scan(j)
    <3>1. read[j] + 1 <= printed[j]
      BY <2>2 DEF Scan
    <3>2. reader'[j] = "reading" \/ (reader'[j] = "stopped" /\ long[j] = read[j] + 1)
      BY <1>1, <2>2 DEF Scan, TypeInv, ReaderTypes
    <3>3. reader'[j] = "stopped" => long[j] \in 1 .. printed[j]
      BY <1>3, <3>1, <3>2 DEF JobTypes
    <3> QED
      BY <1>1, <1>3, <2>1, <3>2, <3>3 DEF RunInv, ReaderInv
  <2>3. CASE StreamEnds(j)
    <3>1. container[j] = "exited" /\ read[j] = printed[j]
      BY <1>1, <2>1, <2>3 DEF StreamEnds, RunInv, ReaderInv
    <3>2. reader'[j] = "stopped" /\ read' = read
      BY <1>1, <2>3 DEF StreamEnds, TypeInv, ReaderTypes
    <3> QED
      BY <2>1, <3>1, <3>2
  <2> QED
    BY <1>8, <2>2, <2>3 DEF Reader
<1>9. CASE Server(j)
  <2>1. UNCHANGED <<killed, run, container, printed, long, reader, read>>
    BY <1>9 DEF Server, ProcessLog, LogFails, CancelJob, Done, SaveCopy, agentVars, hostVars,
                readerVars
  <2>2. exec'[j] = exec[j] \/ exec[j] \in {"report", "reporting"}
    BY <1>1, <1>9 DEF Server, ProcessLog, LogFails, CancelJob, Done, SaveCopy, agentVars,
                      TypeInv, AgentTypes
  <2> QED
    BY <2>1, <2>2
<1> QED
  BY <1>5, <1>6, <1>7, <1>8, <1>9 DEF Acts

\* Nothing is stored while a copy is to be saved, and what is stored grows at
\* its end as what is accepted does.
LEMMA KeptStep ==
    ASSUME Inv, NEW j \in Job, Acts(j)
    PROVE  KeptInv(j)'
<1> SUFFICES ASSUME j \notin abandoned'
             PROVE  /\ EndOf(stored'[j], accepted'[j])
                    /\ copy'[j] # NoCopy => copy'[j] = stored'[j] /\ exec'[j] = "reporting"
  BY DEF KeptInv
<1>1. JobInv(j) /\ TypeInv /\ JobTypes(j) /\ j \notin abandoned
  BY AbandonedGrows, TypesOfJob DEF Inv
<1>2. /\ EndOf(stored[j], accepted[j])
      /\ copy[j] # NoCopy => copy[j] = stored[j] /\ exec[j] = "reporting"
  BY <1>1 DEF JobInv, KeptInv
<1>3. CASE ProcessLog(j)
  <2> DEFINE e == Head(pending[j])
             all == accepted[j]
             log == stored[j]
  <2>1. /\ pending[j] # <<>> /\ e \in LogLine /\ all \in Seq(Entry) /\ log \in Seq(LogLine)
        /\ accepted'[j] = Append(all, e)
        /\ \/ stored'[j] = Append(log, e)
           \/ \E a \in 1 .. Len(log) : stored'[j] = Append(Cut(log, a), e)
    BY <1>1, <1>3, StoreStep, Zenon DEF JobInv, SizeInv
  <2> HIDE DEF e, all, log
  <2>2. all \in Seq(LogLine) /\ Len(all) \in Nat
    BY <2>1, SeqMonotonic DEF LogLine
  <2>3. Append(all, e) \in Seq(LogLine) /\ Len(Append(all, e)) = Len(all) + 1
    BY <2>1, <2>2, AppendElements
  <2>4. EndOf(log, all)
    BY <1>2 DEF log, all
  <2>5. ASSUME NEW a \in 1 .. Len(all)
        PROVE  EndOf(Append(Cut(all, a), e), Append(all, e))
    <3>1. Append(Cut(all, a), e) = Cut(Append(all, e), a)
      BY <2>1, <2>2, AppendCut
    <3>2. a \in 1 .. Len(Append(all, e))
      BY <2>2, <2>3
    <3> QED
      BY <3>1, <3>2 DEF EndOf
  <2>6. ASSUME stored'[j] = Append(log, e)
        PROVE  EndOf(stored'[j], accepted'[j])
    <3>1. CASE log = all
      BY <2>1, <2>6, <3>1 DEF EndOf
    <3>2. CASE \E k \in 1 .. Len(all) : log = Cut(all, k)
      <4>1. PICK k \in 1 .. Len(all) : log = Cut(all, k)
        BY <3>2
      <4>2. EndOf(Append(Cut(all, k), e), Append(all, e))
        BY <2>5
      <4> QED
        BY <2>1, <2>6, <4>1, <4>2, Zenon
    <3> QED
      BY <2>4, <3>1, <3>2 DEF EndOf
  <2>7. ASSUME \E a \in 1 .. Len(log) : stored'[j] = Append(Cut(log, a), e)
        PROVE  EndOf(stored'[j], accepted'[j])
    <3>1. PICK a \in 1 .. Len(log) : stored'[j] = Append(Cut(log, a), e)
      BY <2>7
    <3>2. CASE log = all
      <4>1. EndOf(Append(Cut(all, a), e), Append(all, e))
        BY <2>5, <3>2
      <4> QED
        BY <2>1, <3>1, <3>2, <4>1, Zenon
    <3>3. CASE \E k \in 1 .. Len(all) : log = Cut(all, k)
      <4>1. PICK k \in 1 .. Len(all) : log = Cut(all, k)
        BY <3>3
      <4>2. Len(Cut(all, k)) = Len(all) - k + 1
        <5>1. k \in 0 .. Len(all)
          BY <4>1
        <5> QED
          BY <2>2, <5>1, CutElements
      <4>3. a \in 1 .. Len(all) - k + 1
        BY <4>1, <4>2
      <4>4. k + a - 1 \in 1 .. Len(all) /\ Cut(Cut(all, k), a) = Cut(all, k + a - 1)
        BY <2>2, <4>3, CutCut
      <4>5. EndOf(Append(Cut(all, k + a - 1), e), Append(all, e))
        BY <2>5, <4>4
      <4> QED
        BY <2>1, <3>1, <4>1, <4>4, <4>5, Zenon
    <3> QED
      BY <2>4, <3>2, <3>3 DEF EndOf
  <2>8. EndOf(stored'[j], accepted'[j])
    BY <2>1, <2>6, <2>7
  <2>9. copy'[j] = NoCopy
    <3>1. reader[j] = "reading"
      BY <1>1, <2>1 DEF JobInv, ReaderInv
    <3>2. exec[j] # "reporting"
      BY <1>1, <3>1 DEF JobInv, DrainInv, ReaderInv
    <3>3. copy' = copy
      BY <1>3 DEF ProcessLog
    <3> QED
      BY <1>2, <3>2, <3>3
  <2> QED
    BY <2>8, <2>9
<1>4. CASE CancelJob(j)
  BY <1>4 DEF CancelJob
<1>5. CASE Done(j)
  <2>1. /\ stored' = stored /\ accepted' = accepted
        /\ copy'[j] = stored[j] /\ exec'[j] = "reporting"
    BY <1>1, <1>5 DEF Done, TypeInv, AgentTypes, LogTypes
  <2> QED
    BY <1>2, <2>1
<1>6. CASE SaveCopy(j)
  <2>1. stored'[j] = copy[j] /\ copy'[j] = NoCopy /\ accepted' = accepted /\ copy[j] # NoCopy
    BY <1>1, <1>6 DEF SaveCopy, TypeInv, LogTypes
  <2> QED
    BY <1>2, <2>1
<1>7. CASE Execute(j) \/ Run(j) \/ Container(j) \/ Reader(j) \/ LogFails(j)
  <2>1. stored' = stored /\ copy' = copy /\ accepted' = accepted
    BY <1>7 DEF Execute, Receive, CtxDone, RunReturned, NoLongerWaiting, Outcome, Run,
                Create, CreateFails, Start, StartFails, FollowLogs, Wait, WaitFails,
                Drained, Cleanup, CleanupFails, Container, PrintLine, Exit, Reader, Scan,
                StreamEnds, LogFails, logVars
  <2>2. exec[j] = "reporting" => exec'[j] = "reporting"
    BY <1>7 DEF Execute, Receive, CtxDone, RunReturned, NoLongerWaiting, Outcome, Run,
                Create, CreateFails, Start, StartFails, FollowLogs, Wait, WaitFails,
                Drained, Cleanup, CleanupFails, Container, PrintLine, Exit, Reader, Scan,
                StreamEnds, LogFails, agentVars
  <2> QED
    BY <1>2, <2>1, <2>2
<1> QED
  BY <1>3, <1>4, <1>5, <1>6, <1>7 DEF Acts, Server

LEMMA TailAscends ==
    ASSUME NEW call \in Seq(Entry), call # <<>>, Ascends(call)
    PROVE  /\ Ascends(Tail(call))
           /\ \A p \in DOMAIN Tail(call) :
                 /\ p + 1 \in DOMAIN call /\ Tail(call)[p] = call[p + 1]
                 /\ Before(Head(call), Tail(call)[p])
<1> DEFINE t == Tail(call)
<1>1. /\ t \in Seq(Entry) /\ Len(t) = Len(call) - 1
      /\ \A i \in 1 .. Len(t) : t[i] = call[i + 1]
  BY HeadTailProperties
<1> HIDE DEF t
<1>2. DOMAIN t = 1 .. Len(t) /\ DOMAIN call = 1 .. Len(call) /\ Head(call) = call[1]
  BY <1>1
<1>3. ASSUME NEW p \in DOMAIN t
      PROVE  p + 1 \in DOMAIN call /\ t[p] = call[p + 1] /\ 1 \in DOMAIN call /\ 1 < p + 1
  BY <1>1, <1>2
<1>4. ASSUME NEW p \in DOMAIN t
      PROVE  Before(Head(call), t[p])
  <2>1. Before(call[1], call[p + 1])
    BY <1>3 DEF Ascends
  <2> QED
    BY <1>2, <1>3, <2>1, Zenon
<1>5. ASSUME NEW k \in DOMAIN t, NEW l \in DOMAIN t, k < l
      PROVE  Before(t[k], t[l])
  <2>1. k + 1 < l + 1
    BY <1>2, <1>5
  <2>2. Before(call[k + 1], call[l + 1])
    BY <1>3, <2>1 DEF Ascends
  <2> QED
    BY <1>3, <2>2, Zenon
<1>6. Ascends(t)
  BY <1>5 DEF Ascends
<1> QED
  BY <1>3, <1>4, <1>6 DEF t

LEMMA EntriesAscend ==
    ASSUME NEW n \in Line
    PROVE  /\ Ascends(Entries(n))
           /\ \A p \in DOMAIN Entries(n) : Entries(n)[p].line = n
<1> DEFINE t == Entries(n)
<1>1. /\ t \in Seq(Entry) /\ Len(t) \in {1, 2}
      /\ t[1] = [line |-> n, progress |-> FALSE]
      /\ Len(t) = 2 => t[2] = [line |-> n, progress |-> TRUE]
  BY EntriesAre
<1> HIDE DEF t
<1>2. DOMAIN t = 1 .. Len(t)
  BY <1>1
<1>3. \A p \in DOMAIN t : p = 1 \/ (p = 2 /\ Len(t) = 2)
  BY <1>1, <1>2
<1>4. ASSUME NEW k \in DOMAIN t, NEW l \in DOMAIN t, k < l
      PROVE  Before(t[k], t[l])
  <2>1. k = 1 /\ l = 2 /\ Len(t) = 2
    BY <1>3, <1>4
  <2> QED
    BY <1>1, <2>1 DEF Before
<1>5. \A p \in DOMAIN t : t[p].line = n
  BY <1>1, <1>3
<1>6. Ascends(t)
  BY <1>4 DEF Ascends
<1> QED
  BY <1>5, <1>6 DEF t

\* An entry comes after all that is stored, also after a truncation.
LEMMA StoreAscends ==
    ASSUME NEW log \in Seq(LogLine), NEW n \in Nat, NEW call \in Seq(Entry), call # <<>>,
           Ascends(log), Ascends(call), ReadBefore(log, n, call),
           \A p \in DOMAIN call : call[p].line = n
    PROVE  /\ Ascends(Append(log, Head(call)))
           /\ ReadBefore(Append(log, Head(call)), n, Tail(call))
<1> DEFINE e == Head(call)
           s == Append(log, e)
<1>1. e \in Entry /\ e \in LogLine /\ e = call[1] /\ 1 \in DOMAIN call
  BY DEF LogLine
<1>2. \A p \in DOMAIN Tail(call) :
         /\ p + 1 \in DOMAIN call /\ Tail(call)[p] = call[p + 1]
         /\ Before(e, Tail(call)[p])
  BY TailAscends
<1> HIDE DEF e
<1>3. \A k \in DOMAIN log : Before(log[k], e)
  BY <1>1 DEF ReadBefore
<1>4. Ascends(s)
  BY <1>1, <1>3, AscendsAppend
<1>5. /\ s \in Seq(LogLine) /\ Len(s) = Len(log) + 1 /\ s[Len(log) + 1] = e
      /\ \A k \in 1 .. Len(log) : s[k] = log[k]
  BY <1>1, AppendElements
<1> HIDE DEF s
<1>6. \A k \in DOMAIN s : s[k] = e \/ (k \in DOMAIN log /\ s[k] = log[k])
  BY <1>5
<1>7. ASSUME NEW k \in DOMAIN s
      PROVE  s[k].line <= n /\ \A p \in DOMAIN Tail(call) : Before(s[k], Tail(call)[p])
  <2>1. CASE s[k] = e
    <3>1. s[k].line = n
      BY <1>1, <2>1
    <3> QED
      BY <1>2, <2>1, <3>1
  <2>2. CASE k \in DOMAIN log /\ s[k] = log[k]
    <3>1. log[k].line <= n /\ \A p \in DOMAIN call : Before(log[k], call[p])
      BY <2>2 DEF ReadBefore
    <3>2. \A p \in DOMAIN Tail(call) : Before(log[k], Tail(call)[p])
      BY <1>2, <3>1
    <3> QED
      BY <2>2, <3>1, <3>2, Zenon
  <2> QED
    BY <1>6, <2>1, <2>2
<1>8. ReadBefore(s, n, Tail(call))
  BY <1>7 DEF ReadBefore
<1> QED
  BY <1>4, <1>8 DEF s, e

\* A cut keeps what ReadBefore says of a log.
LEMMA CutReadBefore ==
    ASSUME NEW log \in Seq(LogLine), NEW n \in Nat, NEW call \in Seq(Entry),
           Ascends(log), ReadBefore(log, n, call), NEW a \in 1 .. Len(log)
    PROVE  ReadBefore(Cut(log, a), n, call)
<1> DEFINE t == Cut(log, a)
<1>1. \A k \in DOMAIN t : t[k] = Header \/ \E l \in DOMAIN log : t[k] = log[l]
  BY AscendsCut
<1> HIDE DEF t
<1>2. ASSUME NEW k \in DOMAIN t
      PROVE  t[k].line <= n /\ \A p \in DOMAIN call : Before(t[k], call[p])
  <2>1. CASE t[k] = Header
    <3>1. Header.line <= n
      BY DEF Header
    <3>2. \A p \in DOMAIN call : Before(Header, call[p])
      <4>1. \A p \in DOMAIN call : call[p] \in Entry
        OBVIOUS
      <4> QED
        BY <4>1, HeaderIsFirst
    <3> QED
      BY <2>1, <3>1, <3>2
  <2>2. CASE \E l \in DOMAIN log : t[k] = log[l]
    BY <2>2 DEF ReadBefore
  <2> QED
    BY <1>1, <2>1, <2>2
<1> QED
  BY <1>2 DEF ReadBefore, t

LEMMA OrderStep ==
    ASSUME Inv, NEW j \in Job, Acts(j)
    PROVE  OrderInv(j)'
<1>1. OrderInv(j) /\ SizeInv(j) /\ TypeInv /\ JobTypes(j)
  BY TypesOfJob DEF Inv, JobInv
<1> USE DEF OrderInv
<1>2. CASE Scan(j)
  <2> DEFINE n == read[j] + 1
  <2>1. CASE n = long[j]
    <3>1. UNCHANGED <<read, pending, stored, copy>>
      BY <1>2, <2>1 DEF Scan, logVars
    <3> QED
      BY <1>1, <3>1
  <2>2. CASE n # long[j]
    <3>1. /\ read'[j] = n /\ pending'[j] = Entries(n) /\ stored' = stored /\ copy' = copy
          /\ n \in Line
      <4>1. read'[j] = n /\ pending'[j] = Entries(n)
        BY <1>1, <1>2, <2>2 DEF Scan, TypeInv, ReaderTypes
      <4>2. stored' = stored /\ copy' = copy
        BY <1>2 DEF Scan, logVars
      <4>3. n \in Line
        BY <1>1, <1>2, OutputAssumption DEF Scan, JobTypes, Line, OutputAssumption
      <4> QED
        BY <4>1, <4>2, <4>3
    <3>2. /\ Ascends(Entries(n)) /\ \A p \in DOMAIN Entries(n) : Entries(n)[p].line = n
      BY <3>1, EntriesAscend
    <3>3. ASSUME NEW log \in Seq(LogLine), ReadBefore(log, read[j], pending[j])
          PROVE  ReadBefore(log, n, Entries(n))
      <4>1. ASSUME NEW k \in DOMAIN log
            PROVE  /\ log[k].line <= n
                   /\ \A p \in DOMAIN Entries(n) : Before(log[k], Entries(n)[p])
        <5>1. log[k] \in LogLine /\ log[k].line <= read[j]
          BY <3>3 DEF ReadBefore
        <5>2. log[k].line \in Nat /\ read[j] \in Nat
          BY <1>1, <5>1, OutputAssumption
             DEF LogLine, Entry, Header, Line, JobTypes, OutputAssumption
        <5>3. log[k].line < n
          BY <5>1, <5>2
        <5> QED
          BY <3>2, <5>2, <5>3 DEF Before
      <4> QED
        BY <4>1 DEF ReadBefore
    <3>4. stored[j] \in Seq(LogLine) /\ (copy[j] # NoCopy => copy[j] \in Seq(LogLine))
      BY <1>1 DEF JobTypes
    <3>5. ReadBefore(stored[j], n, Entries(n))
      BY <1>1, <3>3, <3>4
    <3>6. copy[j] # NoCopy => ReadBefore(copy[j], n, Entries(n))
      BY <1>1, <3>3, <3>4
    <3> HIDE DEF n
    <3> QED
      BY <1>1, <3>1, <3>2, <3>5, <3>6
  <2> QED
    BY <2>1, <2>2
<1>3. CASE ProcessLog(j)
  <2> DEFINE call == pending[j]
             e == Head(call)
             log == stored[j]
             n == read[j]
  <2>1. /\ call \in Seq(Entry) /\ call # <<>> /\ e \in Entry /\ log \in Seq(LogLine)
        /\ \/ stored'[j] = Append(log, e)
           \/ \E a \in 1 .. Len(log) : stored'[j] = Append(Cut(log, a), e)
    BY <1>1, <1>3, StoreStep, Zenon DEF SizeInv
  <2>2. pending'[j] = Tail(call) /\ read'[j] = n /\ copy'[j] = copy[j]
    BY <1>1, <1>3 DEF ProcessLog, TypeInv, ReaderTypes
  <2>3. n \in Nat /\ (copy[j] # NoCopy => copy[j] \in Seq(LogLine))
    BY <1>1, OutputAssumption DEF JobTypes, OutputAssumption
  <2>4. /\ Ascends(call) /\ \A p \in DOMAIN call : call[p].line = n
        /\ Ascends(log) /\ ReadBefore(log, n, call)
        /\ copy[j] # NoCopy => Ascends(copy[j]) /\ ReadBefore(copy[j], n, call)
    BY <1>1
  <2> HIDE DEF call, log, n
  <2>5. /\ Ascends(Tail(call))
        /\ \A p \in DOMAIN Tail(call) :
              p + 1 \in DOMAIN call /\ Tail(call)[p] = call[p + 1]
    BY <2>1, <2>4, TailAscends
  <2>6. \A p \in DOMAIN Tail(call) : Tail(call)[p].line = n
    BY <2>4, <2>5
  <2>7. Ascends(stored'[j]) /\ ReadBefore(stored'[j], n, Tail(call))
    <3>1. CASE stored'[j] = Append(log, e)
      <4>1. Ascends(Append(log, e)) /\ ReadBefore(Append(log, e), n, Tail(call))
        BY <2>1, <2>3, <2>4, StoreAscends
      <4> QED
        BY <3>1, <4>1, Zenon
    <3>2. CASE \E a \in 1 .. Len(log) : stored'[j] = Append(Cut(log, a), e)
      <4>1. PICK a \in 1 .. Len(log) : stored'[j] = Append(Cut(log, a), e)
        BY <3>2
      <4> DEFINE t == Cut(log, a)
      <4>2. t \in Seq(LogLine)
        <5>1. a \in 0 .. Len(log)
          BY <4>1
        <5> QED
          BY <2>1, <5>1, CutElements
      <4>3. Ascends(t) /\ ReadBefore(t, n, call)
        BY <2>1, <2>3, <2>4, AscendsCut, CutReadBefore
      <4> HIDE DEF t
      <4>4. Ascends(Append(t, e)) /\ ReadBefore(Append(t, e), n, Tail(call))
        BY <2>1, <2>3, <2>4, <4>2, <4>3, StoreAscends
      <4>5. stored'[j] = Append(t, e)
        BY <4>1 DEF t
      <4> QED
        BY <4>4, <4>5, Zenon
    <3> QED
      BY <2>1, <3>1, <3>2
  <2>8. copy[j] # NoCopy => ReadBefore(copy[j], n, Tail(call))
    BY <2>4, <2>5 DEF ReadBefore
  <2> QED
    BY <2>2, <2>4, <2>5, <2>6, <2>7, <2>8, Zenon
<1>4. CASE LogFails(j)
  <2> DEFINE call == pending[j]
  <2>1. /\ call # <<>> /\ call \in Seq(Entry) /\ UNCHANGED <<read, stored, copy>>
        /\ pending'[j] = Tail(call) \/ pending'[j] = <<>>
    BY <1>1, <1>4 DEF LogFails, TypeInv, ReaderTypes, readerVars, logVars
  <2>2. CASE pending'[j] = <<>>
    <3>1. DOMAIN pending'[j] = {}
      BY <2>2
    <3> QED
      BY <1>1, <2>1, <3>1 DEF Ascends, ReadBefore
  <2>3. CASE pending'[j] = Tail(call)
    <3>1. /\ Ascends(Tail(call))
          /\ \A p \in DOMAIN Tail(call) :
                p + 1 \in DOMAIN call /\ Tail(call)[p] = call[p + 1]
      BY <1>1, <2>1, TailAscends
    <3>2. \A p \in DOMAIN Tail(call) : Tail(call)[p].line = read[j]
      BY <1>1, <3>1
    <3>3. ReadBefore(stored[j], read[j], Tail(call))
      BY <1>1, <3>1 DEF ReadBefore
    <3>4. copy[j] # NoCopy => ReadBefore(copy[j], read[j], Tail(call))
      BY <1>1, <3>1 DEF ReadBefore
    <3> HIDE DEF call
    <3> QED
      BY <1>1, <2>1, <2>3, <3>1, <3>2, <3>3, <3>4
  <2> QED
    BY <2>1, <2>2, <2>3
<1>5. CASE CancelJob(j) \/ Done(j)
  <2>1. /\ stored' = stored /\ pending' = pending /\ read' = read
        /\ copy'[j] = stored[j]
    BY <1>1, <1>5 DEF CancelJob, Done, TypeInv, LogTypes, readerVars
  <2> QED
    BY <1>1, <2>1
<1>6. CASE SaveCopy(j)
  <2>1. /\ stored'[j] = copy[j] /\ copy'[j] = NoCopy /\ copy[j] # NoCopy
        /\ pending' = pending /\ read' = read
    BY <1>1, <1>6 DEF SaveCopy, TypeInv, LogTypes, readerVars
  <2> QED
    BY <1>1, <2>1
<1>7. CASE Execute(j) \/ Run(j) \/ Container(j) \/ StreamEnds(j)
  <2>1. UNCHANGED <<stored, copy, pending, read>>
    BY <1>7 DEF Execute, Receive, CtxDone, RunReturned, NoLongerWaiting, Outcome, Run,
                Create, CreateFails, Start, StartFails, FollowLogs, Wait, WaitFails,
                Drained, Cleanup, CleanupFails, Container, PrintLine, Exit, StreamEnds,
                logVars, readerVars
  <2> QED
    BY <1>1, <2>1
<1> QED
  BY <1>2, <1>3, <1>4, <1>5, <1>6, <1>7 DEF Acts, Reader, Server

-----------------------------------------------------------------------------
(***************************************************************************)
(* The agent exits, and the invariant.                                     *)
(***************************************************************************)
LEMMA AgentExitsStep ==
    ASSUME Inv, AgentExits, NEW j \in Job
    PROVE  JobInv(j)'
<1>1. JobInv(j) /\ TypeInv /\ JobTypes(j)
  BY TypesOfJob DEF Inv
<1>2. /\ exec'[j] = IF exec[j] = "queued" THEN "queued" ELSE "done"
      /\ run'[j] = IF RunAt(j, "none") THEN run[j] ELSE [pc |-> "end", failed |-> TRUE]
      /\ reader'[j] = IF reader[j] = "reading" THEN "stopped" ELSE reader[j]
      /\ pending'[j] = <<>> /\ DOMAIN pending'[j] = {}
      /\ UNCHANGED <<killed, container, printed, long, read, stored, copy, accepted>>
  BY DEF AgentExits, hostVars, logVars
<1>3. /\ (j \in stray' <=> j \in stray \/ Exists(j))
      /\ (j \in abandoned' <=> j \in abandoned \/ exec[j] # "queued")
  BY DEF AgentExits
<1>4. SizeInv(j)'
  BY <1>1, <1>2 DEF JobInv, SizeInv
<1>5. RunInv(j)'
  BY <1>1, <1>2, <1>3 DEF JobInv, RunInv, RunAt, Exists
<1>6. ReaderInv(j)'
  BY <1>1, <1>2 DEF JobInv, ReaderInv, RunInv, RunAt, JobTypes
<1>7. DrainInv(j)'
  <2> SUFFICES ASSUME j \notin abandoned'
               PROVE  DrainInv(j)'
    BY DEF DrainInv
  <2>1. /\ exec[j] = "queued" /\ RunAt(j, "none") /\ reader[j] = "none" /\ read[j] = 0
        /\ j \notin abandoned
    BY <1>1, <1>3 DEF JobInv, RunInv, ReaderInv, RunAt
  <2>2. exec'[j] = "queued" /\ run'[j] = run[j] /\ reader'[j] = "none" /\ read'[j] = 0
    BY <1>2, <2>1
  <2>3. Scanned(j)'
    BY <2>2 DEF Scanned
  <2>4. j \notin killed'
    BY <1>1, <1>2, <2>1 DEF JobInv, DrainInv
  <2> QED
    BY <2>1, <2>2, <2>3, <2>4 DEF DrainInv, RunAt
<1>8. OrderInv(j)'
  BY <1>1, <1>2 DEF JobInv, OrderInv, Ascends, ReadBefore
<1>9. KeptInv(j)'
  BY <1>1, <1>2, <1>3 DEF JobInv, KeptInv
<1> QED
  BY <1>4, <1>5, <1>6, <1>7, <1>8, <1>9 DEF JobInv

LEMMA InvInit == Init => Inv
<1> SUFFICES ASSUME Init, NEW j \in Job
             PROVE  JobInv(j)
  BY TypeInit DEF Inv
<1>1. /\ exec[j] = "queued" /\ j \notin killed /\ RunAt(j, "none") /\ container[j] = "none"
      /\ printed[j] = 0 /\ reader[j] = "none" /\ read[j] = 0 /\ pending[j] = <<>>
      /\ stored[j] = <<>> /\ copy[j] = NoCopy /\ accepted[j] = <<>>
  BY DEF Init, RunAt
<1>2. DOMAIN pending[j] = {} /\ DOMAIN stored[j] = {} /\ Len(stored[j]) = 0
  BY <1>1
<1>3. SizeInv(j)
  <2>1. BelowLimit(stored[j])
    BY <1>2 DEF BelowLimit
  <2> QED
    BY <1>1, <2>1, EmptySized DEF SizeInv
<1>4. RunInv(j) /\ ReaderInv(j)
  BY <1>1 DEF RunInv, RunAt, Exists, ReaderInv
<1>5. DrainInv(j)
  BY <1>1 DEF DrainInv, RunAt, Scanned
<1>6. OrderInv(j)
  BY <1>1, <1>2 DEF OrderInv, Ascends, ReadBefore
<1>7. KeptInv(j)
  BY <1>1 DEF KeptInv, EndOf
<1> QED
  BY <1>3, <1>4, <1>5, <1>6, <1>7 DEF JobInv

LEMMA InvNext == Inv /\ Next => Inv'
<1> SUFFICES ASSUME Inv, Next, NEW i \in Job
             PROVE  JobInv(i)'
  BY TypeStep DEF Inv
<1>1. CASE \E j \in Job : Acts(j)
  <2>1. PICK j \in Job : Acts(j)
    BY <1>1
  <2>2. CASE i = j
    BY <2>1, <2>2, SizeStep, RunStep, ReaderStep, DrainStep, OrderStep, KeptStep DEF JobInv
  <2>3. CASE i # j
    <3>1. Same(i)
      BY <2>1, <2>3, OthersUnchanged DEF Inv
    <3> QED
      BY <3>1, SameKeeps DEF Inv
  <2> QED
    BY <2>2, <2>3
<1>2. CASE AgentExits
  BY <1>2, AgentExitsStep
<1> QED
  BY <1>1, <1>2 DEF Next, Acts

LEMMA InvStutter == Inv /\ UNCHANGED vars => Inv'
<1> SUFFICES ASSUME Inv, UNCHANGED vars
             PROVE  Inv'
  OBVIOUS
<1>1. UNCHANGED <<exec, killed, run, container, printed, long, reader, read, pending,
                  stored, copy, outcome, accepted, abandoned, stray, faults>>
  BY DEF vars, agentVars, hostVars, readerVars, logVars, history
<1>2. TypeInv'
  BY <1>1 DEF Inv, TypeInv, AgentTypes, Holding, RunTypes, HostTypes, ReaderTypes, LogTypes
<1>3. ASSUME NEW i \in Job
      PROVE  JobInv(i)'
  <2>1. Same(i)
    BY <1>1 DEF Same
  <2> QED
    BY <2>1, SameKeeps DEF Inv
<1> QED
  BY <1>2, <1>3 DEF Inv

LEMMA Invariance == OutputSpec => []Inv
<1>1. Inv /\ [Next]_vars => Inv'
  BY InvNext, InvStutter
<1> QED
  BY <1>1, InvInit, PTL DEF OutputSpec

-----------------------------------------------------------------------------
\* Every variable has its type, and no more jobs are executed than there are
\* slots, also while an agent exits.
THEOREM TypesAndSlots == OutputSpec => []OutputTypeOK
<1>1. Inv => OutputTypeOK
  BY TypeInvHasTypes DEF Inv
<1> QED
  BY <1>1, Invariance, PTL

\* A container that no Run will remove was left by a lost reply, a failed
\* removal or an agent that exited, whenever the job's context ends.
THEOREM ContainersHaveARun == OutputSpec => []NoStrayContainer
<1>1. Inv => NoStrayContainer
  BY DEF Inv, JobInv, RunInv, NoStrayContainer
<1> QED
  BY <1>1, Invariance, PTL

\* What is stored of a log is in the order in which it was printed.
THEOREM StoredInOrder == OutputSpec => []LogInOrder
<1>1. Inv => LogInOrder
  BY DEF Inv, JobInv, OrderInv, Ascends, LogInOrder
<1> QED
  BY <1>1, Invariance, PTL

\* What is stored is the end of what was accepted, the header before it when
\* the beginning was cut off.
THEOREM EndIsKept == OutputSpec => []LogKept
<1>1. Inv => LogKept
  BY DEF Inv, JobInv, KeptInv, EndOf, Cut, LogKept
<1> QED
  BY <1>1, Invariance, PTL

\* What is stored before the last line is below maxLogSize, for any limit,
\* widths and number of lines.
THEOREM StoredIsBounded == OutputSpec => []LogSizeBounded
<1>1. Inv => LogSizeBounded
  BY DEF Inv, JobInv, SizeInv, BelowLimit, LogSizeBounded
<1> QED
  BY <1>1, Invariance, PTL

\* A job that is reported without having been given up has its output stored.
THEOREM OutputBeforeDone == OutputSpec => []CompleteWhenDone
<1>1. Inv => CompleteWhenDone
  <2> SUFFICES ASSUME Inv, NEW j \in Job, j \notin abandoned,
                      exec[j] \in {"reporting", "done"}, long[j] \notin 1 .. printed[j]
               PROVE  Complete(j)
    BY DEF CompleteWhenDone
  <2>1. JobInv(j)
    BY DEF Inv
  <2>2. RunAt(j, "end") /\ Scanned(j)
    BY <2>1 DEF JobInv, DrainInv
  <2>3. CASE reader[j] = "stopped"
    <3>1. read[j] = printed[j] /\ pending[j] = <<>>
      BY <2>1, <2>3 DEF JobInv, DrainInv, ReaderInv, AllRead
    <3>2. DOMAIN pending[j] = {}
      BY <3>1
    <3> QED
      BY <2>2, <3>1, <3>2 DEF Scanned, Complete
  <2>4. CASE container[j] \in {"none", "created"}
    <3>1. printed[j] = 0
      BY <2>1, <2>4 DEF JobInv, RunInv
    <3> QED
      BY <3>1 DEF Complete
  <2> QED
    BY <2>1, <2>2, <2>3, <2>4 DEF JobInv, DrainInv
<1> QED
  BY <1>1, Invariance, PTL
=============================================================================
