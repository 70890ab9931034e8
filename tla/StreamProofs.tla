------------------------------ MODULE StreamProofs ------------------------------
(***************************************************************************)
(* The event log, its consumer group and the window processor behind it,   *)
(* for any number of partitions, records, batches, rebalances and          *)
(* failures, any lateness, window, retention and late policy. The          *)
(* invariant has two halves. That of the log (LogInv) says of every batch  *)
(* a consumer still holds that its places are in the log and that all      *)
(* below them was delivered, so that a late commit may move the positions  *)
(* past it. That of the processor (ProcessorInv) is kept by every record   *)
(* it ingests; it ties the windows emitted so far to the stream's          *)
(* watermark, which never goes back.                                       *)
(***************************************************************************)
EXTENDS StreamPipeline, WellFoundedInduction, TLAPS

-----------------------------------------------------------------------------
\* Numbers and sequences

\* A set of naturals that is not empty has a least element.
LEMMA LeastNatural ==
    ASSUME NEW S \in SUBSET Nat, S # {}
    PROVE  \E m \in S : \A k \in S : m <= k
<1>1. PICK m \in S : \A k \in S : ~ (<<k, m>> \in OpToRel(<, Nat))
  BY NatLessThanWellFounded, WFMin
<1>2. \A k \in S : k \in Nat /\ m \in Nat /\ ~ (k < m)
  BY <1>1 DEF OpToRel
<1>3. QED
  BY <1>2

\* What holds of 0, and of every number whose predecessor has it, holds of
\* all of them: a set of numbers that is closed in this way leaves none out.
LEMMA Inductive ==
    ASSUME NEW n \in Nat, NEW S, 0 \in S,
           \A k \in 1..n : k - 1 \in S => k \in S
    PROVE  \A k \in 0..n : k \in S
<1> DEFINE T == {k \in 0..n : k \notin S}
<1>1. SUFFICES ASSUME T # {} PROVE FALSE
  OBVIOUS
<1>2. PICK m \in T : \A k \in T : m <= k
  <2>1. T \in SUBSET Nat
    OBVIOUS
  <2>2. QED
    BY <1>1, <2>1, LeastNatural
<1>3. m \in 1..n /\ m - 1 \in 0..n /\ ~ (m <= m - 1)
  BY <1>2
<1>4. m - 1 \in S
  BY <1>2, <1>3
<1>5. QED
  BY <1>2, <1>3, <1>4

\* f goes from start to its value at n in single steps.
Recurs(f, n, start, step) ==
    f[0] = start /\ \A k \in 1..n : f[k] = step[<<k, f[k - 1]>>]

\* A function on 0..n may be defined by a recursion over n.
LEMMA Recursion ==
    ASSUME NEW n \in Nat, NEW start, NEW step
    PROVE  \E f : Recurs(f, n, start, step)
<1> DEFINE D(f, m) == \A k \in 0..m :
                         f[k] = IF k = 0 THEN start ELSE step[<<k, f[k - 1]>>]
           S == {m \in 0..n : \E f : D(f, m)}
<1>1. 0 \in S
  <2> DEFINE g == [k \in 0..0 |-> start]
  <2>1. D(g, 0)
    OBVIOUS
  <2> HIDE DEF g
  <2>2. QED
    BY <2>1
<1>2. ASSUME NEW k \in 1..n, k - 1 \in S
      PROVE  k \in S
  <2>1. PICK f : D(f, k - 1)
    BY <1>2
  <2> DEFINE g == [j \in 0..k |-> IF j = k THEN step[<<k, f[k - 1]>>] ELSE f[j]]
  <2>2. ASSUME NEW j \in 0..k
        PROVE  g[j] = IF j = 0 THEN start ELSE step[<<j, g[j - 1]>>]
    <3>1. CASE j = k
      <4>1. k - 1 \in 0..k /\ k - 1 # k /\ j # 0
        BY <3>1
      <4>2. g[j] = step[<<k, f[k - 1]>>] /\ g[k - 1] = f[k - 1]
        BY <3>1, <4>1
      <4>3. QED
        BY <3>1, <4>1, <4>2
    <3>2. CASE j # k
      <4>1. j \in 0..(k - 1) /\ g[j] = f[j]
        BY <3>2
      <4>2. CASE j = 0
        BY <2>1, <4>1, <4>2
      <4>3. CASE j # 0
        <5>1. j - 1 \in 0..k /\ j - 1 # k
          BY <4>1, <4>3
        <5>2. g[j - 1] = f[j - 1]
          BY <5>1
        <5>3. QED
          BY <2>1, <4>1, <4>3, <5>2
      <4>4. QED
        BY <4>2, <4>3
    <3>3. QED
      BY <3>1, <3>2
  <2>3. D(g, k)
    BY <2>2
  <2>4. k \in 0..n
    OBVIOUS
  <2>5. QED
    BY <2>3, <2>4
<1>3. n \in S
  <2> HIDE DEF S
  <2>1. \A k \in 0..n : k \in S
    BY <1>1, <1>2, Inductive
  <2>2. n \in 0..n
    OBVIOUS
  <2>3. QED
    BY <2>1, <2>2
<1>4. PICK f : D(f, n)
  BY <1>3
<1>5. f[0] = start
  <2>1. 0 \in 0..n
    OBVIOUS
  <2>2. QED
    BY <1>4, <2>1
<1>6. ASSUME NEW k \in 1..n
      PROVE  f[k] = step[<<k, f[k - 1]>>]
  <2>1. k \in 0..n /\ k # 0
    OBVIOUS
  <2>2. QED
    BY <1>4, <2>1
<1>7. QED
  BY <1>5, <1>6 DEF Recurs

\* The elements of a sequence over a set are in the set.
LEMMA ElementType ==
    ASSUME NEW S, NEW s \in Seq(S)
    PROVE  ToSet(s) \subseteq S
BY DEF ToSet

\* The elements of two sequences, one after the other.
LEMMA AppendedElements ==
    ASSUME NEW S, NEW s \in Seq(S), NEW t \in Seq(S)
    PROVE  /\ s \o t \in Seq(S)
           /\ ToSet(s \o t) = ToSet(s) \cup ToSet(t)
<1>1. /\ s \o t \in Seq(S) /\ Len(s \o t) = Len(s) + Len(t)
      /\ \A i \in 1..(Len(s) + Len(t)) :
            (s \o t)[i] = IF i <= Len(s) THEN s[i] ELSE t[i - Len(s)]
  OBVIOUS
<1>2. ASSUME NEW i \in 1..Len(s)
      PROVE  s[i] \in ToSet(s \o t)
  <2>1. i \in 1..(Len(s) + Len(t)) /\ (s \o t)[i] = s[i]
    BY <1>1
  <2>2. QED
    BY <1>1, <2>1 DEF ToSet
<1>3. ASSUME NEW i \in 1..Len(t)
      PROVE  t[i] \in ToSet(s \o t)
  <2>1. /\ Len(s) + i \in 1..(Len(s) + Len(t)) /\ ~ (Len(s) + i <= Len(s))
        /\ (Len(s) + i) - Len(s) = i
    OBVIOUS
  <2>2. (s \o t)[Len(s) + i] = t[i]
    BY <1>1, <2>1
  <2>3. QED
    BY <1>1, <2>1, <2>2 DEF ToSet
<1>4. ASSUME NEW i \in 1..(Len(s) + Len(t))
      PROVE  (s \o t)[i] \in ToSet(s) \cup ToSet(t)
  <2>1. CASE i <= Len(s)
    BY <1>1, <2>1 DEF ToSet
  <2>2. CASE ~ (i <= Len(s))
    <3>1. i - Len(s) \in 1..Len(t)
      BY <2>2
    <3>2. QED
      BY <1>1, <2>2, <3>1 DEF ToSet
  <2>3. QED
    BY <2>1, <2>2
<1>5. \A x \in ToSet(s \o t) : x \in ToSet(s) \cup ToSet(t)
  BY <1>1, <1>4 DEF ToSet
<1>6. \A x \in ToSet(s) : x \in ToSet(s \o t)
  BY <1>2 DEF ToSet
<1>7. \A x \in ToSet(t) : x \in ToSet(s \o t)
  BY <1>3 DEF ToSet
<1>8. QED
  BY <1>1, <1>5, <1>6, <1>7

\* A concatenation has the elements of the sequences it is made of.
LEMMA Flattened ==
    ASSUME NEW S, NEW ss, ss \in Seq(Seq(S)), Len(ss) > 0
    PROVE  /\ FlattenSeq(ss) \in Seq(S)
           /\ ToSet(FlattenSeq(ss)) = UNION {ToSet(ss[i]) : i \in 1..Len(ss)}
<1> DEFINE n == Len(ss)
           flatten == CHOOSE f : f = [i \in 1..n |->
                          IF i = 1 THEN ss[i] ELSE f[i - 1] \o ss[i]]
<1>1. FlattenSeq(ss) = flatten[n]
  BY DEF FlattenSeq
<1>2. n \in Nat \ {0} /\ \A i \in 1..n : ss[i] \in Seq(S)
  OBVIOUS
<1>3. \E f : f = [i \in 1..n |-> IF i = 1 THEN ss[i] ELSE f[i - 1] \o ss[i]]
  <2> DEFINE step == [x \in (1..(n - 1)) \X Seq(S) |-> x[2] \o ss[x[1] + 1]]
  <2>1. PICK f : /\ f[0] = ss[1]
                 /\ \A k \in 1..(n - 1) : f[k] = step[<<k, f[k - 1]>>]
    <3>1. n - 1 \in Nat
      BY <1>2
    <3> HIDE DEF step
    <3>2. PICK f : Recurs(f, n - 1, ss[1], step)
      BY <3>1, Recursion
    <3>3. QED
      BY <3>2 DEF Recurs
  <2>2. \A k \in 0..(n - 1) : f[k] \in Seq(S)
    <3> DEFINE T == {k \in 0..(n - 1) : f[k] \in Seq(S)}
    <3>1. 0 \in T
      BY <1>2, <2>1
    <3>2. ASSUME NEW k \in 1..(n - 1), k - 1 \in T
          PROVE  k \in T
      <4>1. <<k, f[k - 1]>> \in (1..(n - 1)) \X Seq(S) /\ ss[k + 1] \in Seq(S)
        BY <1>2, <3>2
      <4>2. f[k] = f[k - 1] \o ss[k + 1]
        <5>1. f[k] = step[<<k, f[k - 1]>>]
          BY <2>1
        <5>2. step[<<k, f[k - 1]>>] = f[k - 1] \o ss[k + 1]
          BY <4>1
        <5>3. QED
          BY <5>1, <5>2
      <4>3. f[k] \in Seq(S)
        BY <3>2, <4>1, <4>2, AppendedElements
      <4>4. k \in 0..(n - 1)
        OBVIOUS
      <4>5. QED
        BY <4>3, <4>4
    <3>3. n - 1 \in Nat
      BY <1>2
    <3> HIDE DEF T
    <3>4. \A k \in 0..(n - 1) : k \in T
      BY <3>1, <3>2, <3>3, Inductive
    <3>5. QED
      BY <3>4 DEF T
  <2> DEFINE g == [i \in 1..n |-> f[i - 1]]
  <2>3. ASSUME NEW i \in 1..n
        PROVE  f[i - 1] = IF i = 1 THEN ss[i] ELSE g[i - 1] \o ss[i]
    <3>1. CASE i = 1
      BY <1>2, <2>1, <3>1
    <3>2. CASE i # 1
      <4>1. /\ i - 1 \in 1..n /\ i - 1 \in 1..(n - 1) /\ (i - 1) - 1 \in 0..(n - 1)
            /\ (i - 1) + 1 = i /\ i - 1 \in 0..(n - 1) /\ i - 1 # 0
        BY <1>2, <3>2
      <4>2. g[i - 1] = f[(i - 1) - 1] /\ f[(i - 1) - 1] \in Seq(S)
        BY <2>2, <4>1
      <4>3. f[i - 1] = step[<<i - 1, f[(i - 1) - 1]>>]
        BY <2>1, <4>1
      <4>4. step[<<i - 1, f[(i - 1) - 1]>>] = f[(i - 1) - 1] \o ss[i]
        BY <4>1, <4>2
      <4>5. QED
        BY <3>2, <4>2, <4>3, <4>4
    <3>3. QED
      BY <3>1, <3>2
  <2>4. g = [i \in 1..n |-> IF i = 1 THEN ss[i] ELSE g[i - 1] \o ss[i]]
    BY <2>3
  <2> HIDE DEF g
  <2>5. QED
    BY <2>4
<1>4. flatten = [i \in 1..n |-> IF i = 1 THEN ss[i] ELSE flatten[i - 1] \o ss[i]]
  BY <1>3
<1> HIDE DEF flatten
<1> DEFINE U(i) == UNION {ToSet(ss[j]) : j \in 1..i}
           T == {i \in 0..n : i = 0 \/ /\ flatten[i] \in Seq(S)
                                       /\ ToSet(flatten[i]) = U(i)}
<1>5. 0 \in T
  OBVIOUS
<1>6. ASSUME NEW i \in 1..n, i - 1 \in T
      PROVE  i \in T
  <2>1. CASE i = 1
    <3>1. flatten[i] = ss[i] /\ flatten[i] \in Seq(S)
      BY <1>2, <1>4, <2>1
    <3>2. U(i) = ToSet(ss[i])
      BY <2>1
    <3>3. QED
      BY <3>1, <3>2
  <2>2. CASE i # 1
    <3>1. i - 1 \in 1..n /\ i - 1 # 0
      BY <1>2, <2>2
    <3>2. /\ flatten[i] = flatten[i - 1] \o ss[i]
          /\ flatten[i - 1] \in Seq(S) /\ ss[i] \in Seq(S)
          /\ ToSet(flatten[i - 1]) = U(i - 1)
      BY <1>2, <1>4, <1>6, <2>2, <3>1
    <3>3. ToSet(flatten[i]) = ToSet(flatten[i - 1]) \cup ToSet(ss[i])
      BY <3>2, AppendedElements
    <3>4. U(i) = U(i - 1) \cup ToSet(ss[i])
      <4>1. \A j : j \in 1..i <=> j \in 1..(i - 1) \/ j = i
        BY <1>2
      <4>2. ASSUME NEW x PROVE x \in U(i) <=> x \in U(i - 1) \/ x \in ToSet(ss[i])
        BY <4>1
      <4>3. QED
        BY <4>2
    <3>5. flatten[i] \in Seq(S)
      BY <3>2, AppendedElements
    <3>6. ToSet(flatten[i]) = U(i)
      BY <3>2, <3>3, <3>4
    <3>7. i \in 0..n
      OBVIOUS
    <3>8. QED
      BY <3>5, <3>6, <3>7
  <2>3. QED
    BY <2>1, <2>2
<1>7. n \in T
  <2> HIDE DEF T
  <2>1. \A i \in 0..n : i \in T
    BY <1>2, <1>5, <1>6, Inductive
  <2>2. QED
    BY <1>2, <2>1
<1>8. QED
  BY <1>1, <1>2, <1>7

\* Max and Min of the community module return what they are named for.
LEMMA MaxIs ==
    ASSUME NEW S \in SUBSET Int, NEW x \in S, \A y \in S : y <= x
    PROVE  Max(S) = x
<1>1. \A z \in S : (\A y \in S : z >= y) => z = x
  OBVIOUS
<1>2. \A y \in S : x >= y
  OBVIOUS
<1>3. QED
  BY <1>1, <1>2 DEF Max

LEMMA MinIs ==
    ASSUME NEW S \in SUBSET Int, NEW x \in S, \A y \in S : x <= y
    PROVE  Min(S) = x
<1>1. \A z \in S : (\A y \in S : z =< y) => z = x
  OBVIOUS
<1>2. \A y \in S : x =< y
  OBVIOUS
<1>3. QED
  BY <1>1, <1>2 DEF Min

LEMMA MaxOfTwo ==
    ASSUME NEW a \in Int, NEW b \in Int
    PROVE  Max({a, b}) = IF a >= b THEN a ELSE b
<1>1. CASE a >= b
  BY <1>1, MaxIs
<1>2. CASE ~ (a >= b)
  BY <1>2, MaxIs
<1>3. QED
  BY <1>1, <1>2

LEMMA BothWithin ==
    ASSUME NEW a \in Int, NEW b \in Int, NEW n \in Int, a <= n, b <= n
    PROVE  Max({a, b}) <= n
BY MaxOfTwo

\* A set of naturals that has a bound has a greatest element.
LEMMA GreatestNatural ==
    ASSUME NEW n \in Nat, NEW S \in SUBSET (0..n), S # {}
    PROVE  Max(S) \in S /\ \A k \in S : k <= Max(S)
<1> DEFINE T == {n - k : k \in S}
<1>1. T \in SUBSET Nat /\ T # {}
  <2>1. \A k \in S : k \in Int /\ n - k \in Nat
    OBVIOUS
  <2>2. QED
    BY <2>1
<1>2. PICK t \in T : \A u \in T : t <= u
  BY <1>1, LeastNatural
<1>3. PICK m \in S : t = n - m
  BY <1>2
<1>4. \A k \in S : n - m <= n - k
  BY <1>2, <1>3
<1>5. S \in SUBSET Int /\ \A k \in S : k <= m
  BY <1>4
<1>6. Max(S) = m
  BY <1>5, MaxIs
<1>7. QED
  BY <1>5, <1>6

-----------------------------------------------------------------------------
\* The log

\* What a batch still held says of the log: its places are in it, and each
\* place of its partition up to them was delivered.
Within(b) ==
    \A po \in ToSet(b) :
        /\ po[2] < nextOffset(po[1])
        /\ \A o \in 0..po[2] : <<po[1], o>> \in delivered

LogInv ==
    /\ LogTypeOK
    /\ NoCommittedRefetch
    /\ NothingPassedOver
    /\ EffectsWithOffsets
    /\ \A b \in held : Within(b)

LEMMA PartitionNumbers ==
    /\ Partitions \in Nat \ {0} /\ PollSize \in Nat \ {0}
    /\ MaxRetained \in Nat \ {0} /\ Times \subseteq Nat
    /\ \A p \in Partition : p \in 0..Partitions /\ p + 1 \in 1..Partitions
    /\ \A i \in 1..Partitions : i - 1 \in Partition
BY TopicAssumption DEF Partition

\* The types of the single variables.
LEMMA LogTypes ==
    ASSUME LogTypeOK
    PROVE  /\ records \in [Partition -> Seq(Times)]
           /\ baseOffset \in [Partition -> Nat]
           /\ positions \in [Partition -> Nat] /\ committed \in [Partition -> Nat]
           /\ effects \subseteq Place /\ delivered \subseteq Place
           /\ held \subseteq Seq(Place)
           /\ \A p \in Partition :
                 /\ nextOffset(p) \in Nat
                 /\ positions[p] <= nextOffset(p) /\ committed[p] <= nextOffset(p)
<1>1. ASSUME NEW p \in Partition
      PROVE  /\ nextOffset(p) \in Nat
             /\ positions[p] <= nextOffset(p) /\ committed[p] <= nextOffset(p)
  <2>1. /\ positions[p] \in Nat /\ committed[p] \in Nat
        /\ records[p] \in Seq(Times) /\ nextOffset(p) \in Nat
    BY DEF LogTypeOK, nextOffset
  <2>2. Max({positions[p], committed[p]}) <= nextOffset(p)
    BY DEF LogTypeOK
  <2>3. QED
    BY <2>1, <2>2, MaxOfTwo
<1>2. QED
  BY <1>1 DEF LogTypeOK

\* What is left to fetch, from one partition to the next.
LeftAfter(p, left) ==
    IF left <= 0 THEN left
    ELSE IF OutOfRange(p - 1) THEN -1
    ELSE Max({0, left - (nextOffset(p - 1) - From(p - 1))})

LEMMA LeftSteps ==
    ASSUME LogTypeOK, NEW m \in Nat
    PROVE  /\ \A p \in 0..Partitions : Left(m)[p] \in Int
           /\ \A p \in 1..Partitions : Left(m)[p] = LeftAfter(p, Left(m)[p - 1])
<1> DEFINE left == CHOOSE f : f = [p \in 0..Partitions |->
                      IF p = 0 THEN m
                      ELSE IF f[p - 1] <= 0 THEN f[p - 1]
                      ELSE IF OutOfRange(p - 1) THEN -1
                      ELSE Max({0, f[p - 1] - (nextOffset(p - 1) - From(p - 1))})]
<1>1. Left(m) = left
  BY DEF Left
<1>2. ASSUME NEW p \in 1..Partitions, NEW n \in Int
      PROVE  LeftAfter(p, n) \in Int
  <2>1. p - 1 \in Partition
    BY <1>2, PartitionNumbers
  <2>2. nextOffset(p - 1) \in Nat /\ From(p - 1) \in Nat
    BY <2>1, LogTypes DEF From
  <2>3. n - (nextOffset(p - 1) - From(p - 1)) \in Int
    BY <2>2
  <2>4. Max({0, n - (nextOffset(p - 1) - From(p - 1))}) \in Int
    BY <2>3, MaxOfTwo
  <2>5. QED
    BY <2>4 DEF LeftAfter
<1> DEFINE step == [x \in (1..Partitions) \X Int |-> LeftAfter(x[1], x[2])]
<1>3. PICK f : Recurs(f, Partitions, m, step)
  <2> HIDE DEF step
  <2>1. QED
    BY PartitionNumbers, Recursion
<1>4. \A p \in 0..Partitions : f[p] \in Int
  <2> DEFINE T == {p \in 0..Partitions : f[p] \in Int}
  <2>1. 0 \in T
    BY <1>3, PartitionNumbers DEF Recurs
  <2>2. ASSUME NEW p \in 1..Partitions, p - 1 \in T
        PROVE  p \in T
    <3>1. f[p] = step[<<p, f[p - 1]>>]
      <4> HIDE DEF step
      <4>1. QED
        BY <1>3 DEF Recurs
    <3>2. step[<<p, f[p - 1]>>] = LeftAfter(p, f[p - 1])
      BY <2>2
    <3>3. p \in 0..Partitions
      BY PartitionNumbers
    <3>4. QED
      BY <1>2, <2>2, <3>1, <3>2, <3>3
  <2> HIDE DEF T
  <2>3. \A p \in 0..Partitions : p \in T
    BY <2>1, <2>2, PartitionNumbers, Inductive
  <2>4. QED
    BY <2>3 DEF T
<1>5. \A p \in 1..Partitions : f[p] = LeftAfter(p, f[p - 1])
  <2>1. ASSUME NEW p \in 1..Partitions
        PROVE  f[p] = LeftAfter(p, f[p - 1])
    <3>1. f[p - 1] \in Int
      BY <1>4, PartitionNumbers
    <3>2. f[p] = step[<<p, f[p - 1]>>]
      BY <1>3 DEF Recurs
    <3>3. QED
      BY <3>1, <3>2
  <2>2. QED
    BY <2>1
<1> DEFINE g == [p \in 0..Partitions |-> f[p]]
<1>6. g = [p \in 0..Partitions |->
                      IF p = 0 THEN m
                      ELSE IF g[p - 1] <= 0 THEN g[p - 1]
                      ELSE IF OutOfRange(p - 1) THEN -1
                      ELSE Max({0, g[p - 1] - (nextOffset(p - 1) - From(p - 1))})]
  <2>1. ASSUME NEW p \in 0..Partitions, p # 0
        PROVE  g[p] = IF g[p - 1] <= 0 THEN g[p - 1]
                      ELSE IF OutOfRange(p - 1) THEN -1
                      ELSE Max({0, g[p - 1] - (nextOffset(p - 1) - From(p - 1))})
    <3>1. p \in 1..Partitions /\ p - 1 \in 0..Partitions
      BY <2>1, PartitionNumbers
    <3>2. g[p] = f[p] /\ g[p - 1] = f[p - 1]
      BY <3>1
    <3>3. g[p] = LeftAfter(p, g[p - 1])
      BY <1>5, <3>1, <3>2
    <3> HIDE DEF g
    <3>4. QED
      BY <3>3 DEF LeftAfter
  <2>2. 0 \in 0..Partitions => g[0] = m
    BY <1>3 DEF Recurs
  <2>3. \A p \in 0..Partitions : g[p] = IF p = 0 THEN m
                      ELSE IF g[p - 1] <= 0 THEN g[p - 1]
                      ELSE IF OutOfRange(p - 1) THEN -1
                      ELSE Max({0, g[p - 1] - (nextOffset(p - 1) - From(p - 1))})
    <3> HIDE DEF g
    <3>1. QED
      BY <2>1, <2>2
  <2>4. QED
    BY <2>3, Zenon
<1>7. left = [p \in 0..Partitions |->
                      IF p = 0 THEN m
                      ELSE IF left[p - 1] <= 0 THEN left[p - 1]
                      ELSE IF OutOfRange(p - 1) THEN -1
                      ELSE Max({0, left[p - 1] - (nextOffset(p - 1) - From(p - 1))})]
  <2> HIDE DEF g
  <2>1. QED
    BY <1>6
<1> HIDE DEF left
<1>8. \A p \in 1..Partitions : left[p] = LeftAfter(p, left[p - 1])
  <2>1. ASSUME NEW p \in 1..Partitions
        PROVE  left[p] = LeftAfter(p, left[p - 1])
    <3>1. p \in 0..Partitions /\ p # 0
      BY PartitionNumbers
    <3>2. QED
      BY <1>7, <3>1 DEF LeftAfter
  <2>2. QED
    BY <2>1
<1>9. \A p \in 0..Partitions : left[p] \in Int
  <2> DEFINE T == {p \in 0..Partitions : left[p] \in Int}
  <2>1. 0 \in T
    BY <1>7, PartitionNumbers
  <2>2. ASSUME NEW p \in 1..Partitions, p - 1 \in T
        PROVE  p \in T
    BY <1>2, <1>8, <2>2, PartitionNumbers
  <2> HIDE DEF T
  <2>3. \A p \in 0..Partitions : p \in T
    BY <2>1, <2>2, PartitionNumbers, Inductive
  <2>4. QED
    BY <2>3 DEF T
<1>10. QED
  BY <1>1, <1>8, <1>9

\* A poll moves the position of a partition forward, within the partition.
LEMMA ReadWithin ==
    ASSUME LogTypeOK, NEW m \in Nat, NEW p \in Partition
    PROVE  /\ ReadTo(m, p) \in Nat
           /\ positions[p] <= ReadTo(m, p) /\ ReadTo(m, p) <= nextOffset(p)
<1> DEFINE l == Left(m)[p]
           k == Left(m)[p + 1]
           rest == nextOffset(p) - From(p)
<1>1. /\ l \in Int /\ k \in Int /\ (p + 1) - 1 = p
      /\ k = LeftAfter(p + 1, Left(m)[(p + 1) - 1])
  BY LeftSteps, PartitionNumbers
<1>2. /\ positions[p] \in Nat /\ From(p) = positions[p]
      /\ nextOffset(p) \in Nat /\ positions[p] <= nextOffset(p)
      /\ rest \in Nat
  BY LogTypes DEF From
<1>3. ReadTo(m, p) = IF l <= 0 \/ k < 0 THEN positions[p] ELSE positions[p] + (l - k)
  BY <1>2 DEF ReadTo
<1>4. CASE l <= 0 \/ k < 0
  BY <1>2, <1>3, <1>4
<1>5. CASE ~ (l <= 0) /\ ~ (k < 0)
  <2>1. k = IF OutOfRange(p) THEN -1 ELSE Max({0, l - rest})
    BY <1>1, <1>5 DEF LeftAfter
  <2>2. k = Max({0, l - rest})
    BY <1>5, <2>1
  <2>3. l - rest \in Int
    BY <1>1, <1>2
  <2> HIDE DEF l, k, rest
  <2>4. k = IF 0 >= l - rest THEN 0 ELSE l - rest
    BY <2>2, <2>3, MaxOfTwo
  <2>5. 0 <= l - k /\ l - k <= rest
    BY <1>1, <1>2, <1>5, <2>4
  <2>6. positions[p] + rest = nextOffset(p)
    BY <1>2 DEF rest
  <2>7. QED
    BY <1>1, <1>2, <1>3, <1>5, <2>5, <2>6
<1>6. QED
  BY <1>4, <1>5

\* What a poll reads of a partition: from its position up to where it reads.
Piece(m, i) ==
    [k \in 1..(ReadTo(m, i - 1) - From(i - 1)) |-> <<i - 1, From(i - 1) + k - 1>>]

LEMMA PiecePlaces ==
    ASSUME LogTypeOK, NEW m \in Nat, NEW i \in 1..Partitions
    PROVE  /\ Piece(m, i) \in Seq(Place)
           /\ \A po : po \in ToSet(Piece(m, i)) <=>
                 /\ po \in Place /\ po[1] = i - 1
                 /\ positions[i - 1] <= po[2] /\ po[2] < ReadTo(m, i - 1)
<1> DEFINE p == i - 1
           n == ReadTo(m, p) - From(p)
<1>1. p \in Partition
  BY PartitionNumbers
<1>2. /\ positions[p] \in Nat /\ From(p) = positions[p]
      /\ ReadTo(m, p) \in Nat /\ n \in Nat
  <2> HIDE DEF p
  <2>1. positions[p] \in Nat /\ From(p) = positions[p]
    BY <1>1, LogTypes DEF From
  <2>2. ReadTo(m, p) \in Nat /\ positions[p] <= ReadTo(m, p)
    BY <1>1, ReadWithin
  <2>3. QED
    BY <2>1, <2>2
<1>3. \A k \in 1..n : <<p, From(p) + k - 1>> \in Place
  BY <1>1, <1>2 DEF Place
<1>4. Piece(m, i) = [k \in 1..n |-> <<p, From(p) + k - 1>>]
  BY DEF Piece
<1>5. Piece(m, i) \in Seq(Place) /\ DOMAIN Piece(m, i) = 1..n
  <2>1. Piece(m, i) \in [1..n -> Place]
    BY <1>3, <1>4
  <2>2. QED
    BY <1>2, <2>1
<1>6. ASSUME NEW po \in ToSet(Piece(m, i))
      PROVE  /\ po \in Place /\ po[1] = p
             /\ positions[p] <= po[2] /\ po[2] < ReadTo(m, p)
  <2>1. PICK k \in 1..n : po = <<p, From(p) + k - 1>>
    BY <1>4, <1>5 DEF ToSet
  <2>2. po[1] = p /\ po[2] = From(p) + k - 1
    BY <2>1
  <2>3. po \in Place
    BY <1>3, <2>1
  <2>4. positions[p] <= po[2] /\ po[2] < ReadTo(m, p)
    BY <1>2, <2>2
  <2>5. QED
    BY <2>2, <2>3, <2>4
<1>7. ASSUME NEW po \in Place, po[1] = p, positions[p] <= po[2], po[2] < ReadTo(m, p)
      PROVE  po \in ToSet(Piece(m, i))
  <2>1. po = <<p, po[2]>> /\ po[2] \in Nat
    BY <1>7 DEF Place
  <2> DEFINE k == po[2] - From(p) + 1
  <2>2. k \in 1..n /\ From(p) + k - 1 = po[2]
    BY <1>2, <1>7, <2>1
  <2>3. Piece(m, i)[k] = <<p, From(p) + k - 1>>
    BY <1>4, <2>2
  <2>4. Piece(m, i)[k] = po
    BY <2>1, <2>2, <2>3
  <2>5. QED
    BY <1>5, <2>2, <2>4 DEF ToSet
<1>8. QED
  BY <1>5, <1>6, <1>7

\* The records read, over all partitions.
LEMMA FetchedPlaces ==
    ASSUME LogTypeOK, NEW m \in Nat
    PROVE  /\ Fetched(m) \in Seq(Place)
           /\ \A po : po \in ToSet(Fetched(m)) <=>
                 /\ po \in Place
                 /\ positions[po[1]] <= po[2] /\ po[2] < ReadTo(m, po[1])
<1> DEFINE ss == [i \in 1..Partitions |-> Piece(m, i)]
<1>1. ss \in Seq(Seq(Place)) /\ Len(ss) = Partitions /\ Len(ss) > 0
  <2>1. ss \in [1..Partitions -> Seq(Place)]
    BY PiecePlaces
  <2>2. Partitions \in Nat /\ Partitions > 0
    BY PartitionNumbers
  <2>3. QED
    BY <2>1, <2>2
<1>2. Fetched(m) = FlattenSeq(ss)
  BY DEF Fetched, Piece
<1> HIDE DEF ss
<1>3. /\ Fetched(m) \in Seq(Place)
      /\ ToSet(Fetched(m)) = UNION {ToSet(ss[i]) : i \in 1..Len(ss)}
  BY <1>1, <1>2, Flattened
<1>4. ToSet(Fetched(m)) = UNION {ToSet(Piece(m, i)) : i \in 1..Partitions}
  BY <1>1, <1>3 DEF ss
<1>5. ASSUME NEW po \in ToSet(Fetched(m))
      PROVE  po \in Place /\ positions[po[1]] <= po[2] /\ po[2] < ReadTo(m, po[1])
  <2>1. PICK i \in 1..Partitions : po \in ToSet(Piece(m, i))
    BY <1>4
  <2>2. QED
    BY <2>1, PiecePlaces
<1>6. ASSUME NEW po \in Place, positions[po[1]] <= po[2], po[2] < ReadTo(m, po[1])
      PROVE  po \in ToSet(Fetched(m))
  <2>1. po[1] \in Partition
    BY DEF Place
  <2>2. po[1] + 1 \in 1..Partitions /\ (po[1] + 1) - 1 = po[1]
    BY <2>1, PartitionNumbers DEF Partition
  <2>3. po \in ToSet(Piece(m, po[1] + 1))
    BY <1>6, <2>2, PiecePlaces
  <2>4. QED
    BY <1>4, <2>2, <2>3
<1>7. QED
  BY <1>3, <1>5, <1>6

-----------------------------------------------------------------------------
\* What is committed

\* A consumer commits places that are in the log.
Committable(b) == b \in Seq(Place) /\ \A po \in ToSet(b) : po[2] < nextOffset(po[1])

\* The committed offset of a partition stays, or is one past a place of the batch.
LEMMA CommittedAt ==
    ASSUME LogTypeOK, NEW b, Committable(b), NEW p \in Partition
    PROVE  LET c == CommittedWith(b)[p] IN
           /\ c \in Nat /\ committed[p] <= c
           /\ c = committed[p] \/ \E po \in ToSet(b) : po[1] = p /\ c = po[2] + 1
           /\ \A po \in ToSet(b) : po[1] = p => po[2] < c
<1> DEFINE n == nextOffset(p)
           S == {committed[p]} \cup Planned(b, p)
<1>1. n \in Nat /\ committed[p] \in 0..n
  BY LogTypes
<1>2. \A po \in ToSet(b) : po[1] \in Partition /\ po[2] \in Nat /\ po[2] < nextOffset(po[1])
  BY ElementType DEF Committable, Place
<1>3. \A c \in Planned(b, p) : /\ c \in 1..n
                               /\ \E po \in ToSet(b) : po[1] = p /\ c = po[2] + 1
  BY <1>1, <1>2 DEF Planned
<1>4. \A po \in ToSet(b) : po[1] = p => po[2] + 1 \in Planned(b, p)
  BY DEF Planned
<1>5. S \in SUBSET (0..n) /\ S # {}
  BY <1>1, <1>3
<1>6. CommittedWith(b)[p] = Max(S)
  BY DEF CommittedWith
<1>7. Max(S) \in S /\ \A k \in S : k <= Max(S)
  <2> HIDE DEF S, n
  <2>1. QED
    BY <1>1, <1>5, GreatestNatural
<1>8. Max(S) \in 0..n
  BY <1>5, <1>7
<1> DEFINE c == Max(S)
<1>9. c = committed[p] \/ \E po \in ToSet(b) : po[1] = p /\ c = po[2] + 1
  BY <1>3, <1>7
<1>10. \A po \in ToSet(b) : po[1] = p => po[2] + 1 <= c
  BY <1>4, <1>7
<1> HIDE DEF c
<1>11. committed[p] <= c
  BY <1>7 DEF c
<1>12. \A po \in ToSet(b) : po[1] = p => po[2] < c
  BY <1>1, <1>2, <1>8, <1>10 DEF c
<1>13. QED
  BY <1>6, <1>8, <1>9, <1>11, <1>12 DEF c

\* The fetch position follows the commit.
LEMMA PositionsAt ==
    ASSUME LogTypeOK, NoCommittedRefetch, NEW b, Committable(b), NEW p \in Partition
    PROVE  LET c == CommittedWith(b)[p]
               o == PositionsWith(b)[p]
           IN  /\ o \in Nat /\ c <= o
               /\ o = positions[p] \/ (o = c /\ c # committed[p])
<1>1. /\ CommittedWith(b)[p] \in Nat /\ positions[p] \in Nat
      /\ committed[p] <= positions[p]
  BY CommittedAt, LogTypes DEF NoCommittedRefetch
<1>2. PositionsWith(b)[p] = IF CommittedWith(b)[p] = committed[p] THEN positions[p]
                            ELSE Max({positions[p], CommittedWith(b)[p]})
  BY DEF PositionsWith
<1>3. QED
  BY <1>1, <1>2, MaxOfTwo

-----------------------------------------------------------------------------
\* The steps of the log

LEMMA LogInitInv == LogInit => LogInv
<1>1. SUFFICES ASSUME LogInit PROVE LogInv
  OBVIOUS
<1>2. LogTypeOK
  <2>1. ASSUME NEW p \in Partition
        PROVE  Max({positions[p], committed[p]}) <= nextOffset(p)
    <3>1. positions[p] = 0 /\ committed[p] = 0 /\ nextOffset(p) = 0
      BY <1>1 DEF LogInit, nextOffset
    <3>2. QED
      BY <3>1, BothWithin
  <2>2. QED
    BY <1>1, <2>1 DEF LogInit, LogTypeOK
<1>3. NoCommittedRefetch /\ NothingPassedOver /\ EffectsWithOffsets
  BY <1>1 DEF LogInit, NoCommittedRefetch, NothingPassedOver, EffectsWithOffsets
<1>4. QED
  BY <1>1, <1>2, <1>3 DEF LogInv, LogInit

\* The log never shrinks, nor does what was delivered: a batch stays within.
LEMMA WithinStays ==
    ASSUME LogTypeOK, NEW b \in Seq(Place), Within(b),
           \A p \in Partition : nextOffset(p)' \in Nat /\ nextOffset(p) <= nextOffset(p)',
           delivered \subseteq delivered'
    PROVE  Within(b)'
<1>1. ASSUME NEW po \in ToSet(b)
      PROVE  /\ po[2] < nextOffset(po[1])'
             /\ \A o \in 0..po[2] : <<po[1], o>> \in delivered'
  <2>1. po[1] \in Partition /\ po[2] \in Nat
    BY ElementType DEF Place
  <2>2. nextOffset(po[1]) \in Nat
    BY <2>1, LogTypes
  <2>3. QED
    BY <2>1, <2>2 DEF Within
<1>2. QED
  BY <1>1 DEF Within

LEMMA AppendInv ==
    ASSUME LogInv, NEW p \in Partition, NEW t \in Times, AppendRecord(p, t)
    PROVE  LogInv'
<1> DEFINE l == Append(records[p], t)
<1>1. LogTypeOK
  BY DEF LogInv
<1>2. /\ records' = [records EXCEPT ![p] = l]
      /\ baseOffset' = [baseOffset EXCEPT ![p] = Max({baseOffset[p], Len(l) - MaxRetained})]
      /\ delivery' = delivery /\ generation' = generation /\ positions' = positions
      /\ committed' = committed /\ effects' = effects /\ held' = held
      /\ delivered' = delivered /\ failures' = failures
  BY DEF AppendRecord, offsetVars
<1>3. /\ l \in Seq(Times) /\ Len(l) = Len(records[p]) + 1 /\ Len(records[p]) \in Nat
      /\ records[p] \in Seq(Times)
  BY <1>1, LogTypes
<1>4. records' \in [Partition -> Seq(Times)]
  BY <1>1, <1>2, <1>3, LogTypes
<1>5. \A q \in Partition : nextOffset(q)' \in Nat /\ nextOffset(q) <= nextOffset(q)'
  BY <1>1, <1>2, <1>3, LogTypes DEF nextOffset
<1>6. baseOffset' \in [Partition -> Nat]
  <2>1. baseOffset[p] \in Nat /\ Len(l) - MaxRetained \in Int
    BY <1>1, <1>3, LogTypes, PartitionNumbers
  <2>2. Max({baseOffset[p], Len(l) - MaxRetained}) \in Nat
    BY <2>1, MaxOfTwo
  <2>3. QED
    BY <1>1, <1>2, <2>2, LogTypes
<1>7. \A q \in Partition : Max({positions'[q], committed'[q]}) <= nextOffset(q)'
  <2>1. ASSUME NEW q \in Partition
        PROVE  Max({positions[q], committed[q]}) <= nextOffset(q)'
    <3>1. /\ positions[q] \in Nat /\ committed[q] \in Nat /\ nextOffset(q) \in Nat
          /\ positions[q] <= nextOffset(q) /\ committed[q] <= nextOffset(q)
      BY <1>1, LogTypes
    <3>2. QED
      BY <1>5, <3>1, BothWithin
  <2>2. QED
    BY <1>2, <2>1
<1>8. LogTypeOK'
  BY <1>1, <1>2, <1>4, <1>6, <1>7 DEF LogTypeOK
<1>9. \A b \in held' : Within(b)'
  <2>1. ASSUME NEW b \in held PROVE Within(b)'
    <3>1. b \in Seq(Place) /\ Within(b)
      BY <1>1, LogTypes DEF LogInv
    <3>2. QED
      BY <1>1, <1>2, <1>5, <3>1, WithinStays
  <2>2. QED
    BY <1>2, <2>1
<1>10. (NoCommittedRefetch /\ NothingPassedOver /\ EffectsWithOffsets)'
  BY <1>2 DEF LogInv, NoCommittedRefetch, NothingPassedOver, EffectsWithOffsets
<1>11. QED
  BY <1>8, <1>9, <1>10 DEF LogInv

\* The positions go back to what is committed.
LEMMA RewindInv ==
    ASSUME LogInv, positions' = committed, UNCHANGED <<topicVars, delivery, committed, delivered>>,
           generation' \in Nat, failures' \in Nat, held' \subseteq held,
           effects' \subseteq Place, delivery = ExactlyOnce => effects' = effects
    PROVE  LogInv'
<1>1. LogTypeOK
  BY DEF LogInv
<1>2. /\ records' = records /\ baseOffset' = baseOffset /\ delivery' = delivery
      /\ committed' = committed /\ delivered' = delivered
      /\ \A p \in Partition : nextOffset(p)' = nextOffset(p)
  BY DEF topicVars, nextOffset
<1>3. \A p \in Partition :
        /\ positions[p] \in Nat /\ committed[p] \in Nat /\ nextOffset(p) \in Nat
        /\ committed[p] <= nextOffset(p) /\ committed[p] <= positions[p]
  BY <1>1, LogTypes DEF LogInv, NoCommittedRefetch
<1>4. \A p \in Partition : Max({positions'[p], committed'[p]}) <= nextOffset(p)'
  BY <1>2, <1>3, BothWithin
<1>5. LogTypeOK'
  BY <1>1, <1>2, <1>4 DEF LogTypeOK
<1>6. NoCommittedRefetch'
  BY <1>2, <1>3 DEF NoCommittedRefetch
<1>7. NothingPassedOver'
  <2>1. ASSUME NEW p \in Partition, NEW o \in 0..(committed[p] - 1)
        PROVE  <<p, o>> \in delivered
    <3>1. o \in 0..(positions[p] - 1)
      BY <1>3
    <3>2. QED
      BY <3>1 DEF LogInv, NothingPassedOver
  <2>2. QED
    BY <1>2, <2>1 DEF NothingPassedOver
<1>8. EffectsWithOffsets'
  BY <1>2 DEF LogInv, EffectsWithOffsets
<1>9. \A b \in held' : Within(b)'
  BY <1>2 DEF LogInv, Within, nextOffset
<1>10. QED
  BY <1>5, <1>6, <1>7, <1>8, <1>9 DEF LogInv

\* A poll reads on from the positions, so that the batch it returns continues
\* what was delivered.
LEMMA FetchInv ==
    ASSUME LogInv, NEW m \in Nat, Fetch(m),
           NEW b, b = Fetched(m), held' \subseteq held \cup {b}
    PROVE  LogInv'
<1>1. LogTypeOK
  BY DEF LogInv
<1>2. /\ records' = records /\ baseOffset' = baseOffset /\ delivery' = delivery
      /\ generation' = generation /\ committed' = committed
      /\ effects' = effects /\ failures' = failures
      /\ positions' = [p \in Partition |-> ReadTo(m, p)]
      /\ delivered' = delivered \cup ToSet(b)
      /\ \A p \in Partition : nextOffset(p)' = nextOffset(p)
  BY DEF Fetch, topicVars, nextOffset
<1>3. /\ b \in Seq(Place)
      /\ \A po : po \in ToSet(b) <=>
            /\ po \in Place
            /\ positions[po[1]] <= po[2] /\ po[2] < ReadTo(m, po[1])
  BY <1>1, FetchedPlaces
<1>4. \A p \in Partition :
        /\ positions[p] \in Nat /\ committed[p] \in Nat /\ nextOffset(p) \in Nat
        /\ ReadTo(m, p) \in Nat /\ positions[p] <= ReadTo(m, p)
        /\ ReadTo(m, p) <= nextOffset(p)
        /\ committed[p] <= nextOffset(p) /\ committed[p] <= positions[p]
  BY <1>1, LogTypes, ReadWithin DEF LogInv, NoCommittedRefetch
<1>5. LogTypeOK'
  <2>1. \A p \in Partition : Max({positions'[p], committed'[p]}) <= nextOffset(p)'
    BY <1>2, <1>4, BothWithin
  <2>2. positions' \in [Partition -> Nat]
    BY <1>2, <1>4
  <2>3. delivered' \subseteq Place
    BY <1>1, <1>2, <1>3 DEF LogTypeOK
  <2>4. held' \subseteq Seq(Place)
    BY <1>1, <1>3 DEF LogTypeOK
  <2>5. QED
    BY <1>1, <1>2, <2>1, <2>2, <2>3, <2>4 DEF LogTypeOK
<1>6. NoCommittedRefetch'
  <2>1. \A p \in Partition : positions'[p] = ReadTo(m, p) /\ committed'[p] = committed[p]
    BY <1>2
  <2>2. \A p \in Partition : committed[p] <= ReadTo(m, p)
    BY <1>4
  <2>3. QED
    BY <2>1, <2>2 DEF NoCommittedRefetch
<1>7. ASSUME NEW p \in Partition, NEW o \in Nat, o < ReadTo(m, p)
      PROVE  <<p, o>> \in delivered'
  <2>1. CASE o < positions[p]
    <3>1. o \in 0..(positions[p] - 1)
      BY <1>4, <2>1
    <3>2. QED
      BY <1>2, <3>1 DEF LogInv, NothingPassedOver
  <2>2. CASE ~ (o < positions[p])
    <3>1. <<p, o>> \in Place /\ positions[p] <= o
      BY <1>4, <2>2 DEF Place
    <3>2. <<p, o>> \in ToSet(b)
      BY <1>3, <1>7, <3>1
    <3>3. QED
      BY <1>2, <3>2
  <2>3. QED
    BY <2>1, <2>2
<1>8. NothingPassedOver'
  <2>1. \A p \in Partition : positions'[p] = ReadTo(m, p)
    BY <1>2
  <2>2. \A p \in Partition : \A o \in 0..(ReadTo(m, p) - 1) :
          o \in Nat /\ o < ReadTo(m, p)
    BY <1>4
  <2>3. QED
    BY <1>7, <2>1, <2>2 DEF NothingPassedOver
<1>9. EffectsWithOffsets'
  BY <1>2 DEF LogInv, EffectsWithOffsets
<1>10. Within(b)'
  <2>1. ASSUME NEW po \in ToSet(b)
        PROVE  /\ po[2] < nextOffset(po[1])
               /\ \A o \in 0..po[2] : <<po[1], o>> \in delivered'
    <3>1. /\ po[1] \in Partition /\ po[2] \in Nat /\ po[2] < ReadTo(m, po[1])
      BY <1>3 DEF Place
    <3>2. \A o \in 0..po[2] : o \in Nat /\ o < ReadTo(m, po[1])
      BY <1>4, <3>1
    <3>3. po[2] < nextOffset(po[1])
      BY <1>4, <3>1
    <3>4. QED
      BY <1>7, <3>1, <3>2, <3>3
  <2>2. ASSUME NEW po \in ToSet(b)
        PROVE  nextOffset(po[1])' = nextOffset(po[1])
    BY <1>2, <1>3 DEF Place
  <2>3. \A po \in ToSet(b) : po[2] < nextOffset(po[1])'
    BY <2>1, <2>2
  <2>4. QED
    BY <2>1, <2>3 DEF Within
<1>11. \A c \in held' : Within(c)'
  <2>1. ASSUME NEW c \in held PROVE Within(c)'
    <3>1. c \in Seq(Place) /\ Within(c)
      BY <1>1, LogTypes DEF LogInv
    <3>2. \A p \in Partition : nextOffset(p)' \in Nat /\ nextOffset(p) <= nextOffset(p)'
      BY <1>2, <1>4
    <3>3. QED
      BY <1>1, <1>2, <3>1, <3>2, WithinStays
  <2>2. QED
    BY <1>10, <2>1
<1>12. QED
  BY <1>5, <1>6, <1>8, <1>9, <1>11 DEF LogInv

\* A commit moves the positions past a batch all of which was delivered, and
\* an effect becomes visible with the offset that covers it.
LEMMA CommitInv ==
    ASSUME LogInv, NEW b \in held, ApplyCommit(b), failures' = failures,
           \/ effects' = effects
           \/ effects' = effects \cup ToSet(b)
    PROVE  LogInv'
<1>1. LogTypeOK /\ NoCommittedRefetch
  BY DEF LogInv
<1>2. /\ records' = records /\ baseOffset' = baseOffset /\ delivery' = delivery
      /\ generation' = generation /\ delivered' = delivered
      /\ committed' = CommittedWith(b) /\ positions' = PositionsWith(b)
      /\ held' = held \ {b}
      /\ \A p \in Partition : nextOffset(p)' = nextOffset(p)
  BY DEF ApplyCommit, topicVars, nextOffset
<1>3. b \in Seq(Place) /\ Within(b) /\ Committable(b)
  BY <1>1, LogTypes DEF LogInv, Within, Committable
<1>4. \A po \in ToSet(b) : po \in Place /\ po[1] \in Partition /\ po[2] \in Nat
  BY <1>3, ElementType DEF Place
<1>5. ASSUME NEW p \in Partition
      PROVE  /\ committed'[p] \in Nat /\ positions'[p] \in Nat
             /\ committed[p] <= committed'[p] /\ committed'[p] <= positions'[p]
             /\ positions'[p] = positions[p] \/
                    \E po \in ToSet(b) : po[1] = p /\ positions'[p] = po[2] + 1
             /\ positions'[p] <= nextOffset(p) /\ committed'[p] <= nextOffset(p)
             /\ \A po \in ToSet(b) : po[1] = p => po[2] < committed'[p]
  <2>1. /\ committed'[p] \in Nat /\ committed[p] <= committed'[p]
        /\ committed'[p] = committed[p] \/
               \E po \in ToSet(b) : po[1] = p /\ committed'[p] = po[2] + 1
        /\ \A po \in ToSet(b) : po[1] = p => po[2] < committed'[p]
    BY <1>1, <1>2, <1>3, CommittedAt
  <2>2. /\ positions'[p] \in Nat /\ committed'[p] <= positions'[p]
        /\ \/ positions'[p] = positions[p]
           \/ positions'[p] = committed'[p] /\ committed'[p] # committed[p]
    BY <1>1, <1>2, <1>3, PositionsAt
  <2>3. positions[p] <= nextOffset(p) /\ nextOffset(p) \in Nat
    BY <1>1, LogTypes
  <2>4. positions'[p] = positions[p] \/
            \E po \in ToSet(b) : po[1] = p /\ positions'[p] = po[2] + 1
    BY <2>1, <2>2
  <2>5. \A po \in ToSet(b) : po[1] = p => po[2] + 1 <= nextOffset(p)
    BY <1>3, <1>4, <2>3 DEF Committable
  <2>6. positions'[p] <= nextOffset(p)
    BY <2>2, <2>3, <2>4, <2>5
  <2>7. QED
    BY <2>1, <2>2, <2>3, <2>4, <2>6
<1>6. LogTypeOK'
  <2>1. ASSUME NEW p \in Partition
        PROVE  Max({positions'[p], committed'[p]}) <= nextOffset(p)'
    <3>1. nextOffset(p) \in Nat /\ nextOffset(p)' = nextOffset(p)
      BY <1>1, <1>2, LogTypes
    <3>2. QED
      BY <1>5, <3>1, BothWithin
  <2>2. committed' \in [Partition -> Nat] /\ positions' \in [Partition -> Nat]
    <3>1. committed' = [p \in Partition |-> committed'[p]]
      BY <1>2 DEF CommittedWith
    <3>2. positions' = [p \in Partition |-> positions'[p]]
      BY <1>2 DEF PositionsWith
    <3>3. QED
      BY <1>5, <3>1, <3>2
  <2>3. effects' \subseteq Place
    BY <1>1, <1>4 DEF LogTypeOK
  <2>4. QED
    BY <1>1, <1>2, <2>1, <2>2, <2>3 DEF LogTypeOK
<1>7. NoCommittedRefetch'
  BY <1>5 DEF NoCommittedRefetch
<1>8. NothingPassedOver'
  <2>1. ASSUME NEW p \in Partition, NEW o \in 0..(positions'[p] - 1)
        PROVE  <<p, o>> \in delivered
    <3>1. CASE positions'[p] = positions[p]
      BY <3>1 DEF LogInv, NothingPassedOver
    <3>2. ASSUME NEW po \in ToSet(b), po[1] = p, positions'[p] = po[2] + 1
          PROVE  <<p, o>> \in delivered
      <4>1. o \in 0..po[2]
        BY <1>4, <3>2
      <4>2. QED
        BY <1>3, <3>2, <4>1 DEF Within
    <3>3. QED
      BY <1>5, <3>1, <3>2
  <2>2. QED
    BY <1>2, <2>1 DEF NothingPassedOver
<1>9. EffectsWithOffsets'
  <2>1. SUFFICES ASSUME delivery = ExactlyOnce, NEW po \in effects'
                 PROVE  po[2] < committed'[po[1]]
    BY <1>2 DEF EffectsWithOffsets
  <2>2. CASE po \in ToSet(b)
    BY <1>4, <1>5, <2>2
  <2>3. CASE po \in effects
    <3>1. po[1] \in Partition /\ po[2] \in Nat /\ po[2] < committed[po[1]]
      BY <1>1, <2>1, <2>3, LogTypes DEF LogInv, EffectsWithOffsets, Place
    <3>2. committed[po[1]] \in Nat
      BY <1>1, <3>1, LogTypes
    <3>3. QED
      BY <1>5, <3>1, <3>2
  <2>4. QED
    BY <2>1, <2>2, <2>3
<1>10. \A c \in held' : Within(c)'
  <2>1. ASSUME NEW c \in held PROVE Within(c)'
    <3>1. c \in Seq(Place) /\ Within(c)
      BY <1>1, LogTypes DEF LogInv
    <3>2. \A p \in Partition : nextOffset(p)' \in Nat /\ nextOffset(p) <= nextOffset(p)'
      BY <1>1, <1>2, LogTypes
    <3>3. QED
      BY <1>1, <1>2, <3>1, <3>2, WithinStays
  <2>2. QED
    BY <1>2, <2>1
<1>11. QED
  BY <1>6, <1>7, <1>8, <1>9, <1>10 DEF LogInv

\* A handler that throws leaves the offsets and the batch where they are.
LEMMA HandlerThrowsInv ==
    ASSUME LogInv, NEW b \in held, NEW n \in 0..Len(b), HandlerThrows(b, n)
    PROVE  LogInv'
<1>1. b \in Seq(Place)
  BY LogTypes DEF LogInv
<1>2. ToSet(SubSeq(b, 1, n)) \subseteq Place
  <2>1. SubSeq(b, 1, n) \in Seq(Place)
    BY <1>1
  <2>2. QED
    BY <2>1, ElementType
<1>3. /\ records' = records /\ baseOffset' = baseOffset /\ delivery' = delivery
      /\ generation' = generation /\ delivered' = delivered
      /\ committed' = committed /\ positions' = positions /\ held' = held
      /\ failures' = failures + 1
      /\ effects' = effects \cup VisibleEarly(ToSet(SubSeq(b, 1, n)))
  BY DEF HandlerThrows, topicVars, offsetVars
<1>4. effects' \subseteq Place /\ (delivery = ExactlyOnce => effects' = effects)
  BY <1>2, <1>3 DEF VisibleEarly, LogInv, LogTypeOK
<1>5. LogTypeOK'
  BY <1>3, <1>4 DEF LogInv, LogTypeOK, nextOffset
<1>6. EffectsWithOffsets'
  BY <1>3, <1>4 DEF LogInv, EffectsWithOffsets
<1>7. NoCommittedRefetch' /\ NothingPassedOver'
  BY <1>3 DEF LogInv, NoCommittedRefetch, NothingPassedOver
<1>8. \A c \in held' : Within(c)'
  BY <1>3 DEF LogInv, Within, nextOffset
<1>9. QED
  BY <1>5, <1>6, <1>7, <1>8 DEF LogInv

-----------------------------------------------------------------------------
\* The processor

\* Functions on some of the window starts.
Windows == UNION {[D -> Window] : D \in SUBSET Int}

Counts == UNION {[D -> {0, 1}] : D \in SUBSET Int}

Processors ==
    [watermark : [Partition -> Int], idle : [Partition -> BOOLEAN],
     rested : SUBSET Partition, stream : Int, windows : Windows, initials : Counts]

\* The stream's watermark is held back by the partitions that never rested.
HeldBack(q) ==
    \A p \in Partition :
        /\ Never <= q.watermark[p]
        /\ q.idle[p] => p \in q.rested
        /\ p \notin q.rested => q.stream <= q.watermark[p]

\* A window is emitted, with the result it holds, only when the watermark is
\* past it; one emitted before is emitted still or no longer there.
EmittedPast(q) ==
    /\ \A s \in DOMAIN q.windows : q.windows[s].emitted =>
          q.stream > End(s) /\ q.windows[s].count = q.windows[s].result
    /\ \A s \in DOMAIN q.initials : q.initials[s] = 1 =>
          /\ q.stream > End(s)
          /\ s \in DOMAIN q.windows => q.windows[s].emitted

Consistent(q) == q \in Processors /\ HeldBack(q) /\ EmittedPast(q)

\* No window waits for an emission that is due.
Calm(q) == \A s \in DOMAIN q.windows : q.windows[s].emitted \/ q.stream <= End(s)

ProcessorInv == Consistent(processor) /\ Calm(processor)

LEMMA WindowsType ==
    ASSUME NEW f \in Windows
    PROVE  DOMAIN f \subseteq Int /\ \A s \in DOMAIN f : f[s] \in Window
BY DEF Windows

LEMMA CountsType ==
    ASSUME NEW f \in Counts
    PROVE  DOMAIN f \subseteq Int /\ \A s \in DOMAIN f : f[s] \in {0, 1}
BY DEF Counts

LEMMA IntoWindows ==
    ASSUME NEW D \in SUBSET Int, NEW f \in [D -> Window]
    PROVE  f \in Windows
BY DEF Windows

LEMMA IntoCounts ==
    ASSUME NEW D \in SUBSET Int, NEW f \in [D -> {0, 1}]
    PROVE  f \in Counts
BY DEF Counts

LEMMA EndType == \A s \in Int : End(s) \in Int /\ Never \in Int
BY WindowAssumption DEF End, Never

LEMMA ProcessorTypes ==
    ASSUME NEW q \in Processors
    PROVE  /\ q.watermark \in [Partition -> Int] /\ q.idle \in [Partition -> BOOLEAN]
           /\ q.rested \subseteq Partition /\ q.stream \in Int
           /\ q.windows \in Windows /\ q.initials \in Counts
           /\ DOMAIN q.windows \subseteq Int /\ DOMAIN q.initials \subseteq Int
           /\ \A s \in DOMAIN q.windows : q.windows[s] \in Window /\ End(s) \in Int
           /\ \A s \in DOMAIN q.initials : q.initials[s] \in {0, 1} /\ End(s) \in Int
<1>1. /\ q.watermark \in [Partition -> Int] /\ q.idle \in [Partition -> BOOLEAN]
      /\ q.rested \subseteq Partition /\ q.stream \in Int
      /\ q.windows \in Windows /\ q.initials \in Counts
  BY DEF Processors
<1>2. QED
  BY <1>1, WindowsType, CountsType, EndType

\* Emitting leaves the partitions and the watermark alone, and no window waits.
LEMMA EmittedKeeps ==
    ASSUME NEW q, Consistent(q)
    PROVE  Consistent(Emitted(q)) /\ Calm(Emitted(q))
<1> DEFINE due == {s \in DOMAIN q.windows : Due(q, s)}
           r == Emitted(q)
           W == [s \in DOMAIN q.windows |->
                   IF s \in due
                   THEN [q.windows[s] EXCEPT !.emitted = TRUE,
                                             !.result = q.windows[s].count]
                   ELSE q.windows[s]]
           C == [s \in DOMAIN q.initials \cup due |->
                   Count(q.initials, s) + (IF s \in due THEN 1 ELSE 0)]
<1>1. q \in Processors
  BY DEF Consistent
<1>2. r = [q EXCEPT !.windows = W, !.initials = C]
  BY DEF Emitted
<1>3. /\ r.watermark = q.watermark /\ r.idle = q.idle /\ r.rested = q.rested
      /\ r.stream = q.stream /\ r.windows = W /\ r.initials = C
  BY <1>1, <1>2 DEF Processors
<1>4. \A s \in DOMAIN q.windows :
        /\ W[s] \in Window
        /\ s \in due <=> ~q.windows[s].emitted /\ q.stream > End(s)
        /\ s \in due => W[s].emitted /\ W[s].count = W[s].result
        /\ s \notin due => W[s] = q.windows[s]
  BY <1>1, ProcessorTypes DEF Window, Due
<1>5. \A s \in due : s \in DOMAIN q.initials => q.initials[s] = 0
  BY <1>1, <1>4, ProcessorTypes DEF Consistent, EmittedPast
<1>6. \A s \in DOMAIN q.initials \cup due :
        /\ s \in due => C[s] = 1
        /\ s \notin due => s \in DOMAIN q.initials /\ C[s] = q.initials[s]
  BY <1>1, <1>5, ProcessorTypes DEF Count
<1>7. W \in Windows
  BY <1>1, <1>4, ProcessorTypes, IntoWindows
<1>8. C \in Counts
  <2>1. DOMAIN q.initials \cup due \in SUBSET Int
    BY <1>1, ProcessorTypes
  <2>2. \A s \in DOMAIN q.initials \cup due : C[s] \in {0, 1}
    BY <1>1, <1>6, ProcessorTypes
  <2>3. C \in [DOMAIN q.initials \cup due -> {0, 1}]
    BY <2>2
  <2> HIDE DEF C, due
  <2>4. QED
    BY <2>1, <2>3, IntoCounts
<1>9. DOMAIN W = DOMAIN q.windows /\ DOMAIN C = DOMAIN q.initials \cup due
  OBVIOUS
<1>10. due \subseteq DOMAIN q.windows
  OBVIOUS
<1> HIDE DEF W, C, r, due
<1>11. r \in Processors
  BY <1>1, <1>2, <1>7, <1>8 DEF Processors
<1>12. HeldBack(r)
  BY <1>3 DEF Consistent, HeldBack
<1>13. EmittedPast(r)
  <2>1. ASSUME NEW s \in DOMAIN W, W[s].emitted
        PROVE  q.stream > End(s) /\ W[s].count = W[s].result
    BY <1>4, <1>9, <2>1 DEF Consistent, EmittedPast
  <2>2. ASSUME NEW s \in DOMAIN C, C[s] = 1
        PROVE  q.stream > End(s) /\ (s \in DOMAIN W => W[s].emitted)
    <3>1. CASE s \in due
      BY <1>4, <1>10, <3>1
    <3>2. CASE s \notin due
      BY <1>4, <1>6, <1>9, <2>2, <3>2 DEF Consistent, EmittedPast
    <3>3. QED
      BY <3>1, <3>2
  <2>3. QED
    BY <1>3, <2>1, <2>2 DEF EmittedPast
<1>14. Calm(r)
  <2>1. ASSUME NEW s \in DOMAIN W
        PROVE  W[s].emitted \/ q.stream <= End(s)
    <3>1. s \in DOMAIN q.windows /\ q.stream \in Int /\ End(s) \in Int
      BY <1>1, <1>9, ProcessorTypes
    <3>2. QED
      BY <1>4, <3>1
  <2>2. QED
    BY <1>3, <2>1 DEF Calm
<1>15. QED
  BY <1>11, <1>12, <1>13, <1>14 DEF Consistent, r

\* Windows are removed only when they have been emitted.
LEMMA PurgedKeeps ==
    ASSUME NEW q, Consistent(q), Calm(q)
    PROVE  Consistent(Purged(q)) /\ Calm(Purged(q))
<1> DEFINE D == {x \in DOMAIN q.windows :
                    ~(q.windows[x].emitted /\ q.stream > End(x) + Retention)}
           W == [s \in D |-> q.windows[s]]
           r == Purged(q)
<1>1. q \in Processors
  BY DEF Consistent
<1>2. r = [q EXCEPT !.windows = W]
  BY DEF Purged
<1>3. /\ r.watermark = q.watermark /\ r.idle = q.idle /\ r.rested = q.rested
      /\ r.stream = q.stream /\ r.windows = W /\ r.initials = q.initials
  BY <1>1, <1>2 DEF Processors
<1>4. DOMAIN W = D /\ D \subseteq DOMAIN q.windows /\ \A s \in D : W[s] = q.windows[s]
  OBVIOUS
<1>5. W \in Windows
  <2>1. D \in SUBSET Int /\ W \in [D -> Window]
    BY <1>1, ProcessorTypes
  <2> HIDE DEF D, W
  <2>2. QED
    BY <2>1, IntoWindows
<1> HIDE DEF W, D, r
<1>6. r \in Processors
  BY <1>1, <1>2, <1>5 DEF Processors
<1>7. HeldBack(r)
  BY <1>3 DEF Consistent, HeldBack
<1>8. EmittedPast(r)
  BY <1>3, <1>4 DEF Consistent, EmittedPast
<1>9. Calm(r)
  BY <1>3, <1>4 DEF Calm
<1>10. QED
  BY <1>6, <1>7, <1>8, <1>9 DEF Consistent, r

\* The watermark of the stream moves up to one no partition has passed.
LEMMA AdvancedKeeps ==
    ASSUME NEW q, Consistent(q), NEW T \in Int, q.stream <= T,
           \A p \in Partition : p \notin q.rested => T <= q.watermark[p]
    PROVE  Consistent(Advanced(q, T)) /\ Calm(Advanced(q, T))
<1> DEFINE r == [q EXCEPT !.stream = T]
<1>1. q \in Processors
  BY DEF Consistent
<1>2. /\ r.watermark = q.watermark /\ r.idle = q.idle /\ r.rested = q.rested
      /\ r.stream = T /\ r.windows = q.windows /\ r.initials = q.initials
      /\ r \in Processors
  BY <1>1 DEF Processors
<1> HIDE DEF r
<1>3. HeldBack(r)
  BY <1>2 DEF Consistent, HeldBack
<1>4. EmittedPast(r)
  <2>1. \A s : End(s) \in Int /\ q.stream > End(s) => T > End(s)
    BY <1>1, ProcessorTypes
  <2>2. /\ \A s \in DOMAIN q.windows : End(s) \in Int
        /\ \A s \in DOMAIN q.initials : End(s) \in Int
    BY <1>1, ProcessorTypes
  <2>3. QED
    BY <1>2, <2>1, <2>2 DEF Consistent, EmittedPast
<1>5. Consistent(r)
  BY <1>2, <1>3, <1>4 DEF Consistent
<1>6. Advanced(q, T) = Purged(Emitted(r))
  BY DEF Advanced, r
<1>7. QED
  BY <1>5, <1>6, EmittedKeeps, PurgedKeeps

LEMMA RecomputedKeeps ==
    ASSUME NEW q, Consistent(q), Calm(q)
    PROVE  Consistent(Recomputed(q)) /\ Calm(Recomputed(q))
<1> DEFINE S == {q.watermark[p] : p \in Active(q)}
           c == Min(S)
<1>1. CASE Active(q) = {} \/ c <= q.stream
  BY <1>1 DEF Recomputed
<1>2. CASE ~ (Active(q) = {} \/ c <= q.stream)
  <2>1. q \in Processors /\ Active(q) \subseteq Partition /\ Never \in Int
    BY EndType DEF Consistent, Active
  <2>2. \A p \in Active(q) : q.watermark[p] \in Int /\ Never <= q.watermark[p]
    BY <2>1, ProcessorTypes DEF Consistent, HeldBack
  <2>3. PICK x \in S : \A y \in S : x <= y
    <3> DEFINE N == {q.watermark[p] - Never : p \in Active(q)}
    <3>1. N \in SUBSET Nat /\ N # {}
      BY <1>2, <2>1, <2>2
    <3>2. PICK m \in N : \A k \in N : m <= k
      BY <3>1, LeastNatural
    <3>3. PICK p \in Active(q) : m = q.watermark[p] - Never
      BY <3>2
    <3>4. \A o \in Active(q) : q.watermark[p] - Never <= q.watermark[o] - Never
      BY <3>2, <3>3
    <3>5. \A o \in Active(q) : q.watermark[p] <= q.watermark[o]
      BY <2>1, <2>2, <3>4
    <3>6. QED
      BY <3>5
  <2>4. S \in SUBSET Int
    BY <2>2
  <2>5. c = x
    <3> HIDE DEF S
    <3>1. QED
      BY <2>3, <2>4, MinIs
  <2>6. c \in Int /\ \A p \in Active(q) : c <= q.watermark[p]
    BY <2>3, <2>4, <2>5
  <2>7. \A p \in Partition : p \notin q.rested => p \in Active(q)
    BY DEF Consistent, HeldBack, Active
  <2>8. q.stream \in Int
    BY <2>1, ProcessorTypes
  <2>9. Recomputed(q) = Advanced(q, c)
    BY <1>2 DEF Recomputed
  <2> HIDE DEF c, S
  <2>10. q.stream <= c
    BY <1>2, <2>6, <2>8
  <2>11. QED
    BY <2>6, <2>7, <2>9, <2>10, AdvancedKeeps
<1>3. QED
  BY <1>1, <1>2

LEMMA TouchedKeeps ==
    ASSUME NEW q, Consistent(q), Calm(q), NEW p \in Partition, NEW t \in Times
    PROVE  Consistent(Touched(q, p, t)) /\ Calm(Touched(q, p, t))
<1> DEFINE w == Max({q.watermark[p], t - Lateness})
           r == [q EXCEPT !.idle[p] = FALSE, !.watermark[p] = w]
<1>1. q \in Processors /\ q.watermark[p] \in Int
  BY ProcessorTypes DEF Consistent
<1>2. w \in Int /\ q.watermark[p] <= w
  <2>1. t - Lateness \in Int
    BY WindowAssumption, PartitionNumbers
  <2>2. QED
    BY <1>1, <2>1, MaxOfTwo
<1> HIDE DEF w
<1>3. /\ r.watermark = [q.watermark EXCEPT ![p] = w]
      /\ r.idle = [q.idle EXCEPT ![p] = FALSE] /\ r.rested = q.rested
      /\ r.stream = q.stream /\ r.windows = q.windows /\ r.initials = q.initials
  BY <1>1 DEF Processors
<1>4. r \in Processors
  BY <1>1, <1>2 DEF Processors
<1>5. Touched(q, p, t) = Recomputed(r)
  BY DEF Touched, w
<1> HIDE DEF r
<1>6. ASSUME NEW o \in Partition
      PROVE  /\ Never <= r.watermark[o]
             /\ r.idle[o] => o \in q.rested
             /\ o \notin q.rested => q.stream <= r.watermark[o]
  <2>1. /\ q.watermark[o] \in Int /\ q.watermark[o] <= r.watermark[o]
        /\ r.watermark[o] \in Int
        /\ r.idle[o] => q.idle[o]
    BY <1>1, <1>2, <1>3, ProcessorTypes
  <2>2. /\ Never <= q.watermark[o]
        /\ q.idle[o] => o \in q.rested
        /\ o \notin q.rested => q.stream <= q.watermark[o]
    BY DEF Consistent, HeldBack
  <2>3. q.stream \in Int /\ Never \in Int
    BY <1>1, ProcessorTypes, EndType
  <2>4. QED
    BY <2>1, <2>2, <2>3
<1>7. HeldBack(r)
  BY <1>3, <1>6 DEF HeldBack
<1>8. EmittedPast(r) /\ Calm(r)
  BY <1>3 DEF Consistent, EmittedPast, Calm
<1>9. QED
  BY <1>4, <1>5, <1>7, <1>8, RecomputedKeeps DEF Consistent

LEMMA GoesIdleKeeps ==
    ASSUME ProcessorInv, NEW p \in Partition, GoesIdle(p)
    PROVE  ProcessorInv'
<1> DEFINE q == processor
           r == [processor EXCEPT !.idle[p] = TRUE, !.rested = @ \cup {p}]
<1>1. q \in Processors /\ Consistent(q) /\ Calm(q)
  BY DEF ProcessorInv, Consistent
<1>2. /\ r.watermark = q.watermark /\ r.idle = [q.idle EXCEPT ![p] = TRUE]
      /\ r.rested = q.rested \cup {p}
      /\ r.stream = q.stream /\ r.windows = q.windows /\ r.initials = q.initials
  BY <1>1 DEF Processors
<1>3. r \in Processors
  BY <1>1 DEF Processors
<1>4. processor' = Recomputed(r)
  BY DEF GoesIdle
<1> HIDE DEF r
<1>5. HeldBack(r)
  BY <1>1, <1>2, ProcessorTypes DEF Consistent, HeldBack
<1>6. EmittedPast(r) /\ Calm(r)
  BY <1>1, <1>2 DEF Consistent, EmittedPast, Calm
<1>7. Consistent(Recomputed(r)) /\ Calm(Recomputed(r))
  BY <1>3, <1>5, <1>6, RecomputedKeeps DEF Consistent
<1>8. \A x : processor' = x /\ Consistent(x) /\ Calm(x) => ProcessorInv'
  BY DEF ProcessorInv
<1>9. QED
  BY <1>4, <1>7, <1>8

\* A record joins the windows open to it, none of which has been emitted, and
\* corrects count and result of the others alike.
LEMMA JoinedKeeps ==
    ASSUME NEW q, Consistent(q), NEW starts \in SUBSET Int
    PROVE  Consistent(Joined(q, starts))
<1> DEFINE open == {x \in starts : Open(q, x)}
           W == [s \in DOMAIN q.windows \cup open |->
                    IF s \notin starts THEN q.windows[s]
                    ELSE IF Open(q, s) THEN Added(q, s) ELSE Corrected(q, s)]
           r == Joined(q, starts)
<1>1. q \in Processors
  BY DEF Consistent
<1>2. r = [q EXCEPT !.windows = W]
  BY DEF Joined
<1>3. /\ r.watermark = q.watermark /\ r.idle = q.idle /\ r.rested = q.rested
      /\ r.stream = q.stream /\ r.windows = W /\ r.initials = q.initials
  BY <1>1, <1>2 DEF Processors
<1>4. \A s \in open : ~(q.stream > End(s))
  BY <1>1, ProcessorTypes, EndType DEF Open
<1>5. ASSUME NEW s \in DOMAIN q.windows \cup open
      PROVE  /\ W[s] \in Window
             /\ W[s].emitted => q.stream > End(s) /\ W[s].count = W[s].result
             /\ s \in DOMAIN q.windows /\ q.windows[s].emitted => W[s].emitted
  <2>1. CASE s \notin starts
    <3>1. s \in DOMAIN q.windows /\ W[s] = q.windows[s]
      BY <2>1
    <3>2. QED
      BY <1>1, <3>1, ProcessorTypes DEF Consistent, EmittedPast
  <2>2. CASE s \in open
    <3>1. W[s] = Added(q, s) /\ ~ (q.stream > End(s))
      BY <1>4, <2>2
    <3>2. /\ WindowAt(q, s) \in Window /\ ~ WindowAt(q, s).emitted
          /\ s \in DOMAIN q.windows => ~ q.windows[s].emitted
      BY <1>1, <3>1, ProcessorTypes DEF Consistent, EmittedPast, WindowAt, Window
    <3>3. Added(q, s) \in Window /\ ~ Added(q, s).emitted
      BY <3>2 DEF Added, Window
    <3>4. QED
      BY <3>1, <3>2, <3>3
  <2>3. CASE s \in starts /\ s \notin open
    <3>1. s \in DOMAIN q.windows /\ W[s] = Corrected(q, s)
      BY <2>3
    <3>2. /\ q.windows[s] \in Window
          /\ q.windows[s].emitted =>
                q.stream > End(s) /\ q.windows[s].count = q.windows[s].result
      BY <1>1, <3>1, ProcessorTypes DEF Consistent, EmittedPast
    <3>3. /\ Corrected(q, s) \in Window
          /\ Corrected(q, s).emitted = q.windows[s].emitted
          /\ Corrected(q, s).emitted => Corrected(q, s).count = Corrected(q, s).result
      <4> DEFINE w == q.windows[s]
      <4>1. w \in Window /\ w.count \in Nat /\ w.result \in Nat
        BY <3>2 DEF Window
      <4>2. CASE LatePolicy = Update /\ w.emitted
        <5>1. Corrected(q, s) = [w EXCEPT !.count = w.count + 1, !.result = w.result + 1]
          BY <4>2 DEF Corrected
        <5> HIDE DEF w
        <5>2. Corrected(q, s) = [count |-> w.count + 1, emitted |-> w.emitted,
                                 result |-> w.result + 1]
          BY <4>1, <5>1 DEF Window
        <5>3. w.emitted \in BOOLEAN /\ w.count + 1 \in Nat /\ w.result + 1 \in Nat
          BY <4>1 DEF Window
        <5>4. Corrected(q, s) \in Window
          BY <5>2, <5>3 DEF Window
        <5>5. /\ Corrected(q, s).emitted = w.emitted
              /\ Corrected(q, s).count = w.count + 1
              /\ Corrected(q, s).result = w.result + 1
          BY <5>2
        <5>6. QED
          BY <3>2, <4>2, <5>4, <5>5 DEF w
      <4>3. CASE ~ (LatePolicy = Update /\ w.emitted)
        BY <3>2, <4>3 DEF Corrected
      <4>4. QED
        BY <4>2, <4>3
    <3>4. QED
      BY <3>1, <3>2, <3>3
  <2>4. QED
    BY <2>1, <2>2, <2>3
<1>6. DOMAIN W = DOMAIN q.windows \cup open
  OBVIOUS
<1>7. W \in Windows
  <2>1. DOMAIN q.windows \cup open \in SUBSET Int
    BY <1>1, ProcessorTypes
  <2>2. W \in [DOMAIN q.windows \cup open -> Window]
    BY <1>5
  <2> HIDE DEF W, open
  <2>3. QED
    BY <2>1, <2>2, IntoWindows
<1> HIDE DEF W, r, open
<1>8. r \in Processors
  BY <1>1, <1>2, <1>7 DEF Processors
<1>9. HeldBack(r)
  BY <1>3 DEF Consistent, HeldBack
<1>10. EmittedPast(r)
  <2>1. ASSUME NEW s \in DOMAIN q.initials, q.initials[s] = 1
        PROVE  q.stream > End(s) /\ (s \in DOMAIN W => W[s].emitted)
    <3>1. q.stream > End(s) /\ (s \in DOMAIN q.windows => q.windows[s].emitted)
      BY <2>1 DEF Consistent, EmittedPast
    <3>2. s \notin open
      BY <1>4, <3>1
    <3>3. QED
      BY <1>5, <1>6, <3>1, <3>2
  <2>2. QED
    BY <1>3, <1>5, <1>6, <2>1 DEF EmittedPast
<1>11. QED
  BY <1>8, <1>9, <1>10 DEF Consistent, r

LEMMA IngestedKeeps ==
    ASSUME NEW q, Consistent(q), Calm(q), NEW p \in Partition, NEW t \in Times
    PROVE  Consistent(Ingested(q, p, t)) /\ Calm(Ingested(q, p, t))
<1>1. Consistent(Touched(q, p, t))
  BY TouchedKeeps
<1>2. StartsOf(t) \subseteq Int
  BY DEF StartsOf
<1>3. Consistent(Joined(Touched(q, p, t), StartsOf(t)))
  BY <1>1, <1>2, JoinedKeeps
<1>4. QED
  BY <1>3, EmittedKeeps, PurgedKeeps DEF Ingested

\* The time of the n-th record of a batch, in the log.
TimeOf(b, n) == records[b[n][1]][b[n][2] + 1]

\* A batch that is in the log leaves the processor consistent, record by record.
LEMMA IngestedAllKeeps ==
    ASSUME LogTypeOK, ProcessorInv, NEW b, Committable(b)
    PROVE  Consistent(IngestedAll(b)) /\ Calm(IngestedAll(b))
<1> DEFINE N == Len(b)
           after == CHOOSE f : f = [n \in 0..N |->
                       IF n = 0 THEN processor
                       ELSE Ingested(f[n - 1], b[n][1], records[b[n][1]][b[n][2] + 1])]
           V == {q \in Processors : Consistent(q) /\ Calm(q)}
           step == [x \in (1..N) \X V |-> Ingested(x[2], b[x[1]][1], TimeOf(b, x[1]))]
<1>1. IngestedAll(b) = after[N]
  BY DEF IngestedAll
<1>2. N \in Nat
  BY DEF Committable
<1>3. processor \in V
  BY DEF ProcessorInv, Consistent
<1>4. ASSUME NEW n \in 1..N, NEW q \in V
      PROVE  Ingested(q, b[n][1], TimeOf(b, n)) \in V
  <2>1. b[n] \in Place /\ b[n] \in ToSet(b)
    BY DEF Committable, ToSet
  <2>2. b[n][1] \in Partition /\ b[n][2] \in Nat /\ b[n][2] < nextOffset(b[n][1])
    BY <2>1 DEF Place, Committable
  <2>3. records[b[n][1]] \in Seq(Times) /\ nextOffset(b[n][1]) = Len(records[b[n][1]])
    BY <2>2, LogTypes DEF nextOffset
  <2>4. b[n][2] + 1 \in 1..Len(records[b[n][1]])
    BY <2>2, <2>3
  <2>5. TimeOf(b, n) \in Times
    BY <2>3, <2>4 DEF TimeOf
  <2>6. Consistent(q) /\ Calm(q)
    OBVIOUS
  <2>7. /\ Consistent(Ingested(q, b[n][1], TimeOf(b, n)))
        /\ Calm(Ingested(q, b[n][1], TimeOf(b, n)))
    BY <2>2, <2>5, <2>6, IngestedKeeps
  <2>8. QED
    BY <2>7 DEF Consistent
<1> HIDE DEF V
<1>5. PICK f : Recurs(f, N, processor, step)
  <2> HIDE DEF step, N
  <2>1. QED
    BY <1>2, Recursion
<1>6. ASSUME NEW n \in 1..N, f[n - 1] \in V
      PROVE  f[n] = Ingested(f[n - 1], b[n][1], TimeOf(b, n))
  <2>1. f[n] = step[<<n, f[n - 1]>>]
    <3> HIDE DEF step
    <3>1. QED
      BY <1>5 DEF Recurs
  <2>2. step[<<n, f[n - 1]>>] = Ingested(f[n - 1], b[n][1], TimeOf(b, n))
    BY <1>6
  <2>3. QED
    BY <2>1, <2>2
<1>7. f[0] = processor
  BY <1>5 DEF Recurs
<1> HIDE DEF step
<1>8. \A n \in 0..N : f[n] \in V
  <2> DEFINE T == {n \in 0..N : f[n] \in V}
  <2>1. 0 \in T
    BY <1>2, <1>3, <1>7
  <2>2. ASSUME NEW n \in 1..N, n - 1 \in T
        PROVE  n \in T
    <3>1. f[n] \in V
      BY <1>4, <1>6, <2>2
    <3>2. n \in 0..N
      BY <1>2
    <3>3. QED
      BY <3>1, <3>2
  <2> HIDE DEF T, N
  <2>3. \A n \in 0..N : n \in T
    BY <1>2, <2>1, <2>2, Inductive
  <2>4. QED
    BY <2>3 DEF T
<1> DEFINE g == [n \in 0..N |-> f[n]]
<1>9. g = [n \in 0..N |-> IF n = 0 THEN processor
             ELSE Ingested(g[n - 1], b[n][1], records[b[n][1]][b[n][2] + 1])]
  <2>1. ASSUME NEW n \in 0..N
        PROVE  g[n] = IF n = 0 THEN processor
                      ELSE Ingested(g[n - 1], b[n][1], records[b[n][1]][b[n][2] + 1])
    <3>1. CASE n = 0
      BY <1>7, <3>1
    <3>2. CASE n # 0
      <4>1. n \in 1..N /\ n - 1 \in 0..N
        BY <1>2, <3>2
      <4>2. g[n - 1] = f[n - 1] /\ f[n - 1] \in V /\ g[n] = f[n]
        BY <1>8, <4>1
      <4>3. f[n] = Ingested(f[n - 1], b[n][1], TimeOf(b, n))
        BY <1>6, <4>1, <4>2
      <4> HIDE DEF g
      <4>4. QED
        BY <3>2, <4>2, <4>3 DEF TimeOf
    <3>3. QED
      BY <3>1, <3>2
  <2>2. \A n \in 0..N : g[n] = IF n = 0 THEN processor
          ELSE Ingested(g[n - 1], b[n][1], records[b[n][1]][b[n][2] + 1])
    <3> HIDE DEF g
    <3>1. QED
      BY <2>1
  <2>3. QED
    BY <2>2, Zenon
<1>10. after = [n \in 0..N |-> IF n = 0 THEN processor
             ELSE Ingested(after[n - 1], b[n][1], records[b[n][1]][b[n][2] + 1])]
  <2> HIDE DEF g
  <2>1. QED
    BY <1>9
<1> HIDE DEF after
<1>11. \A n \in 0..N : after[n] \in V
  <2> DEFINE T == {n \in 0..N : after[n] \in V}
  <2>1. 0 \in T
    BY <1>2, <1>3, <1>10
  <2>2. ASSUME NEW n \in 1..N, n - 1 \in T
        PROVE  n \in T
    <3>1. n \in 0..N /\ n # 0
      BY <1>2
    <3>2. after[n] = Ingested(after[n - 1], b[n][1], TimeOf(b, n))
      BY <1>10, <3>1 DEF TimeOf
    <3>3. after[n] \in V
      BY <1>4, <2>2, <3>2
    <3>4. QED
      BY <3>1, <3>3
  <2> HIDE DEF T, N
  <2>3. \A n \in 0..N : n \in T
    BY <1>2, <2>1, <2>2, Inductive
  <2>4. QED
    BY <2>3 DEF T
<1>12. after[N] \in V
  BY <1>2, <1>11
<1>13. QED
  BY <1>1, <1>12 DEF V

-----------------------------------------------------------------------------
\* The two together

StreamInv == LogInv /\ ProcessorInv

LEMMA StreamInitInv == Init => StreamInv
<1>1. SUFFICES ASSUME Init PROVE StreamInv
  OBVIOUS
<1>2. /\ processor.watermark = [p \in Partition |-> Never]
      /\ processor.idle = [p \in Partition |-> FALSE]
      /\ processor.rested = {} /\ processor.stream = Never
      /\ processor.windows = <<>> /\ processor.initials = <<>>
      /\ processor = [watermark |-> processor.watermark, idle |-> processor.idle,
                      rested |-> processor.rested, stream |-> processor.stream,
                      windows |-> processor.windows, initials |-> processor.initials]
  BY <1>1 DEF Init, ProcessorInit
<1>3. Never \in Int
  BY EndType
<1>4. DOMAIN processor.windows = {} /\ DOMAIN processor.initials = {}
  BY <1>2
<1>5. processor.windows \in Windows /\ processor.initials \in Counts
  <2>1. <<>> \in [{} -> Window] /\ <<>> \in [{} -> {0, 1}]
    OBVIOUS
  <2>2. QED
    BY <1>2, <2>1, IntoWindows, IntoCounts
<1>6. processor \in Processors
  <2>1. /\ processor.watermark \in [Partition -> Int]
        /\ processor.idle \in [Partition -> BOOLEAN]
        /\ processor.rested \in SUBSET Partition /\ processor.stream \in Int
    BY <1>2, <1>3
  <2> HIDE <1>1
  <2>2. QED
    BY <1>2, <1>5, <2>1 DEF Processors
<1>7. HeldBack(processor)
  BY <1>2, <1>3 DEF HeldBack
<1>8. EmittedPast(processor) /\ Calm(processor)
  BY <1>4 DEF EmittedPast, Calm
<1>9. QED
  BY <1>1, <1>6, <1>7, <1>8, LogInitInv DEF Init, StreamInv, ProcessorInv, Consistent

\* What the handler does with a batch, or with the first records of it.
LEMMA HandlerKeeps ==
    ASSUME LogInv, ProcessorInv, NEW b \in held,
           NEW c, c = b \/ \E n \in 0..Len(b) : c = SubSeq(b, 1, n),
           processor' = IngestedAll(c)
    PROVE  ProcessorInv'
<1>1. LogTypeOK /\ b \in Seq(Place) /\ Within(b)
  BY LogTypes DEF LogInv
<1>2. c \in Seq(Place) /\ ToSet(c) \subseteq ToSet(b)
  <2>1. CASE c = b
    BY <1>1, <2>1
  <2>2. ASSUME NEW n \in 0..Len(b), c = SubSeq(b, 1, n)
        PROVE  c \in Seq(Place) /\ ToSet(c) \subseteq ToSet(b)
    <3>1. c \in Seq(Place) /\ Len(c) = n /\ \A k \in 1..n : c[k] = b[k]
      BY <1>1, <2>2
    <3>2. \A k \in 1..n : k \in 1..Len(b)
      BY <1>1
    <3>3. QED
      BY <1>1, <3>1, <3>2 DEF ToSet
  <2>3. QED
    BY <2>1, <2>2
<1>3. Committable(c)
  BY <1>1, <1>2 DEF Committable, Within
<1>4. Consistent(IngestedAll(c)) /\ Calm(IngestedAll(c))
  BY <1>1, <1>3, IngestedAllKeeps
<1>5. \A x : processor' = x /\ Consistent(x) /\ Calm(x) => ProcessorInv'
  BY DEF ProcessorInv
<1>6. QED
  BY <1>4, <1>5

LEMMA SameProcessor ==
    ASSUME ProcessorInv, processor' = processor
    PROVE  ProcessorInv'
<1>1. \A x : processor' = x /\ Consistent(x) /\ Calm(x) => ProcessorInv'
  BY DEF ProcessorInv
<1>2. QED
  BY <1>1 DEF ProcessorInv

LEMMA SameLog ==
    ASSUME LogInv, UNCHANGED logVars
    PROVE  LogInv'
<1>1. /\ records' = records /\ baseOffset' = baseOffset /\ delivery' = delivery
      /\ generation' = generation /\ positions' = positions
      /\ committed' = committed /\ effects' = effects /\ held' = held
      /\ delivered' = delivered /\ failures' = failures
  BY DEF logVars, topicVars, offsetVars
<1>2. LogTypeOK'
  BY <1>1 DEF LogInv, LogTypeOK, nextOffset
<1>3. (NoCommittedRefetch /\ NothingPassedOver /\ EffectsWithOffsets)'
  BY <1>1 DEF LogInv, NoCommittedRefetch, NothingPassedOver, EffectsWithOffsets
<1>4. \A b \in held' : Within(b)'
  BY <1>1 DEF LogInv, Within, nextOffset
<1>5. QED
  BY <1>2, <1>3, <1>4 DEF LogInv

LEMMA LogStepInv ==
    ASSUME StreamInv, LogStep
    PROVE  StreamInv'
<1>1. LogInv /\ LogTypeOK /\ PollSize \in Nat
  BY PartitionNumbers DEF StreamInv, LogInv
<1>2. ASSUME NEW p \in Partition, NEW t \in Times, AppendRecord(p, t)
      PROVE  LogInv'
  BY <1>1, <1>2, AppendInv
<1>3. ASSUME Rebalance
      PROVE  LogInv'
  <2>1. /\ positions' = committed /\ generation' = generation + 1 /\ failures' = failures
        /\ UNCHANGED <<topicVars, delivery, committed, delivered>>
        /\ held' \subseteq held /\ effects' = effects
    BY <1>3 DEF Rebalance
  <2>2. generation' \in Nat /\ failures' \in Nat /\ effects' \subseteq Place
    BY <1>1, <2>1 DEF LogTypeOK
  <2>3. QED
    BY <1>1, <2>1, <2>2, RewindInv
<1>4. ASSUME Poll(PollSize)
      PROVE  LogInv'
  <2>1. PICK b : b = Fetched(PollSize)
    OBVIOUS
  <2>2. Fetch(PollSize) /\ held' \subseteq held \cup {b}
    BY <1>4, <2>1 DEF Poll
  <2>3. QED
    BY <1>1, <2>1, <2>2, FetchInv
<1>5. ASSUME PollThrows(PollSize)
      PROVE  LogInv'
  <2>1. PICK b : b = Fetched(PollSize)
    OBVIOUS
  <2>2. Fetch(PollSize) /\ held' \subseteq held \cup {b}
    BY <1>5 DEF PollThrows
  <2>3. QED
    BY <1>1, <2>1, <2>2, FetchInv
<1>6. ASSUME NEW b \in held, Commit(b)
      PROVE  LogInv'
  BY <1>1, <1>6, CommitInv DEF Commit
<1>7. LogInv'
  <2>1. \/ \E p \in Partition, t \in Times : AppendRecord(p, t)
        \/ Rebalance
        \/ Poll(PollSize)
        \/ PollThrows(PollSize)
        \/ \E b \in held : Commit(b)
    BY DEF LogStep
  <2>2. QED
    BY <1>2, <1>3, <1>4, <1>5, <1>6, <2>1
<1>8. ProcessorInv'
  BY SameProcessor DEF StreamInv, LogStep
<1>9. QED
  BY <1>7, <1>8 DEF StreamInv

LEMMA ProcessStepInv ==
    ASSUME StreamInv, ProcessStep
    PROVE  StreamInv'
<1>1. LogInv /\ LogTypeOK /\ ProcessorInv
  BY DEF StreamInv, LogInv
<1>2. ASSUME NEW b \in held, Process(b), processor' = IngestedAll(b)
      PROVE  StreamInv'
  <2>1. LogInv'
    BY <1>1, <1>2, CommitInv DEF Process
  <2>2. ProcessorInv'
    BY <1>1, <1>2, HandlerKeeps
  <2>3. QED
    BY <2>1, <2>2 DEF StreamInv
<1>3. ASSUME NEW b \in held, NEW n \in 0..Len(b), ProcessAborts(b, n)
      PROVE  LogInv'
  <2>1. /\ positions' = committed /\ generation' = generation /\ failures' = failures + 1
        /\ UNCHANGED <<topicVars, delivery, committed, delivered>>
        /\ held' \subseteq held
        /\ effects' = effects \cup VisibleEarly(ToSet(SubSeq(b, 1, n)))
    BY <1>3 DEF ProcessAborts
  <2>2. ToSet(SubSeq(b, 1, n)) \subseteq Place
    <3>1. b \in Seq(Place)
      BY <1>1, LogTypes
    <3>2. SubSeq(b, 1, n) \in Seq(Place)
      BY <3>1
    <3>3. QED
      BY <3>2, ElementType
  <2>3. effects' \subseteq Place /\ (delivery = ExactlyOnce => effects' = effects)
    BY <1>1, <2>1, <2>2 DEF VisibleEarly, LogTypeOK
  <2>4. generation' \in Nat /\ failures' \in Nat
    BY <1>1, <2>1 DEF LogTypeOK
  <2>5. QED
    BY <1>1, <2>1, <2>3, <2>4, RewindInv
<1>4. ASSUME NEW b \in held, NEW n \in 0..Len(b),
             ProcessAborts(b, n) \/ HandlerThrows(b, n),
             processor' = IngestedAll(SubSeq(b, 1, n))
      PROVE  StreamInv'
  <2>1. LogInv'
    BY <1>1, <1>3, <1>4, HandlerThrowsInv
  <2>2. PICK c : c = SubSeq(b, 1, n)
    OBVIOUS
  <2>3. processor' = IngestedAll(c) /\ \E k \in 0..Len(b) : c = SubSeq(b, 1, k)
    BY <1>4, <2>2
  <2>4. ProcessorInv'
    BY <1>1, <2>3, HandlerKeeps
  <2>5. QED
    BY <2>1, <2>4 DEF StreamInv
<1>5. QED
  BY <1>2, <1>4 DEF ProcessStep

LEMMA StreamStepInv ==
    ASSUME StreamInv, [Next]_vars
    PROVE  StreamInv'
<1>1. CASE LogStep
  BY <1>1, LogStepInv
<1>2. CASE ProcessStep
  BY <1>2, ProcessStepInv
<1>3. CASE TimerStep
  <2>1. PICK p \in Partition : GoesIdle(p)
    BY <1>3 DEF TimerStep
  <2>2. ProcessorInv'
    BY <2>1, GoesIdleKeeps DEF StreamInv
  <2>3. LogInv'
    BY <1>3, SameLog DEF TimerStep, StreamInv
  <2>4. QED
    BY <2>2, <2>3 DEF StreamInv
<1>4. CASE UNCHANGED vars
  <2>1. UNCHANGED logVars /\ processor' = processor
    BY <1>4 DEF vars
  <2>2. QED
    BY <2>1, SameLog, SameProcessor DEF StreamInv
<1>5. QED
  BY <1>1, <1>2, <1>3, <1>4 DEF Next

LEMMA StreamInvariant == Spec => []StreamInv
BY StreamInitInv, StreamStepInv, PTL DEF Spec

-----------------------------------------------------------------------------
\* The theorems

\* The records, offsets, batches and windows are what the code can store, and
\* no position is past the end of its partition.
THEOREM StreamTypeCorrect == Spec => []TypeOK
<1>1. StreamInv => TypeOK
  <2>1. SUFFICES ASSUME StreamInv PROVE TypeOK
    OBVIOUS
  <2>2. processor \in Processors
    BY <2>1 DEF StreamInv, ProcessorInv, Consistent
  <2>3. ProcessorTypeOK
    BY <2>2, ProcessorTypes DEF ProcessorTypeOK
  <2>4. QED
    BY <2>1, <2>3 DEF StreamInv, LogInv, TypeOK
<1>2. QED
  BY <1>1, StreamInvariant, PTL

\* However late a batch of an earlier generation is committed, no committed
\* record is fetched again.
THEOREM CommittedNotRefetched == Spec => []NoCommittedRefetch
<1>1. StreamInv => NoCommittedRefetch
  BY DEF StreamInv, LogInv
<1>2. QED
  BY <1>1, StreamInvariant, PTL

\* Rebalances, truncation and commits out of order make no poll pass over a
\* record that none has read.
THEOREM NothingSkipped == Spec => []NothingPassedOver
<1>1. StreamInv => NothingPassedOver
  BY DEF StreamInv, LogInv
<1>2. QED
  BY <1>1, StreamInvariant, PTL

\* In an exactly-once group an effect is visible only with a committed offset
\* that covers it.
THEOREM EffectsCovered == Spec => []EffectsWithOffsets
<1>1. StreamInv => EffectsWithOffsets
  BY DEF StreamInv, LogInv
<1>2. QED
  BY <1>1, StreamInvariant, PTL

\* The stream's watermark waits for every partition that was never idle.
THEOREM SlowestHolds == Spec => []SlowestHoldsBack
<1>1. StreamInv => SlowestHoldsBack
  BY DEF StreamInv, ProcessorInv, Consistent, HeldBack, SlowestHoldsBack
<1>2. QED
  BY <1>1, StreamInvariant, PTL

\* No window the watermark has passed is left without its emission.
THEOREM NoneLeftBehind == Spec => []NoWindowLeftBehind
<1>1. StreamInv => NoWindowLeftBehind
  BY DEF StreamInv, ProcessorInv, Calm, NoWindowLeftBehind
<1>2. QED
  BY <1>1, StreamInvariant, PTL

\* An emitted window holds exactly the records of its last result.
THEOREM ResultsStand == Spec => []ResultStands
<1>1. StreamInv => ResultStands
  BY DEF StreamInv, ProcessorInv, Consistent, EmittedPast, ResultStands
<1>2. QED
  BY <1>1, StreamInvariant, PTL

\* A window has one initial emission, ever.
THEOREM OneEmission == Spec => []EmittedOnce
<1>1. StreamInv => EmittedOnce
  <2>1. SUFFICES ASSUME StreamInv PROVE EmittedOnce
    OBVIOUS
  <2>2. processor \in Processors
    BY <2>1 DEF StreamInv, ProcessorInv, Consistent
  <2>3. \A s \in DOMAIN processor.initials : processor.initials[s] \in {0, 1}
    BY <2>2, ProcessorTypes
  <2>4. QED
    BY <2>3 DEF EmittedOnce
<1>2. QED
  BY <1>1, StreamInvariant, PTL

=============================================================================
