---------------------------- MODULE RaftLogProofs ----------------------------
(***************************************************************************)
(* What the operators of RaftLog return, for logs over any set of entries  *)
(* that have a term.                                                       *)
(***************************************************************************)
EXTENDS RaftLog, SequenceTheorems, WellFoundedInduction, TLAPS

\* A set of entries: records, or anything else with a term.
Terms(E) == \A e \in E : e.term \in Nat

-----------------------------------------------------------------------------
\* A non-empty set of naturals has a least element.
LEMMA LeastNatural ==
    ASSUME NEW S \in SUBSET Nat, S # {}
    PROVE  \E m \in S : \A k \in S : m <= k
<1>1. \E m \in S : \A k \in S : ~ (<<k, m>> \in OpToRel(<, Nat))
  BY NatLessThanWellFounded, WFMin
<1>2. PICK m \in S : \A k \in S : ~ (<<k, m>> \in OpToRel(<, Nat))
  BY <1>1
<1>3. \A k \in S : k \in Nat /\ m \in Nat /\ ~ (k < m)
  BY <1>2 DEF OpToRel
<1>4. \A k \in S : m <= k
  BY <1>3
<1>5. QED
  BY <1>4

\* A non-empty set of naturals with an upper bound has a greatest element.
LEMMA GreatestNatural ==
    ASSUME NEW n \in Nat, NEW S \in SUBSET (0..n), S # {}
    PROVE  \E m \in S : \A k \in S : k <= m
<1> DEFINE T == {n - k : k \in S}
<1>1. T \in SUBSET Nat /\ T # {}
  <2>1. \A k \in S : k \in Int /\ n - k \in Nat
    OBVIOUS
  <2>2. QED
    BY <2>1
<1>2. PICK t \in T : \A u \in T : t <= u
  BY <1>1, LeastNatural
<1>3. PICK m \in S : t = n - m
  BY <1>2
<1>4. \A k \in S : n - m <= n - k
  BY <1>2, <1>3
<1>5. QED
  BY <1>4

-----------------------------------------------------------------------------
\* Math.min and Math.max of the handlers return one of their arguments.
LEMMA SmallerLarger ==
    ASSUME NEW a \in Int, NEW b \in Int
    PROVE  /\ Smaller(a, b) \in {a, b} /\ Smaller(a, b) <= a /\ Smaller(a, b) <= b
           /\ Larger(a, b) \in {a, b} /\ Larger(a, b) >= a /\ Larger(a, b) >= b
BY DEF Smaller, Larger

\* The term before any position of a log is a term, 0 before the first.
LEMMA TermAtType ==
    ASSUME NEW E, Terms(E), NEW l \in Seq(E), NEW k \in 0..Len(l)
    PROVE  TermAt(l, k) \in Nat
BY DEF TermAt, Terms

\* A batch consists of entries of the log.
LEMMA BatchType ==
    ASSUME NEW E, NEW l \in Seq(E), NEW next \in 1..(Len(l) + 1),
           NEW max \in Nat \ {0}
    PROVE  Batch(l, next, max) \in Seq(E)
<1> DEFINE last == Smaller(Len(l), next + max - 1)
<1>1. last \in Int /\ last <= Len(l)
  BY SmallerLarger
<1>2. \A k \in next..last : l[k] \in E
  BY <1>1
<1>3. QED
  BY <1>1, <1>2, SubSeqProperties DEF Batch

-----------------------------------------------------------------------------
\* The merge keeps everything up to prev, and nothing the log does not have.
LEMMA KeptRange ==
    ASSUME NEW E, NEW l \in Seq(E), NEW prev \in 0..Len(l), NEW es \in Seq(E)
    PROVE  Kept(l, prev, es) \in prev..Len(l)
<1> DEFINE clashes == Clashes(l, prev, es)
<1>1. CASE clashes = {}
  BY <1>1 DEF Kept
<1>2. CASE clashes # {}
  <2>1. clashes \in SUBSET Nat
    BY DEF Clashes
  <2>2. \E k \in clashes : \A m \in clashes : k <= m
    BY <1>2, <2>1, LeastNatural
  <2>3. PICK k \in clashes : k = CHOOSE c \in clashes : \A m \in clashes : c <= m
    BY <2>2
  <2>4. k \in 1..Len(es) /\ prev + k <= Len(l)
    BY DEF Clashes
  <2>5. Kept(l, prev, es) = prev + k - 1
    BY <1>2, <2>3 DEF Kept
  <2>6. QED
    BY <2>4, <2>5
<1>3. QED
  BY <1>1, <1>2

\* The merge returns a log.
LEMMA MergeType ==
    ASSUME NEW E, NEW l \in Seq(E), NEW prev \in 0..Len(l), NEW es \in Seq(E)
    PROVE  Merge(l, prev, es) \in Seq(E)
<1> DEFINE kept == Kept(l, prev, es)
<1>1. kept \in prev..Len(l)
  BY KeptRange
<1>2. SubSeq(l, 1, kept) \in Seq(E)
  BY <1>1, SubSeqProperties
<1>3. SubSeq(es, kept - prev + 1, Len(es)) \in Seq(E)
  <2>1. \A k \in (kept - prev + 1)..Len(es) : es[k] \in E
    BY <1>1
  <2>2. QED
    BY <1>1, <2>1, SubSeqProperties
<1>4. QED
  BY <1>2, <1>3, ConcatProperties DEF Merge

\* The hint is an index of the follower's log, or the next one.
LEMMA ConflictHintType ==
    ASSUME NEW E, Terms(E), NEW l \in Seq(E), NEW prev \in Nat \ {0}
    PROVE  ConflictHint(l, prev) \in Nat \ {0}
<1>1. CASE prev > Len(l)
  BY <1>1 DEF ConflictHint
<1>2. CASE prev <= Len(l)
  <2> DEFINE Run(k) == \A m \in k..prev : l[m].term = l[prev].term
             S == {k \in 1..prev : Run(k)}
  <2>1. S \in SUBSET Nat /\ prev \in S
    OBVIOUS
  <2>2. PICK k \in S : \A m \in S : k <= m
    BY <2>1, LeastNatural
  <2>3. k = 1 \/ l[k - 1].term # l[prev].term
    <3>1. SUFFICES ASSUME k # 1, l[k - 1].term = l[prev].term
                   PROVE  FALSE
      OBVIOUS
    <3>2. k - 1 \in 1..prev /\ \A m \in (k - 1)..prev : m = k - 1 \/ m \in k..prev
      BY <3>1
    <3>3. k - 1 \in S
      BY <3>1, <3>2
    <3>4. QED
      BY <2>2, <3>3
  <2> DEFINE First(j) == /\ \A m \in j..prev : l[m].term = l[prev].term
                         /\ j = 1 \/ l[j - 1].term # l[prev].term
             hint == CHOOSE j \in 1..prev : First(j)
  <2>4. \E j \in 1..prev : First(j)
    BY <2>2, <2>3
  <2>5. hint \in 1..prev
    <3> HIDE DEF First
    <3>1. QED
      BY <2>4
  <2>6. ConflictHint(l, prev) = hint
    <3>1. ~ (prev > Len(l))
      BY <1>2
    <3>2. QED
      BY ONLY <3>1 DEF ConflictHint
  <2> HIDE DEF hint
  <2>7. QED
    BY <2>5, <2>6
<1>3. QED
  BY <1>1, <1>2

-----------------------------------------------------------------------------
(***************************************************************************)
(* Two logs that agree up to a position, and what the merge of a piece of  *)
(* one log into another leaves of both.                                    *)
(***************************************************************************)
Agree(s, l, k) == k <= Len(s) /\ k <= Len(l) /\ \A n \in 1..k : s[n] = l[n]

\* Agreement is symmetric and transitive, and holds up to shorter positions.
LEMMA AgreeSym ==
    ASSUME NEW s, NEW l, NEW k, Agree(s, l, k)
    PROVE  Agree(l, s, k)
BY DEF Agree

LEMMA AgreeTrans ==
    ASSUME NEW s, NEW l, NEW r, NEW k, Agree(s, l, k), Agree(l, r, k)
    PROVE  Agree(s, r, k)
BY DEF Agree

LEMMA AgreeLess ==
    ASSUME NEW E, NEW s \in Seq(E), NEW l \in Seq(E), NEW k \in Nat,
           NEW m \in Nat, m <= k, Agree(s, l, k)
    PROVE  Agree(s, l, m)
BY DEF Agree

LEMMA AgreeSelf ==
    ASSUME NEW E, NEW l \in Seq(E), NEW k \in Nat, k <= Len(l)
    PROVE  Agree(l, l, k)
BY DEF Agree

\* An appended entry leaves the log before it as it was.
LEMMA AppendAgrees ==
    ASSUME NEW E, NEW l \in Seq(E), NEW e \in E
    PROVE  /\ Append(l, e) \in Seq(E) /\ Len(Append(l, e)) = Len(l) + 1
           /\ Append(l, e)[Len(l) + 1] = e
           /\ Agree(Append(l, e), l, Len(l))
BY AppendProperties DEF Agree

\* What a crash leaves of a log is the log up to a position.
LEMMA PrefixAgrees ==
    ASSUME NEW E, NEW l \in Seq(E), NEW k \in 0..Len(l)
    PROVE  /\ SubSeq(l, 1, k) \in Seq(E) /\ Len(SubSeq(l, 1, k)) = k
           /\ Agree(SubSeq(l, 1, k), l, k)
<1>1. \A n \in 1..k : l[n] \in E
  OBVIOUS
<1>2. QED
  BY <1>1, SubSeqProperties DEF Agree

\* Logs that agree on their first k entries have the same prefix.
LEMMA AgreePrefix ==
    ASSUME NEW E, NEW l \in Seq(E), NEW c \in Seq(E), NEW k \in Nat,
           Agree(l, c, k)
    PROVE  SubSeq(l, 1, k) = SubSeq(c, 1, k)
<1>1. k \in 0..Len(l) /\ k \in 0..Len(c)
  BY DEF Agree
<1>2. /\ SubSeq(l, 1, k) \in Seq(E) /\ Len(SubSeq(l, 1, k)) = k
      /\ Agree(SubSeq(l, 1, k), l, k)
  BY <1>1, PrefixAgrees
<1>3. /\ SubSeq(c, 1, k) \in Seq(E) /\ Len(SubSeq(c, 1, k)) = k
      /\ Agree(SubSeq(c, 1, k), c, k)
  BY <1>1, PrefixAgrees
<1> DEFINE a == SubSeq(l, 1, k)
           b == SubSeq(c, 1, k)
<1> HIDE DEF a, b
<1>4. \A n \in 1..k : a[n] = b[n]
  BY <1>2, <1>3 DEF Agree, a, b
<1>5. a = b
  BY <1>2, <1>3, <1>4 DEF a, b
<1>6. QED
  BY <1>5 DEF a, b

\* A batch is a piece of its log.
LEMMA BatchPiece ==
    ASSUME NEW E, NEW l \in Seq(E), NEW next \in 1..(Len(l) + 1),
           NEW max \in Nat \ {0}
    PROVE  /\ next - 1 + Len(Batch(l, next, max)) <= Len(l)
           /\ \A k \in 1..Len(Batch(l, next, max)) :
                 Batch(l, next, max)[k] = l[next - 1 + k]
<1> DEFINE last == Smaller(Len(l), next + max - 1)
<1>1. last \in Int /\ last <= Len(l) /\ next - 1 <= last
  BY DEF Smaller
<1>2. \A k \in next..last : l[k] \in E
  BY <1>1
<1>3. /\ Len(SubSeq(l, next, last)) = last - next + 1
      /\ \A k \in 1..(last - next + 1) : SubSeq(l, next, last)[k] = l[next + k - 1]
  BY <1>1, <1>2, SubSeqProperties
<1> HIDE DEF last
<1>4. \A k \in 1..(last - next + 1) : next + k - 1 = next - 1 + k
  BY <1>1
<1>5. QED
  BY <1>1, <1>3, <1>4 DEF Batch, last

\* The entries of a merged log: those kept, then those of the request.
LEMMA MergeEntries ==
    ASSUME NEW E, NEW l \in Seq(E), NEW prev \in 0..Len(l), NEW es \in Seq(E)
    PROVE  LET kept == Kept(l, prev, es)
               r    == Merge(l, prev, es)
           IN  /\ kept \in prev..Len(l) /\ r \in Seq(E)
               /\ Len(r) = Larger(kept, prev + Len(es))
               /\ \A k \in 1..kept : r[k] = l[k]
               /\ \A k \in (kept + 1)..(prev + Len(es)) : r[k] = es[k - prev]
<1> DEFINE kept == Kept(l, prev, es)
           r    == Merge(l, prev, es)
<1>1. kept \in prev..Len(l)
  BY KeptRange
<1>2. r \in Seq(E)
  BY MergeType
<1> DEFINE a == SubSeq(l, 1, kept)
           b == SubSeq(es, kept - prev + 1, Len(es))
<1> HIDE DEF kept
<1>3. a \in Seq(E) /\ Len(a) = kept /\ \A k \in 1..kept : a[k] = l[k]
  <2>1. kept \in 0..Len(l)
    BY <1>1
  <2>2. QED
    BY <2>1, PrefixAgrees DEF Agree
<1>4. /\ b \in Seq(E)
      /\ Len(b) = IF kept <= prev + Len(es) THEN prev + Len(es) - kept ELSE 0
      /\ \A k \in 1..Len(b) : b[k] = es[kept - prev + k]
  <2>1. \A k \in (kept - prev + 1)..Len(es) : es[k] \in E
    BY <1>1
  <2>2. QED
    BY <1>1, <2>1, SubSeqProperties
<1>5. r = a \o b
  BY DEF Merge, kept
<1> HIDE DEF a, b, r
<1>6. /\ Len(r) = Len(a) + Len(b)
      /\ \A k \in 1..(Len(a) + Len(b)) :
            r[k] = IF k <= Len(a) THEN a[k] ELSE b[k - Len(a)]
  BY <1>3, <1>4, <1>5, ConcatProperties
<1>7. Len(r) = Larger(kept, prev + Len(es))
  BY <1>1, <1>3, <1>4, <1>6 DEF Larger
<1>8. \A k \in 1..kept : r[k] = l[k]
  BY <1>1, <1>3, <1>4, <1>6
<1>9. ASSUME NEW k \in (kept + 1)..(prev + Len(es))
      PROVE  r[k] = es[k - prev]
  <2>1. k \in 1..Len(r) /\ ~ (k <= Len(a)) /\ k - kept \in 1..Len(b)
        /\ kept - prev + (k - kept) = k - prev
    BY <1>1, <1>3, <1>4, <1>6
  <2>2. r[k] = b[k - kept]
    BY <1>3, <1>6, <2>1
  <2>3. QED
    BY <1>4, <2>1, <2>2
<1>10. QED
  BY <1>1, <1>2, <1>7, <1>8, <1>9 DEF kept, r

\* Where the merge ends what it keeps: at the end of the log if nothing
\* clashes, else right before the first clash.
LEMMA KeptEnd ==
    ASSUME NEW E, NEW l \in Seq(E), NEW prev \in 0..Len(l), NEW es \in Seq(E)
    PROVE  LET kept == Kept(l, prev, es)
           IN  /\ kept < Len(l) => /\ kept < prev + Len(es)
                                   /\ l[kept + 1].term # es[kept + 1 - prev].term
               /\ \A k \in 1..Len(es) :
                     prev + k <= kept => l[prev + k].term = es[k].term
<1> DEFINE kept == Kept(l, prev, es)
           clashes == Clashes(l, prev, es)
<1>1. kept \in prev..Len(l)
  BY KeptRange
<1>2. CASE clashes = {}
  <2>1. kept = Len(l)
    BY <1>2 DEF Kept
  <2>2. QED
    BY <1>2, <2>1 DEF Clashes
<1>3. CASE clashes # {}
  <2>1. clashes \in SUBSET Nat
    BY DEF Clashes
  <2>2. \E k \in clashes : \A m \in clashes : k <= m
    BY <1>3, <2>1, LeastNatural
  <2>3. PICK k \in clashes : /\ k = CHOOSE c \in clashes : \A m \in clashes : c <= m
                             /\ \A m \in clashes : k <= m
    BY <2>2
  <2>4. k \in 1..Len(es) /\ prev + k <= Len(l) /\ l[prev + k].term # es[k].term
    BY DEF Clashes
  <2>5. kept = prev + k - 1
    BY <1>3, <2>3 DEF Kept
  <2>6. kept + 1 = prev + k /\ kept + 1 - prev = k /\ kept < prev + Len(es)
    BY <2>4, <2>5
  <2>7. ASSUME NEW x \in 1..Len(es), prev + x <= kept
        PROVE  l[prev + x].term = es[x].term
    <3>1. x < k /\ prev + x <= Len(l)
      BY <2>4, <2>5, <2>7
    <3>2. x \notin clashes
      BY <2>1, <2>3, <3>1
    <3>3. QED
      BY <3>1, <3>2 DEF Clashes
  <2>8. QED
    BY <1>1, <2>4, <2>6, <2>7
<1>4. QED
  BY <1>2, <1>3

\* The merge of a piece of c into l, two logs that agree wherever their terms
\* do: the result is c up to the end of the piece, l up to what is kept, and
\* an entry that is not kept is one that c contradicts.
LEMMA MergePiece ==
    ASSUME NEW E, NEW l \in Seq(E), NEW c \in Seq(E), NEW prev \in 0..Len(l),
           NEW es \in Seq(E), prev + Len(es) <= Len(c),
           \A k \in 1..Len(es) : es[k] = c[prev + k],
           Agree(l, c, prev),
           \A k \in 1..Len(l) :
              k <= Len(c) /\ l[k].term = c[k].term => Agree(l, c, k)
    PROVE  LET kept == Kept(l, prev, es)
               r    == Merge(l, prev, es)
               n    == prev + Len(es)
           IN  /\ kept \in prev..Len(l) /\ r \in Seq(E)
               /\ n <= Len(r) /\ kept <= Len(r)
               /\ Len(r) > n => r = l
               /\ Agree(r, c, n) /\ Agree(r, l, kept)
               /\ kept < Len(l) => /\ kept < Len(c) /\ Len(r) = n
                                   /\ l[kept + 1].term # c[kept + 1].term
<1> DEFINE kept == Kept(l, prev, es)
           r    == Merge(l, prev, es)
           n    == prev + Len(es)
<1>1. /\ kept \in prev..Len(l) /\ r \in Seq(E)
      /\ Len(r) = Larger(kept, n)
      /\ \A k \in 1..kept : r[k] = l[k]
      /\ \A k \in (kept + 1)..n : r[k] = es[k - prev]
  <2>1. kept \in prev..Len(l) /\ r \in Seq(E)
    BY MergeEntries
  <2>2. Len(r) = Larger(kept, n)
    BY MergeEntries
  <2>3. \A k \in 1..kept : r[k] = l[k]
    BY MergeEntries
  <2>4. \A k \in (kept + 1)..n : r[k] = es[k - prev]
    BY MergeEntries
  <2>5. QED
    BY <2>1, <2>2, <2>3, <2>4
<1>2. /\ kept < Len(l) => /\ kept < n
                          /\ l[kept + 1].term # es[kept + 1 - prev].term
      /\ \A k \in 1..Len(es) : prev + k <= kept => l[prev + k].term = es[k].term
  BY KeptEnd
<1> HIDE DEF kept, r
<1>3. n \in Nat /\ n <= Len(c) /\ Len(l) \in Nat /\ Len(c) \in Nat /\ kept \in Nat
  BY <1>1
<1>4. \A k \in (prev + 1)..n : es[k - prev] = c[k]
  <2>1. \A k \in (prev + 1)..n : k - prev \in 1..Len(es) /\ prev + (k - prev) = k
    OBVIOUS
  <2>2. QED
    BY <2>1
<1>5. ASSUME NEW m \in prev..n, m <= kept
      PROVE  Agree(l, c, m)
  <2>1. CASE m = prev
    BY <2>1
  <2>2. CASE m # prev
    <3>1. m - prev \in 1..Len(es) /\ prev + (m - prev) = m /\ m \in 1..Len(l)
          /\ m \in (prev + 1)..n /\ m <= Len(c)
      BY <1>1, <1>3, <1>5, <2>2
    <3>2. l[m].term = c[m].term
      BY <1>2, <1>4, <1>5, <3>1
    <3>3. QED
      BY <3>1, <3>2
  <2>3. QED
    BY <2>1, <2>2
<1> HIDE DEF n
<1>6. kept <= Len(r) /\ n <= Len(r)
  BY <1>1, <1>3 DEF Larger
<1>7. Agree(r, l, kept)
  BY <1>1, <1>6 DEF Agree
<1>8. Agree(r, c, n)
  <2>1. CASE kept >= n
    <3>1. Agree(l, c, n)
      BY <1>1, <1>3, <1>5, <2>1 DEF n
    <3>2. QED
      BY <1>1, <1>3, <1>6, <2>1, <3>1 DEF Agree
  <2>2. CASE kept < n
    <3>1. Agree(l, c, kept)
      BY <1>1, <1>3, <1>5, <2>2
    <3>2. ASSUME NEW k \in 1..n
          PROVE  r[k] = c[k]
      <4>1. CASE k <= kept
        BY <1>1, <1>3, <3>1, <4>1 DEF Agree
      <4>2. CASE k > kept
        <5>1. k \in (kept + 1)..n /\ k \in (prev + 1)..n
          BY <1>1, <1>3, <4>2
        <5>2. QED
          BY <1>1, <1>4, <5>1
      <4>3. QED
        BY <1>3, <4>1, <4>2
    <3>3. QED
      BY <1>3, <1>6, <3>2 DEF Agree
  <2>3. QED
    BY <1>3, <2>1, <2>2
<1>9. Len(r) > n => r = l
  <2>1. SUFFICES ASSUME Len(r) > n
                 PROVE  r = l
    OBVIOUS
  <2>2. Len(r) = kept /\ kept = Len(l)
    BY <1>1, <1>2, <1>3, <2>1 DEF Larger
  <2>3. QED
    BY <1>1, <2>2
<1>10. ASSUME kept < Len(l)
       PROVE  /\ kept < Len(c) /\ Len(r) = n
              /\ l[kept + 1].term # c[kept + 1].term
  <2>1. kept < n /\ kept + 1 \in (prev + 1)..n
    BY <1>1, <1>2, <1>3, <1>10
  <2>2. QED
    BY <1>1, <1>2, <1>3, <1>4, <1>10, <2>1 DEF Larger
<1>11. QED
  BY <1>1, <1>6, <1>7, <1>8, <1>9, <1>10 DEF kept, r, n

-----------------------------------------------------------------------------
(***************************************************************************)
(* Where logs come from. w is what the leaders have written, a log for     *)
(* each term that was led. Every log is made of pieces of these: up to an  *)
(* entry of term u it is what the leader of u wrote.                       *)
(***************************************************************************)
Logs(E, w) ==
    Terms(E) /\ DOMAIN w \subseteq Nat /\ \A t \in DOMAIN w : w[t] \in Seq(E)

\* Every entry of l comes from a leader of a term up to t, with all before it.
Sourced(w, l, t) ==
    \A k \in 1..Len(l) :
        /\ l[k].term <= t /\ l[k].term \in DOMAIN w
        /\ Agree(l, w[l[k].term], k)

\* The written logs v are those of w, and more after them.
Extends(w, v) ==
    \A t \in DOMAIN w : t \in DOMAIN v /\ Agree(v[t], w[t], Len(w[t]))

\* The entries of the request q are the ones the leader of its term wrote.
Piece(w, q) ==
    /\ q.term \in DOMAIN w
    /\ q.prev + Len(q.entries) <= Len(w[q.term])
    /\ q.prevTerm = TermAt(w[q.term], q.prev)
    /\ \A k \in 1..Len(q.entries) : q.entries[k] = w[q.term][q.prev + k]

\* The terms of entries are natural numbers.
LEMMA EntryTerm ==
    ASSUME NEW E, Terms(E), NEW l \in Seq(E), NEW k \in 1..Len(l)
    PROVE  l[k] \in E /\ l[k].term \in Nat
<1>1. l[k] \in E
  OBVIOUS
<1>2. QED
  BY <1>1 DEF Terms

LEMMA SourcedExtends ==
    ASSUME NEW E, NEW w, NEW v, Logs(E, w), Logs(E, v), Extends(w, v),
           NEW l \in Seq(E), NEW t \in Nat, NEW u \in Nat, t <= u,
           Sourced(w, l, t)
    PROVE  Sourced(v, l, u)
<1> SUFFICES ASSUME NEW k \in 1..Len(l)
             PROVE  /\ l[k].term <= u /\ l[k].term \in DOMAIN v
                    /\ Agree(l, v[l[k].term], k)
  BY DEF Sourced
<1> DEFINE x == l[k].term
<1>1. x \in Nat /\ x <= t /\ x \in DOMAIN w /\ Agree(l, w[x], k)
  BY EntryTerm DEF Logs, Sourced
<1>2. x \in DOMAIN v /\ Agree(v[x], w[x], Len(w[x]))
  BY <1>1 DEF Extends
<1>3. w[x] \in Seq(E) /\ v[x] \in Seq(E)
  BY <1>1, <1>2 DEF Logs
<1> HIDE DEF x
<1>4. Agree(l, v[x], k)
  <2>1. k <= Len(w[x]) /\ Len(w[x]) \in Nat /\ k \in Nat
    BY <1>1, <1>3 DEF Agree
  <2>2. Agree(v[x], w[x], k)
    BY <1>2, <1>3, <2>1, AgreeLess
  <2>3. QED
    BY <1>1, <2>2, AgreeSym, AgreeTrans
<1>5. QED
  BY <1>1, <1>2, <1>4 DEF x

LEMMA SourcedPrefix ==
    ASSUME NEW E, NEW w, Logs(E, w), NEW l \in Seq(E), NEW r \in Seq(E),
           Agree(r, l, Len(r)), NEW t \in Nat, Sourced(w, l, t)
    PROVE  Sourced(w, r, t)
<1> SUFFICES ASSUME NEW k \in 1..Len(r)
             PROVE  /\ r[k].term <= t /\ r[k].term \in DOMAIN w
                    /\ Agree(r, w[r[k].term], k)
  BY DEF Sourced
<1>1. k \in 1..Len(l) /\ r[k] = l[k] /\ k \in Nat /\ Len(r) \in Nat /\ k <= Len(r)
  BY DEF Agree
<1>2. l[k].term <= t /\ l[k].term \in DOMAIN w /\ Agree(l, w[l[k].term], k)
  BY <1>1 DEF Sourced
<1>3. Agree(r, l, k)
  BY <1>1, AgreeLess
<1>4. QED
  BY <1>1, <1>2, <1>3, AgreeTrans

LEMMA SourcedAppend ==
    ASSUME NEW E, NEW w, NEW v, Logs(E, w), Logs(E, v), Extends(w, v),
           NEW l \in Seq(E), NEW e \in E, NEW t \in Nat, e.term = t,
           t \in DOMAIN v, v[t] = Append(l, e), Sourced(w, l, t)
    PROVE  Sourced(v, Append(l, e), t)
<1> DEFINE r == Append(l, e)
<1>1. /\ r \in Seq(E) /\ Len(r) = Len(l) + 1 /\ r[Len(l) + 1] = e
      /\ Agree(r, l, Len(l))
  BY AppendAgrees
<1>2. Sourced(v, l, t)
  BY SourcedExtends
<1> HIDE DEF r
<1>3. ASSUME NEW k \in 1..Len(r)
      PROVE  /\ r[k].term <= t /\ r[k].term \in DOMAIN v
             /\ Agree(r, v[r[k].term], k)
  <2>1. CASE k <= Len(l)
    <3>1. k \in 1..Len(l) /\ r[k] = l[k] /\ k \in Nat /\ Len(l) \in Nat
      BY <1>1, <2>1 DEF Agree
    <3>2. /\ l[k].term <= t /\ l[k].term \in DOMAIN v
          /\ Agree(l, v[l[k].term], k)
      BY <1>2, <3>1 DEF Sourced
    <3>3. Agree(r, l, k)
      BY <1>1, <2>1, <3>1, AgreeLess
    <3>4. QED
      BY <3>1, <3>2, <3>3, AgreeTrans
  <2>2. CASE k = Len(l) + 1
    <3>1. r[k].term = t /\ v[t] = r
      BY <1>1, <2>2 DEF r
    <3>2. Agree(r, r, k)
      BY <1>1, AgreeSelf
    <3>3. QED
      BY <3>1, <3>2
  <2>3. QED
    BY <1>1, <2>1, <2>2
<1>4. QED
  BY <1>3 DEF Sourced, r

\* Two logs that hold an entry of the same term at the same position agree up
\* to it: both have it from the leader of that term.
LEMMA SourcedMatch ==
    ASSUME NEW E, NEW w, NEW l \in Seq(E), NEW c \in Seq(E), NEW t, NEW u,
           Sourced(w, l, t), Sourced(w, c, u),
           NEW k \in 1..Len(l), k <= Len(c), l[k].term = c[k].term
    PROVE  Agree(l, c, k)
<1>1. k \in 1..Len(c)
  OBVIOUS
<1>2. Agree(l, w[l[k].term], k) /\ Agree(c, w[l[k].term], k)
  BY <1>1 DEF Sourced
<1>3. QED
  BY <1>2, AgreeSym, AgreeTrans

\* Terms never fall along a log.
LEMMA SourcedOrdered ==
    ASSUME NEW E, NEW w, Logs(E, w), \A t \in DOMAIN w : Sourced(w, w[t], t),
           NEW l \in Seq(E), NEW t, Sourced(w, l, t),
           NEW k \in 1..Len(l), NEW n \in 1..k
    PROVE  l[n].term <= l[k].term
<1> DEFINE x == l[k].term
<1>1. x \in DOMAIN w /\ Agree(l, w[x], k)
  BY DEF Sourced
<1>2. n \in 1..Len(w[x]) /\ l[n] = w[x][n]
  BY <1>1 DEF Agree, Logs
<1>3. w[x][n].term <= x
  BY <1>1, <1>2 DEF Sourced
<1>4. QED
  BY <1>2, <1>3

\* AppendEntries merges a piece of the log c of the leader of term u into l:
\* the log after it has its sources, agrees with c as far as the request
\* goes, and loses only entries that c contradicts.
LEMMA SourcedMerge ==
    ASSUME NEW E, NEW w, Logs(E, w), NEW u \in DOMAIN w, Sourced(w, w[u], u),
           NEW l \in Seq(E), NEW t \in Nat, t <= u, Sourced(w, l, t),
           NEW q, q.prev \in Nat, q.entries \in Seq(E), q.term = u, Piece(w, q),
           PrevMatches(l, q.prev, q.prevTerm)
    PROVE  LET kept == Kept(l, q.prev, q.entries)
               r    == Merge(l, q.prev, q.entries)
               n    == q.prev + Len(q.entries)
           IN  /\ Sourced(w, r, u) /\ r \in Seq(E)
               /\ n \in Nat /\ n <= Len(r) /\ Agree(r, w[u], n)
               /\ kept \in 0..Len(l) /\ Agree(r, l, kept)
               /\ \A m \in Nat : Agree(l, w[u], m) => Agree(r, w[u], m)
               /\ kept < Len(l) => \A m \in Nat : Agree(l, w[u], m) => m <= kept
               /\ Len(r) > n => r = l
<1> DEFINE c    == w[u]
           prev == q.prev
           es   == q.entries
           kept == Kept(l, prev, es)
           r    == Merge(l, prev, es)
           n    == prev + Len(es)
<1>1. /\ prev \in 0..Len(l) /\ es \in Seq(E) /\ c \in Seq(E)
      /\ TermAt(l, prev) = q.prevTerm /\ u \in Nat
  BY DEF PrevMatches, Logs
<1>2. /\ n <= Len(c) /\ TermAt(c, prev) = q.prevTerm
      /\ \A k \in 1..Len(es) : es[k] = c[prev + k]
  BY DEF Piece
<1>3. \A k \in 1..Len(l) :
         k <= Len(c) /\ l[k].term = c[k].term => Agree(l, c, k)
  <2> HIDE DEF c
  <2>1. Sourced(w, c, u)
    BY DEF c
  <2>2. QED
    BY <1>1, <2>1, SourcedMatch
<1> HIDE DEF c, prev, es
<1>4. Agree(l, c, prev)
  <2>1. CASE prev = 0
    BY <1>1, <2>1 DEF Agree
  <2>2. CASE prev # 0
    <3>1. prev \in 1..Len(l) /\ prev <= Len(c)
      BY <1>1, <1>2, <2>2
    <3>2. l[prev].term = c[prev].term
      BY <1>1, <1>2, <2>2 DEF TermAt
    <3>3. QED
      BY <1>3, <3>1, <3>2
  <2>3. QED
    BY <2>1, <2>2
<1>5. /\ kept \in prev..Len(l) /\ r \in Seq(E)
      /\ n <= Len(r) /\ kept <= Len(r)
      /\ Len(r) > n => r = l
      /\ Agree(r, c, n) /\ Agree(r, l, kept)
  <2>1. kept \in prev..Len(l) /\ r \in Seq(E)
    BY <1>1, <1>2, <1>3, <1>4, MergePiece
  <2>2. n <= Len(r) /\ kept <= Len(r)
    BY <1>1, <1>2, <1>3, <1>4, MergePiece
  <2>3. Len(r) > n => r = l
    BY <1>1, <1>2, <1>3, <1>4, MergePiece
  <2>4. Agree(r, c, n) /\ Agree(r, l, kept)
    BY <1>1, <1>2, <1>3, <1>4, MergePiece
  <2>5. QED
    BY <2>1, <2>2, <2>3, <2>4
<1>6. kept < Len(l) => /\ kept < Len(c) /\ Len(r) = n
                       /\ l[kept + 1].term # c[kept + 1].term
  <2>1. kept < Len(l) => kept < Len(c)
    BY <1>1, <1>2, <1>3, <1>4, MergePiece
  <2>2. kept < Len(l) => l[kept + 1].term # c[kept + 1].term
    BY <1>1, <1>2, <1>3, <1>4, MergePiece, SMTT(30)
  <2>3. kept < Len(l) => Len(r) = n
    <3>1. Len(r) = Larger(kept, n)
      BY <1>1, MergeEntries
    <3>2. kept < Len(l) => kept < n
      BY <1>1, KeptEnd
    <3>3. QED
      BY <1>1, <1>5, <3>1, <3>2 DEF Larger
  <2>4. QED
    BY <2>1, <2>2, <2>3
<1> HIDE DEF kept, r
<1>7. n \in Nat
  BY <1>1
<1> HIDE DEF n
<1>8. Sourced(w, r, u)
  <2>1. CASE Len(r) > n
    <3>1. Agree(l, l, Len(l))
      BY AgreeSelf
    <3>2. \A w1 : w1 = w => Extends(w, w1)
      <4>1. \A x \in DOMAIN w : Agree(w[x], w[x], Len(w[x]))
        BY AgreeSelf DEF Logs
      <4>2. QED
        BY <4>1 DEF Extends
    <3>3. Sourced(w, l, u)
      BY <1>1, <3>2, SourcedExtends
    <3>4. QED
      BY <1>5, <2>1, <3>3
  <2>2. CASE Len(r) = n
    <3>1. Agree(r, c, Len(r)) /\ Sourced(w, c, u)
      BY <1>5, <2>2 DEF c
    <3>2. QED
      BY <1>1, <1>5, <3>1, SourcedPrefix
  <2>3. QED
    BY <1>5, <1>7, <2>1, <2>2
<1>9. ASSUME kept < Len(l), NEW m \in Nat, Agree(l, c, m)
      PROVE  m <= kept
  <2>1. SUFFICES ASSUME m > kept
                 PROVE  FALSE
    BY <1>1, <1>5
  <2>2. kept + 1 \in 1..m
    BY <1>1, <1>5, <2>1
  <2>3. l[kept + 1] = c[kept + 1]
    BY <1>9, <2>2 DEF Agree
  <2>4. QED
    BY <1>6, <1>9, <2>3
<1>10. ASSUME NEW m \in Nat, Agree(l, c, m)
       PROVE  Agree(r, c, m)
  <2>1. m <= kept
    <3>1. CASE kept < Len(l)
      BY <1>9, <1>10, <3>1
    <3>2. CASE ~ (kept < Len(l))
      BY <1>1, <1>5, <1>10, <3>2 DEF Agree
    <3>3. QED
      BY <3>1, <3>2
  <2>2. Agree(r, l, m)
    BY <1>1, <1>5, <2>1, AgreeLess
  <2>3. QED
    BY <1>10, <2>2, AgreeTrans
<1>11. kept \in 0..Len(l)
  BY <1>1, <1>5
<1>12. QED
  BY <1>5, <1>7, <1>8, <1>9, <1>10, <1>11 DEF kept, r, n, c, prev, es

\* A piece of what has been written is one of what will have been.
LEMMA PieceExtends ==
    ASSUME NEW E, NEW w, NEW v, Logs(E, w), Logs(E, v), Extends(w, v),
           NEW q, q.prev \in Nat, q.entries \in Seq(E), Piece(w, q)
    PROVE  Piece(v, q)
<1> DEFINE l == w[q.term]
           r == v[q.term]
<1>1. /\ q.term \in DOMAIN v /\ l \in Seq(E) /\ r \in Seq(E)
      /\ Agree(r, l, Len(l))
      /\ q.prev \in Nat /\ q.entries \in Seq(E)
      /\ q.prev + Len(q.entries) <= Len(l)
      /\ q.prevTerm = TermAt(l, q.prev)
      /\ \A k \in 1..Len(q.entries) : q.entries[k] = l[q.prev + k]
  BY DEF Piece, Extends, Logs
<1> HIDE DEF l, r
<1>2. Len(l) <= Len(r) /\ \A k \in 1..Len(l) : r[k] = l[k]
  BY <1>1 DEF Agree
<1>3. q.prevTerm = TermAt(r, q.prev)
  BY <1>1, <1>2 DEF TermAt
<1>4. ASSUME NEW k \in 1..Len(q.entries)
      PROVE  q.entries[k] = r[q.prev + k]
  <2>1. q.prev + k \in 1..Len(l)
    BY <1>1
  <2>2. QED
    BY <1>1, <1>2, <2>1
<1>5. q.prev + Len(q.entries) <= Len(r)
  BY <1>1, <1>2
<1>6. QED
  BY <1>1, <1>3, <1>4, <1>5 DEF Piece, r

\* A log that holds an entry of term T as its leader wrote it ends in T or later.
LEMMA EntryIsGood ==
    ASSUME NEW E, NEW w, Logs(E, w), \A t \in DOMAIN w : Sourced(w, w[t], t),
           NEW T \in DOMAIN w, NEW m \in 1..Len(w[T]), w[T][m].term = T,
           NEW l \in Seq(E), NEW u, Sourced(w, l, u), Agree(l, w[T], m)
    PROVE  Len(l) >= m /\ LastTerm(l) >= T /\ LastTerm(l) \in Nat
<1>1. w[T] \in Seq(E) /\ m \in 1..Len(l) /\ l[m] = w[T][m]
  BY DEF Logs, Agree
<1>2. Len(l) \in 1..Len(l) /\ m \in 1..Len(l)
  BY <1>1
<1>3. l[m].term <= l[Len(l)].term
  BY <1>2, SourcedOrdered
<1>4. LastTerm(l) = l[Len(l)].term
  BY <1>2 DEF LastTerm, TermAt
<1>5. l[Len(l)].term \in Nat
  BY <1>2, EntryTerm DEF Logs
<1>6. QED
  BY <1>1, <1>2, <1>3, <1>4, <1>5

\* Conversely a log as good as that holds the entry, if the later logs do.
LEMMA GoodHasEntry ==
    ASSUME NEW E, NEW w, Logs(E, w), \A t \in DOMAIN w : Sourced(w, w[t], t),
           NEW T \in DOMAIN w, T > 0,
           NEW m \in 1..Len(w[T]), w[T][m].term = T,
           \A t \in DOMAIN w : t > T => Agree(w[t], w[T], m),
           NEW l \in Seq(E), NEW u, Sourced(w, l, u),
           LastTerm(l) > T \/ (LastTerm(l) = T /\ Len(l) >= m)
    PROVE  Agree(l, w[T], m)
<1> DEFINE k == Len(l)
           x == l[k].term
<1>1. T \in Nat /\ w[T] \in Seq(E) /\ m \in Nat /\ k \in Nat
  BY DEF Logs
<1>2. k # 0
  BY <1>1 DEF LastTerm, TermAt
<1>3. k \in 1..Len(l) /\ LastTerm(l) = x
  BY <1>1, <1>2 DEF LastTerm, TermAt
<1>4. x \in DOMAIN w /\ Agree(l, w[x], k)
  BY <1>3 DEF Sourced
<1>5. w[x] \in Seq(E) /\ x \in Nat
  BY <1>4 DEF Logs
<1>6. Agree(w[x], w[T], m)
  <2>1. CASE x = T
    BY <1>1, <2>1, AgreeSelf
  <2>2. CASE x # T
    BY <1>3, <1>4, <2>2
  <2>3. QED
    BY <2>1, <2>2
<1>7. m <= k
  <2>1. SUFFICES ASSUME m > k
                 PROVE  FALSE
    BY <1>1
  <2>2. x > T
    BY <1>3, <2>1
  <2>3. m \in 1..Len(w[x]) /\ w[x][m] = w[T][m]
    BY <1>1, <1>6 DEF Agree
  <2>4. k \in 1..m /\ w[x][k] = l[k]
    BY <1>1, <1>3, <1>4, <2>1 DEF Agree
  <2>5. w[x][k].term <= w[x][m].term
    <3>1. Sourced(w, w[x], x)
      BY <1>4
    <3>2. QED
      BY <1>5, <2>3, <2>4, <3>1, SourcedOrdered
  <2>6. QED
    BY <1>1, <1>5, <2>2, <2>3, <2>4, <2>5
<1> HIDE DEF k, x
<1>8. Agree(l, w[x], m)
  BY <1>1, <1>4, <1>5, <1>7, AgreeLess
<1>9. QED
  BY <1>6, <1>8, AgreeTrans

-----------------------------------------------------------------------------
\* v is what has been written once the leader of term t has the log l, and
\* every log in it still has its sources.
Written(w, v, t, l) ==
    /\ DOMAIN v = DOMAIN w \cup {t} /\ v[t] = l
    /\ \A x \in DOMAIN w : x # t => v[x] = w[x]
    /\ \A x \in DOMAIN v : Sourced(v, v[x], x)

\* The leader of term t appends an entry to its log, its first or a later one:
\* nothing that was written changes.
LEMMA WriteAppend ==
    ASSUME NEW E, NEW w, Logs(E, w), \A x \in DOMAIN w : Sourced(w, w[x], x),
           NEW t \in Nat, NEW l \in Seq(E), Sourced(w, l, t),
           t \notin DOMAIN w \/ w[t] = l,
           NEW e \in E, e.term = t
    PROVE  \E v : Logs(E, v) /\ Extends(w, v) /\ Written(w, v, t, Append(l, e))
<1> DEFINE r == Append(l, e)
           v == [x \in DOMAIN w \cup {t} |-> IF x = t THEN r ELSE w[x]]
<1>1. r \in Seq(E) /\ Agree(r, l, Len(l)) /\ Len(l) \in Nat
  BY AppendAgrees
<1>2. /\ DOMAIN v = DOMAIN w \cup {t} /\ v[t] = r
      /\ \A x \in DOMAIN w : x # t => v[x] = w[x]
  OBVIOUS
<1> HIDE DEF v
<1>3. Logs(E, v)
  <2>1. \A x \in DOMAIN v : x \in Nat /\ v[x] \in Seq(E)
    BY <1>1, <1>2 DEF Logs
  <2>2. QED
    BY <2>1 DEF Logs
<1>4. Extends(w, v)
  <2>1. ASSUME NEW x \in DOMAIN w
        PROVE  x \in DOMAIN v /\ Agree(v[x], w[x], Len(w[x]))
    <3>1. CASE x = t
      BY <1>1, <1>2, <3>1
    <3>2. CASE x # t
      <4>1. v[x] = w[x] /\ w[x] \in Seq(E)
        BY <1>2, <3>2 DEF Logs
      <4>2. Agree(w[x], w[x], Len(w[x]))
        BY <4>1, AgreeSelf
      <4>3. QED
        BY <1>2, <4>1, <4>2
    <3>3. QED
      BY <3>1, <3>2
  <2>2. QED
    BY <2>1 DEF Extends
<1>5. Sourced(v, r, t)
  BY <1>2, <1>3, <1>4, SourcedAppend
<1> HIDE DEF r
<1>6. ASSUME NEW x \in DOMAIN v
      PROVE  Sourced(v, v[x], x)
  <2>1. CASE x = t
    BY <1>2, <1>5, <2>1
  <2>2. CASE x # t
    <3>1. x \in DOMAIN w /\ v[x] = w[x]
      BY <1>2, <2>2
    <3>2. /\ w[x] \in Seq(E) /\ x \in Nat /\ x <= x /\ Sourced(w, w[x], x)
      BY <3>1 DEF Logs
    <3>3. Sourced(v, w[x], x)
      BY <1>3, <1>4, <3>2, SourcedExtends
    <3>4. QED
      BY <3>1, <3>3
  <2>3. QED
    BY <2>1, <2>2
<1>7. Written(w, v, t, r)
  BY <1>2, <1>6 DEF Written
<1>8. QED
  BY <1>3, <1>4, <1>7 DEF r

\* What is sourced up to a term is so up to a later one.
LEMMA SourcedLater ==
    ASSUME NEW E, NEW w, Logs(E, w), NEW l \in Seq(E), NEW t \in Nat,
           NEW u \in Nat, t <= u, Sourced(w, l, t)
    PROVE  Sourced(w, l, u)
<1>1. \A k \in 1..Len(l) : l[k].term \in Nat
  BY EntryTerm DEF Logs
<1>2. QED
  BY <1>1 DEF Sourced

\* The whole log of the leader of term u is merged into l, as with a request
\* that carries all of it.
LEMMA MergeWhole ==
    ASSUME NEW E, NEW w, Logs(E, w), NEW u \in DOMAIN w, Sourced(w, w[u], u),
           NEW l \in Seq(E), NEW t \in Nat, t <= u, Sourced(w, l, t)
    PROVE  LET r == Merge(l, 0, w[u])
           IN  /\ r \in Seq(E) /\ Sourced(w, r, u)
               /\ \A m \in Nat : m <= Len(w[u]) => Agree(r, w[u], m)
<1> DEFINE q == [term |-> u, prev |-> 0, prevTerm |-> 0, entries |-> w[u]]
           r == Merge(l, 0, w[u])
<1>1. w[u] \in Seq(E) /\ Len(w[u]) \in Nat
  BY DEF Logs
<1>2. /\ q.prev \in Nat /\ q.entries \in Seq(E) /\ q.term = u
      /\ q.prev = 0 /\ q.prevTerm = 0 /\ q.entries = w[u]
  BY <1>1
<1> HIDE DEF q
<1>3. Piece(w, q) /\ PrevMatches(l, q.prev, q.prevTerm)
  BY <1>1, <1>2 DEF Piece, PrevMatches, TermAt
<1>4. /\ Sourced(w, r, u) /\ r \in Seq(E)
      /\ Agree(r, w[u], q.prev + Len(q.entries))
  BY <1>1, <1>2, <1>3, SourcedMerge
<1> HIDE DEF r
<1>5. Agree(r, w[u], Len(w[u]))
  BY <1>1, <1>2, <1>4
<1>6. \A m \in Nat : m <= Len(w[u]) => Agree(r, w[u], m)
  BY <1>1, <1>4, <1>5, AgreeLess
<1>7. QED
  BY <1>4, <1>6 DEF r

-----------------------------------------------------------------------------
\* The first m entries of term T's log, the last of them T's own, are in every
\* log written later.
Final(w, T, m) ==
    /\ T \in DOMAIN w /\ T > 0 /\ m \in 1..Len(w[T]) /\ w[T][m].term = T
    /\ \A t \in DOMAIN w : t > T => Agree(w[t], w[T], m)

LEMMA FinalLater ==
    ASSUME NEW E, NEW w, Logs(E, w), NEW T, NEW m, Final(w, T, m),
           NEW t \in DOMAIN w, t >= T
    PROVE  Agree(w[t], w[T], m) /\ m \in Nat /\ T \in Nat
<1>1. /\ T \in DOMAIN w /\ T \in Nat /\ t \in Nat /\ m \in Nat
      /\ w[T] \in Seq(E) /\ m <= Len(w[T])
  BY DEF Final, Logs
<1>2. CASE t = T
  BY <1>1, <1>2, AgreeSelf
<1>3. CASE t # T
  BY <1>1, <1>3 DEF Final
<1>4. QED
  BY <1>1, <1>2, <1>3

\* They stay so as long as every new log has them.
LEMMA FinalKept ==
    ASSUME NEW E, NEW w, NEW v, Logs(E, w), Logs(E, v), Extends(w, v),
           NEW T, NEW m, Final(w, T, m),
           \A t \in DOMAIN v : t \in DOMAIN w \/ t <= T \/ Agree(v[t], w[T], m)
    PROVE  Final(v, T, m) /\ Agree(v[T], w[T], m)
<1>1. /\ T \in DOMAIN w /\ T \in DOMAIN v /\ T \in Nat /\ T > 0 /\ m \in Nat
      /\ w[T] \in Seq(E) /\ v[T] \in Seq(E) /\ m \in 1..Len(w[T])
      /\ w[T][m].term = T /\ Agree(v[T], w[T], Len(w[T]))
  BY DEF Final, Logs, Extends
<1>2. Agree(v[T], w[T], m)
  BY <1>1, AgreeLess
<1>3. m \in 1..Len(v[T]) /\ v[T][m] = w[T][m]
  BY <1>1, <1>2 DEF Agree
<1>4. ASSUME NEW t \in DOMAIN v, t > T
      PROVE  Agree(v[t], v[T], m)
  <2>1. CASE t \in DOMAIN w
    <3>1. w[t] \in Seq(E) /\ v[t] \in Seq(E) /\ Agree(v[t], w[t], Len(w[t]))
          /\ Agree(w[t], w[T], m)
      BY <1>4, <2>1 DEF Final, Logs, Extends
    <3>2. m <= Len(w[t]) /\ Len(w[t]) \in Nat
      BY <3>1 DEF Agree
    <3>3. Agree(v[t], w[t], m)
      BY <1>1, <3>1, <3>2, AgreeLess
    <3>4. QED
      BY <1>2, <3>1, <3>3, AgreeSym, AgreeTrans
  <2>2. CASE t \notin DOMAIN w
    <3>1. t \in Nat
      BY DEF Logs
    <3>2. Agree(v[t], w[T], m)
      BY <1>1, <1>4, <2>2, <3>1
    <3>3. QED
      BY <1>2, <3>2, AgreeSym, AgreeTrans
  <2>3. QED
    BY <2>1, <2>2
<1>5. QED
  BY <1>1, <1>2, <1>3, <1>4 DEF Final

\* Who has them votes only for a log that has them (the up-to-date test).
LEMMA ElectedHas ==
    ASSUME NEW E, NEW w, Logs(E, w), \A t \in DOMAIN w : Sourced(w, w[t], t),
           NEW T, NEW m, Final(w, T, m),
           NEW c \in Seq(E), NEW u, Sourced(w, c, u), Agree(c, w[T], m),
           NEW l \in Seq(E), NEW x, Sourced(w, l, x),
           UpToDate(LastTerm(l), Len(l), c)
    PROVE  Agree(l, w[T], m)
<1>1. /\ T \in DOMAIN w /\ T > 0 /\ T \in Nat /\ m \in 1..Len(w[T])
      /\ w[T] \in Seq(E) /\ w[T][m].term = T
      /\ \A t \in DOMAIN w : t > T => Agree(w[t], w[T], m)
  BY DEF Final, Logs
<1>2. Len(c) >= m /\ LastTerm(c) >= T /\ LastTerm(c) \in Nat
  BY <1>1, EntryIsGood
<1>3. LastTerm(l) \in Nat
  BY TermAtType DEF Logs, LastTerm
<1>4. LastTerm(l) > T \/ (LastTerm(l) = T /\ Len(l) >= m)
  BY <1>1, <1>2, <1>3 DEF UpToDate
<1>5. QED
  BY <1>1, <1>4, GoodHasEntry

=============================================================================
