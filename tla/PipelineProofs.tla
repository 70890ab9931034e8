---------------------------- MODULE PipelineProofs ----------------------------
(***************************************************************************)
(* Theorems about Pipeline, for any window, batch, histories and bounds:   *)
(* the variables keep their types, the next index of a leader stays        *)
(* between what is known to match and the end of its log, what counts as   *)
(* matched is what the follower has, and the two commit the same entries.  *)
(***************************************************************************)
EXTENDS Pipeline, RaftLogProofs, FiniteSetTheorems

-----------------------------------------------------------------------------
\* What is sent

\* Every log entry has a term, so the lemmas on logs apply to it.
LEMMA EntryTerms == Terms(Entry)
BY DEF Terms, Entry

\* The next index is brought inside the log before a request is built.
LEMMA FirstInside ==
    ASSUME NEW l \in Seq(Entry), NEW next \in Nat
    PROVE  /\ First(l, next) \in 1..(Len(l) + 1)
           /\ next \in 1..(Len(l) + 1) => First(l, next) = next
BY DEF First, Larger, Smaller

\* The last position a request carries.
Reach(q) == q.prev + Len(q.entries)

\* A request that _sendAppend builds is well-formed and reaches no further
\* than the log.
LEMMA RequestAtType ==
    ASSUME NEW l \in Seq(Entry), NEW t \in Nat, NEW commit \in Nat,
           NEW first \in 1..(Len(l) + 1)
    PROVE  /\ RequestAt(l, t, commit, first) \in Request
           /\ RequestAt(l, t, commit, first).term = t
           /\ Reach(RequestAt(l, t, commit, first)) <= Len(l)
<1> DEFINE es   == Batch(l, first, MaxBatch)
           last == Smaller(Len(l), first + MaxBatch - 1)
<1>1. es \in Seq(Entry)
  BY WindowAssumption, BatchType
<1>2. TermAt(l, first - 1) \in Nat
  BY EntryTerms, TermAtType
<1>3. last \in (first - 1)..Len(l)
  BY WindowAssumption DEF Smaller
<1>4. Len(es) = last - first + 1
  <2>1. \A k \in first..last : l[k] \in Entry
    BY <1>3
  <2>2. Len(SubSeq(l, first, last)) = IF first <= last THEN last - first + 1 ELSE 0
    BY <1>3, <2>1, SubSeqProperties
  <2>3. QED
    BY <1>3, <2>2 DEF Batch
<1>5. RequestAt(l, t, commit, first) =
        [term |-> t, prev |-> first - 1, prevTerm |-> TermAt(l, first - 1),
         entries |-> es, commit |-> commit]
  BY DEF RequestAt
<1>6. first - 1 = 0 => TermAt(l, first - 1) = 0
  BY DEF TermAt
<1> HIDE DEF es, last
<1>7. first - 1 + Len(es) <= Len(l)
  BY <1>3, <1>4
<1>8. QED
  BY <1>1, <1>2, <1>5, <1>6, <1>7 DEF Request, Reach

\* Each call that a pump adds is one of this leadership, on its way, and
\* reaches no further than the log.
Fresh(c, l, t) ==
    /\ c \in Call /\ c.status = "sent"
    /\ c.request.term = t /\ Reach(c.request) <= Len(l)

\* A pump keeps the calls and adds requests built from the log.
LEMMA PumpedCallsAt ==
    ASSUME NEW l \in Seq(Entry), NEW t \in Nat, NEW commit \in Nat, NEW cs,
           NEW next \in Nat, NEW m, NEW heartbeat,
           NEW c \in PumpedCalls(l, t, commit, cs, next, m, heartbeat)
    PROVE  \/ c \in cs
           \/ \E first \in 1..(Len(l) + 1) : c = Sent(RequestAt(l, t, commit, first))
<1> DEFINE starts == Starts(l, t, cs, next, m)
           firsts == IF starts = {} /\ heartbeat /\ Active(cs, t) = {}
                     THEN {First(l, next)} ELSE starts
<1>1. c \in cs \/ \E first \in firsts : c = Sent(RequestAt(l, t, commit, first))
  BY DEF PumpedCalls
<1>2. firsts \subseteq 1..(Len(l) + 1)
  <2>1. starts \subseteq 1..Len(l)
    BY DEF Starts
  <2>2. First(l, next) \in 1..(Len(l) + 1)
    BY FirstInside
  <2>3. firsts = starts \/ firsts = {First(l, next)}
    BY Zenon
  <2> HIDE DEF starts, firsts
  <2>4. 1..Len(l) \subseteq 1..(Len(l) + 1)
    OBVIOUS
  <2>5. CASE firsts = starts
    BY <2>1, <2>4, <2>5, Zenon
  <2>6. CASE firsts = {First(l, next)}
    BY <2>2, <2>6, Zenon
  <2>7. QED
    BY <2>3, <2>5, <2>6
<1> HIDE DEF firsts
<1>3. QED
  BY <1>1, <1>2

\* These are fresh.
LEMMA PumpedCallsFresh ==
    ASSUME NEW l \in Seq(Entry), NEW t \in Nat, NEW commit \in Nat, NEW cs,
           NEW next \in Nat, NEW m, NEW heartbeat,
           NEW c \in PumpedCalls(l, t, commit, cs, next, m, heartbeat)
    PROVE  c \in cs \/ Fresh(c, l, t)
<1>1. ASSUME NEW first \in 1..(Len(l) + 1)
      PROVE  Fresh(Sent(RequestAt(l, t, commit, first)), l, t)
  <2> DEFINE q == RequestAt(l, t, commit, first)
  <2>1. q \in Request /\ q.term = t /\ Reach(q) <= Len(l)
    BY RequestAtType
  <2> HIDE DEF q
  <2>2. Sent(q) \in Call /\ Sent(q).status = "sent" /\ Sent(q).request = q
    BY <2>1 DEF Sent, Call
  <2>3. QED
    BY <2>1, <2>2 DEF Fresh, q
<1>2. QED
  BY <1>1, PumpedCallsAt

\* A pump never takes the next index back, nor past the end of the log.
LEMMA PumpedNextRange ==
    ASSUME NEW l \in Seq(Entry), NEW t, NEW cs, NEW m,
           NEW next \in 1..(Len(l) + 1)
    PROVE  PumpedNext(l, t, cs, next, m) \in next..(Len(l) + 1)
<1> DEFINE starts == Starts(l, t, cs, next, m)
           n == Cardinality(starts)
<1>1. n \in Nat
  <2>1. starts \subseteq 1..Len(l)
    BY DEF Starts
  <2>2. IsFiniteSet(1..Len(l))
    BY FS_Interval
  <2>3. IsFiniteSet(starts)
    BY <2>1, <2>2, FS_Subset
  <2>4. QED
    BY <2>3, FS_CardinalityType
<1> HIDE DEF n
<1>2. n * MaxBatch \in Nat
  BY <1>1, WindowAssumption
<1>3. First(l, next) = next
  BY FirstInside
<1>4. Smaller(First(l, next) + n * MaxBatch, Len(l) + 1) \in next..(Len(l) + 1)
  <2> DEFINE b == n * MaxBatch
  <2>1. b \in Nat
    BY <1>2
  <2> HIDE DEF b
  <2>2. Smaller(next + b, Len(l) + 1) \in next..(Len(l) + 1)
    BY <2>1 DEF Smaller
  <2>3. QED
    BY <1>3, <2>2 DEF b
<1>5. PumpedNext(l, t, cs, next, m) \in
        {next, Smaller(First(l, next) + n * MaxBatch, Len(l) + 1)}
  BY DEF PumpedNext, n
<1>6. QED
  BY <1>4, <1>5

-----------------------------------------------------------------------------
\* The inductive invariant

\* A call is not ahead of term t; an acknowledgement is for what its request
\* carries; and the log l of a leader of t still has what it has sent.
InLog(c, l, t, leads) ==
    /\ c.request.term <= t
    /\ c.status = "acked" => c.index = Reach(c.request)
    /\ leads /\ c.request.term = t => Reach(c.request) <= Len(l)

CallsInLog == \A c \in calls : InLog(c, log, term, leading)

WindowInv == TypeOK /\ NextBeyondMatch /\ CallsInLog

\* The types of the single variables.
LEMMA Types ==
    ASSUME TypeOK
    PROVE  /\ term \in Nat /\ fTerm \in Nat /\ rTerm \in Nat
           /\ commitIndex \in Nat /\ fCommit \in Nat /\ matchIndex \in Nat
           /\ losses \in Nat /\ nextIndex \in Nat \ {0}
           /\ leading \in BOOLEAN /\ rLeads \in BOOLEAN
           /\ mode \in {"probe", "replicate"}
           /\ log \in Seq(Entry) /\ fLog \in Seq(Entry) /\ rLog \in Seq(Entry)
           /\ calls \subseteq Call /\ late \subseteq Request
BY DEF TypeOK

\* A log with one more entry.
LEMMA Appended ==
    ASSUME NEW l \in Seq(Entry), NEW t \in Nat
    PROVE  /\ Append(l, [term |-> t]) \in Seq(Entry)
           /\ Len(Append(l, [term |-> t])) = Len(l) + 1
<1>1. [term |-> t] \in Entry
  BY DEF Entry
<1>2. QED
  BY <1>1

\* _becomeLeader takes a term above every other.
LEMMA NewTermType ==
    ASSUME TypeOK
    PROVE  NewTerm \in Nat /\ NewTerm > term /\ NewTerm > fTerm /\ NewTerm > rTerm
<1>1. term \in Nat /\ fTerm \in Nat /\ rTerm \in Nat
  BY Types
<1>2. QED
  BY <1>1 DEF NewTerm, Larger

\* The commit index stays an index.
LEMMA CommittedWithType ==
    ASSUME TypeOK, NEW match \in Nat
    PROVE  CommittedWith(match) \in Nat
<1> DEFINE ready == {k \in (commitIndex + 1)..Len(log) :
                       log[k].term = term /\ k <= match}
<1>1. ready \in SUBSET Nat
  BY Types
<1>2. CASE ready = {}
  BY <1>2, Types DEF CommittedWith
<1>3. CASE ready # {}
  <2>1. \E k \in ready : \A m \in ready : m <= k
    <3>1. ready \in SUBSET (0..Len(log))
      BY Types
    <3>2. Len(log) \in Nat
      BY Types
    <3> HIDE DEF ready
    <3>3. QED
      BY <1>3, <3>1, <3>2, GreatestNatural
  <2> DEFINE best == CHOOSE k \in ready : \A m \in ready : m <= k
  <2>2. best \in ready
    <3> HIDE DEF ready
    <3>1. QED
      BY <2>1
  <2>3. CommittedWith(match) = best
    BY <1>3 DEF CommittedWith
  <2> HIDE DEF best, ready
  <2>4. QED
    BY <1>1, <2>2, <2>3
<1>4. QED
  BY <1>2, <1>3

\* After a pump the calls are well-formed, if those it started from were.
LEMMA PumpKeeps ==
    ASSUME NEW l \in Seq(Entry), NEW t \in Nat, NEW commit \in Nat,
           NEW cs \in SUBSET Call, \A c \in cs : InLog(c, l, t, TRUE),
           NEW next \in 1..(Len(l) + 1), NEW m, NEW heartbeat,
           Pump(l, t, commit, cs, next, m, heartbeat)
    PROVE  /\ calls' \subseteq Call /\ \A c \in calls' : InLog(c, l, t, TRUE)
           /\ nextIndex' \in next..(Len(l) + 1)
<1>1. calls' = PumpedCalls(l, t, commit, cs, next, m, heartbeat)
      /\ nextIndex' = PumpedNext(l, t, cs, next, m)
  BY DEF Pump
<1>2. next \in Nat
  OBVIOUS
<1>3. \A c \in calls' : c \in cs \/ Fresh(c, l, t)
  BY <1>1, <1>2, PumpedCallsFresh
<1>4. ASSUME NEW c, Fresh(c, l, t)
      PROVE  c \in Call /\ InLog(c, l, t, TRUE)
  BY <1>4 DEF Fresh, InLog
<1>5. calls' \subseteq Call /\ \A c \in calls' : InLog(c, l, t, TRUE)
  BY <1>3, <1>4
<1>6. nextIndex' \in next..(Len(l) + 1)
  BY <1>1, PumpedNextRange
<1>7. QED
  BY <1>5, <1>6

-----------------------------------------------------------------------------
\* The first state

LEMMA InitWindow ==
    ASSUME Init
    PROVE  WindowInv
<1>1. PICK h \in Histories :
        /\ log = Append(h[1], [term |-> FirstTerm])
        /\ nextIndex = Len(h[1]) + 1
        /\ fLog = h[2] /\ fTerm = LastTerm(h[2])
  BY DEF Init
<1>2. h[1] \in Seq(Entry) /\ h[2] \in Seq(Entry)
  BY HistoryAssumption
<1>3. FirstTerm \in Nat
  BY BoundAssumption
<1>4. log \in Seq(Entry) /\ Len(log) = Len(h[1]) + 1
  BY <1>1, <1>2, <1>3, Appended
<1>5. fTerm \in Nat
  BY <1>1, <1>2, EntryTerms, TermAtType DEF LastTerm
<1>6. nextIndex \in 1..(Len(log) + 1) /\ nextIndex <= Len(log)
  BY <1>1, <1>2, <1>4
<1>7. calls = PumpedCalls(log, term, 0, {}, nextIndex, mode, TRUE) /\ term \in Nat
  BY <1>3 DEF Init
<1>8. ASSUME NEW c \in calls
      PROVE  c \in Call /\ InLog(c, log, term, leading)
  <2>1. nextIndex \in Nat
    BY <1>6
  <2>2. Fresh(c, log, term)
    <3>1. c \in {} \/ Fresh(c, log, term)
      BY <1>4, <1>7, <2>1, PumpedCallsFresh
    <3>2. QED
      BY <3>1
  <2>3. QED
    BY <1>7, <2>2 DEF Fresh, InLog
<1>9. rLog \in Seq(Entry)
  BY DEF Init
<1>10. TypeOK
  <2>1. /\ term = FirstTerm /\ leading = TRUE /\ commitIndex = 0
        /\ matchIndex = 0 /\ mode = "probe" /\ fCommit = 0
        /\ rTerm = FirstTerm /\ rLeads = FALSE /\ late = {} /\ losses = 0
    BY DEF Init
  <2>2. nextIndex \in Nat \ {0}
    BY <1>4, <1>6
  <2>3. calls \subseteq Call
    BY <1>8
  <2>4. fLog \in Seq(Entry)
    BY <1>1, <1>2
  <2>5. {term, fTerm, rTerm, commitIndex, fCommit, matchIndex, losses} \subseteq Nat
    BY <1>3, <1>5, <2>1
  <2>6. {leading, rLeads} \subseteq BOOLEAN /\ mode \in {"probe", "replicate"}
    BY <2>1, Zenon
  <2>7. {log, fLog, rLog} \subseteq Seq(Entry)
    BY <1>4, <1>9, <2>4, Zenon
  <2>8. calls \subseteq Call /\ late \subseteq Request
    BY <2>1, <2>3, Zenon
  <2>9. QED
    BY <2>2, <2>5, <2>6, <2>7, <2>8, Zenon DEF TypeOK
<1>11. NextBeyondMatch
  BY <1>4, <1>6 DEF Init, NextBeyondMatch
<1>12. QED
  BY <1>8, <1>10, <1>11 DEF WindowInv, CallsInLog

-----------------------------------------------------------------------------
\* The steps

\* What a step leaves to the follower or to the third server does not matter
\* to the invariant if the types are kept.
LEMMA OthersStep ==
    ASSUME WindowInv, UNCHANGED <<own, progress, net>>,
           fTerm' \in Nat, fLog' \in Seq(Entry), fCommit' \in Nat,
           rTerm' \in Nat, rLog' \in Seq(Entry), rLeads' \in BOOLEAN
    PROVE  WindowInv'
BY DEF WindowInv, TypeOK, NextBeyondMatch, CallsInLog, own, progress, net

\* Where the server stops leading, its calls need only not be ahead of its term.
LEMMA DeposedStep ==
    ASSUME WindowInv, term' \in Nat, term' >= term, leading' = FALSE,
           log' \in Seq(Entry), calls' \subseteq calls,
           UNCHANGED <<commitIndex, progress, late, losses>>,
           fTerm' \in Nat, rTerm' \in Nat, rLog' \in Seq(Entry),
           rLeads' \in BOOLEAN, UNCHANGED <<fLog, fCommit>>
    PROVE  WindowInv'
<1>1. TypeOK'
  BY DEF WindowInv, TypeOK, progress
<1>2. NextBeyondMatch'
  BY DEF NextBeyondMatch
<1>3. CallsInLog'
  <2>1. \A c \in calls' : c.request.term \in Nat
    BY DEF WindowInv, TypeOK, Call, Request
  <2>2. term \in Nat
    BY Types DEF WindowInv
  <2>3. QED
    BY <2>1, <2>2 DEF WindowInv, CallsInLog, InLog
<1>4. QED
  BY <1>1, <1>2, <1>3 DEF WindowInv

\* Where the server leads on, with a log that is no shorter and a next index
\* beyond what it counts as matched, a pump keeps the invariant.
LEMMA PumpStep ==
    ASSUME WindowInv, NEW l \in Seq(Entry), NEW t \in Nat,
           leading' = TRUE, log' = l, term' = t,
           NEW commit \in Nat, commitIndex' \in Nat,
           NEW cs \in SUBSET Call, \A c \in cs : InLog(c, l, t, TRUE),
           NEW next \in 1..(Len(l) + 1),
           NEW match \in Nat, matchIndex' = match, match < next,
           NEW m \in {"probe", "replicate"}, mode' = m,
           NEW heartbeat \in BOOLEAN,
           Pump(l, t, commit, cs, next, m, heartbeat),
           late' = late, losses' = losses,
           fTerm' \in Nat, rTerm' \in Nat, rLog' \in Seq(Entry),
           rLeads' \in BOOLEAN, fLog' = fLog, fCommit' = fCommit
    PROVE  WindowInv'
<1>1. /\ calls' \subseteq Call /\ \A c \in calls' : InLog(c, l, t, TRUE)
      /\ nextIndex' \in next..(Len(l) + 1)
  BY PumpKeeps
<1>2. TypeOK'
  <2>1. nextIndex' \in Nat \ {0}
    BY <1>1
  <2>2. QED
    BY <1>1, <2>1 DEF WindowInv, TypeOK
<1>3. NextBeyondMatch'
  BY <1>1 DEF NextBeyondMatch
<1>4. CallsInLog'
  BY <1>1 DEF CallsInLog
<1>5. QED
  BY <1>2, <1>3, <1>4 DEF WindowInv

\* The calls of a leader, as the invariant has them.
LEMMA LeadersCalls ==
    ASSUME WindowInv, leading
    PROVE  /\ calls \in SUBSET Call /\ leading = TRUE
           /\ \A c \in calls : InLog(c, log, term, TRUE)
           /\ nextIndex \in 1..(Len(log) + 1) /\ matchIndex < nextIndex
<1>1. leading = TRUE
  BY Types DEF WindowInv
<1>2. \A c \in calls : InLog(c, log, term, TRUE)
  BY <1>1 DEF WindowInv, CallsInLog
<1>3. nextIndex \in 1..(Len(log) + 1) /\ matchIndex < nextIndex
  BY Types DEF WindowInv, NextBeyondMatch
<1>4. QED
  BY <1>1, <1>2, <1>3, Types DEF WindowInv

LEMMA LeadStep ==
    ASSUME WindowInv, Lead
    PROVE  WindowInv'
<1> DEFINE l == Append(log, [term |-> NewTerm])
<1>1. NewTerm \in Nat /\ NewTerm > term
  BY NewTermType DEF WindowInv
<1>2. l \in Seq(Entry) /\ Len(l) = Len(log) + 1 /\ Len(log) \in Nat
  BY <1>1, Types, Appended DEF WindowInv
<1> HIDE DEF l
<1>3. /\ term' = NewTerm /\ leading' = TRUE /\ log' = l
      /\ matchIndex' = 0 /\ mode' = "probe"
      /\ Pump(l, NewTerm, commitIndex, calls, Len(log) + 1, "probe", TRUE)
      /\ UNCHANGED <<commitIndex, late, losses, fLog, fCommit>>
  BY DEF Lead, l
<1>4. /\ fTerm' \in Nat /\ rTerm' \in Nat /\ rLog' \in Seq(Entry)
      /\ rLeads' \in BOOLEAN
  BY <1>1, Types DEF Lead, rival, WindowInv
<1>5. \A c \in calls : InLog(c, l, NewTerm, TRUE)
  <2>1. \A c \in calls : c.request.term \in Nat
    BY Types DEF WindowInv, Call, Request
  <2>2. QED
    BY <1>1, <2>1, Types, SMTT(30) DEF WindowInv, CallsInLog, InLog
<1>6. calls \in SUBSET Call /\ commitIndex \in Nat
  BY Types DEF WindowInv
<1>7. Len(log) + 1 \in 1..(Len(l) + 1) /\ 0 < Len(log) + 1
  BY <1>2
<1>8. "probe" \in {"probe", "replicate"} /\ TRUE \in BOOLEAN /\ 0 \in Nat
  OBVIOUS
<1>9. QED
  BY <1>1, <1>2, <1>3, <1>4, <1>5, <1>6, <1>7, <1>8, PumpStep, Zenon

LEMMA HeartbeatStep ==
    ASSUME WindowInv, Heartbeat
    PROVE  WindowInv'
<1>1. /\ Pump(log, term, commitIndex, calls, nextIndex, mode, TRUE)
      /\ leading' = leading /\ log' = log /\ term' = term
      /\ commitIndex' = commitIndex /\ matchIndex' = matchIndex /\ mode' = mode
      /\ late' = late /\ losses' = losses /\ fTerm' = fTerm /\ rTerm' = rTerm
      /\ rLog' = rLog /\ rLeads' = rLeads /\ fLog' = fLog /\ fCommit' = fCommit
  BY DEF Heartbeat, own, follower, rival
<1>2. leading
  BY DEF Heartbeat
<1>3. /\ leading' = TRUE /\ term \in Nat /\ log \in Seq(Entry)
      /\ commitIndex \in Nat /\ commitIndex' \in Nat /\ matchIndex \in Nat
      /\ mode \in {"probe", "replicate"}
      /\ fTerm' \in Nat /\ rTerm' \in Nat /\ rLog' \in Seq(Entry)
      /\ rLeads' \in BOOLEAN
  BY <1>1, <1>2, Types, LeadersCalls DEF WindowInv
<1>4. /\ calls \in SUBSET Call /\ \A c \in calls : InLog(c, log, term, TRUE)
      /\ nextIndex \in 1..(Len(log) + 1) /\ matchIndex < nextIndex
      /\ TRUE \in BOOLEAN
  BY <1>2, LeadersCalls
<1>5. QED
  BY <1>1, <1>3, <1>4, PumpStep, Zenon

LEMMA ClientAppendStep ==
    ASSUME WindowInv, ClientAppend
    PROVE  WindowInv'
<1> DEFINE l == Append(log, [term |-> term])
<1>1. l \in Seq(Entry) /\ Len(l) = Len(log) + 1 /\ Len(log) \in Nat
  BY Types, Appended DEF WindowInv
<1>2. /\ Pump(l, term, commitIndex, calls, nextIndex, mode, TRUE)
      /\ leading' = leading /\ log' = l /\ term' = term
      /\ commitIndex' = commitIndex /\ matchIndex' = matchIndex /\ mode' = mode
      /\ late' = late /\ losses' = losses /\ fTerm' = fTerm /\ rTerm' = rTerm
      /\ rLog' = rLog /\ rLeads' = rLeads /\ fLog' = fLog /\ fCommit' = fCommit
  BY DEF ClientAppend, follower, rival
<1> HIDE DEF l
<1>3. leading
  BY DEF ClientAppend
<1>4. \A c \in calls : InLog(c, l, term, TRUE)
  <2>1. \A c \in calls : InLog(c, log, term, TRUE)
    BY <1>3, LeadersCalls
  <2>2. \A c \in calls : Reach(c.request) \in Nat
    <3>1. \A c \in calls : c.request \in Request
      BY Types DEF WindowInv, Call
    <3>2. \A q \in Request : q.prev \in Nat /\ Len(q.entries) \in Nat
      BY DEF Request
    <3>3. QED
      BY <3>1, <3>2 DEF Reach
  <2>3. QED
    BY <1>1, <2>1, <2>2 DEF InLog
<1>5. nextIndex \in 1..(Len(l) + 1)
  BY <1>1, <1>3, LeadersCalls
<1>6. /\ leading' = TRUE /\ term \in Nat /\ log \in Seq(Entry)
      /\ commitIndex \in Nat /\ commitIndex' \in Nat /\ matchIndex \in Nat
      /\ mode \in {"probe", "replicate"}
      /\ fTerm' \in Nat /\ rTerm' \in Nat /\ rLog' \in Seq(Entry)
      /\ rLeads' \in BOOLEAN
  BY <1>2, <1>3, Types, LeadersCalls DEF WindowInv
<1>7. calls \in SUBSET Call /\ matchIndex < nextIndex /\ TRUE \in BOOLEAN
  BY <1>3, LeadersCalls
<1>8. QED
  BY <1>1, <1>2, <1>4, <1>5, <1>6, <1>7, PumpStep, ZenonT(40)

LEMMA AcknowledgedStep ==
    ASSUME WindowInv, NEW c \in calls, Acknowledged(c)
    PROVE  WindowInv'
<1> DEFINE match  == Matched(c)
           commit == CommittedWith(match)
           next   == Larger(nextIndex, match + 1)
<1>1. leading /\ c.request.term = term /\ c.status = "acked"
  BY DEF Acknowledged, Current
<1>2. c.index = Reach(c.request) /\ Reach(c.request) <= Len(log) /\ c.index \in Nat
  <2>1. InLog(c, log, term, TRUE)
    BY <1>1, LeadersCalls
  <2>2. c \in Call
    BY Types DEF WindowInv
  <2>3. QED
    BY <1>1, <2>1, <2>2 DEF InLog, Call
<1>3. match \in Nat /\ match <= Len(log) /\ Len(log) \in Nat
  BY <1>1, <1>2, LeadersCalls, Types DEF Matched, Larger, WindowInv
<1>4. commit \in Nat
  BY <1>3, CommittedWithType DEF WindowInv
<1>5. next \in 1..(Len(log) + 1) /\ match < next
  BY <1>1, <1>3, LeadersCalls DEF Larger
<1>6. /\ Pump(log, term, commit, calls \ {c}, next, "replicate", FALSE)
      /\ leading' = leading /\ log' = log /\ term' = term
      /\ commitIndex' = commit /\ matchIndex' = match /\ mode' = "replicate"
      /\ late' = late /\ losses' = losses /\ fTerm' = fTerm /\ rTerm' = rTerm
      /\ rLog' = rLog /\ rLeads' = rLeads /\ fLog' = fLog /\ fCommit' = fCommit
  BY DEF Acknowledged, follower, rival
<1> HIDE DEF match, commit, next
<1>7. /\ calls \ {c} \in SUBSET Call
      /\ \A d \in calls \ {c} : InLog(d, log, term, TRUE)
  BY <1>1, LeadersCalls
<1>8. TypeOK /\ FALSE \in BOOLEAN /\ "replicate" \in {"probe", "replicate"}
  BY DEF WindowInv
<1>9. QED
  BY <1>1, <1>3, <1>4, <1>5, <1>6, <1>7, <1>8, Types, LeadersCalls, PumpStep, Zenon

LEMMA RefusalOutrunStep ==
    ASSUME WindowInv, NEW c \in calls, RefusalOutrun(c)
    PROVE  WindowInv'
<1>1. /\ Pump(log, term, commitIndex, calls \ {c}, nextIndex, mode, FALSE)
      /\ leading' = leading /\ log' = log /\ term' = term
      /\ commitIndex' = commitIndex /\ matchIndex' = matchIndex /\ mode' = mode
      /\ late' = late /\ losses' = losses /\ fTerm' = fTerm /\ rTerm' = rTerm
      /\ rLog' = rLog /\ rLeads' = rLeads /\ fLog' = fLog /\ fCommit' = fCommit
  BY DEF RefusalOutrun, own, follower, rival
<1>2. leading
  BY DEF RefusalOutrun, Current
<1>3. /\ calls \ {c} \in SUBSET Call
      /\ \A d \in calls \ {c} : InLog(d, log, term, TRUE)
  BY <1>2, LeadersCalls
<1>4. /\ leading' = TRUE /\ term \in Nat /\ log \in Seq(Entry)
      /\ commitIndex \in Nat /\ commitIndex' \in Nat /\ matchIndex \in Nat
      /\ mode \in {"probe", "replicate"}
      /\ fTerm' \in Nat /\ rTerm' \in Nat /\ rLog' \in Seq(Entry)
      /\ rLeads' \in BOOLEAN
  BY <1>1, <1>2, Types, LeadersCalls DEF WindowInv
<1>5. /\ nextIndex \in 1..(Len(log) + 1) /\ matchIndex < nextIndex
      /\ FALSE \in BOOLEAN
  BY <1>2, LeadersCalls
<1>6. QED
  BY <1>1, <1>3, <1>4, <1>5, PumpStep, Zenon

\* A call that _enterProbe supersedes is otherwise the same.
LEMMA SupersededSame ==
    ASSUME NEW cs \in SUBSET Call, NEW d \in Superseded(cs)
    PROVE  \E c \in cs : /\ d \in Call /\ d.request = c.request
                         /\ d.status = c.status /\ d.index = c.index
<1>1. PICK c \in cs : d = c \/ d = [c EXCEPT !.superseded = TRUE]
  BY DEF Superseded
<1>2. c \in Call
  OBVIOUS
<1>3. QED
  BY <1>1, <1>2 DEF Call

LEMMA SupersededType ==
    ASSUME NEW cs \in SUBSET Call, NEW l, NEW t, NEW leads,
           \A c \in cs : InLog(c, l, t, leads)
    PROVE  /\ Superseded(cs) \in SUBSET Call
           /\ \A c \in Superseded(cs) : InLog(c, l, t, leads)
<1>1. ASSUME NEW d \in Superseded(cs)
      PROVE  d \in Call /\ InLog(d, l, t, leads)
  BY SupersededSame DEF InLog
<1>2. QED
  BY <1>1

LEMMA RefusedStep ==
    ASSUME WindowInv, NEW c \in calls, Refused(c)
    PROVE  WindowInv'
<1>1. leading /\ c.request.term = term /\ c.request.prev > matchIndex
  BY DEF Refused, Current
<1>2. c \in Call /\ InLog(c, log, term, TRUE)
  BY <1>1, LeadersCalls
<1>3. /\ c.request.prev \in Nat /\ c.request.prev <= Len(log) /\ c.index \in Nat
      /\ matchIndex \in Nat /\ Len(log) \in Nat
  <2>1. /\ c.request.prev \in Nat /\ Len(c.request.entries) \in Nat
        /\ c.index \in Nat
    BY <1>2 DEF Call, Request
  <2>2. c.request.prev + Len(c.request.entries) <= Len(log)
    BY <1>1, <1>2 DEF InLog, Reach
  <2>3. matchIndex \in Nat /\ Len(log) \in Nat
    BY Types DEF WindowInv
  <2>4. QED
    BY <2>1, <2>2, <2>3
<1>4. BackedTo(c) \in 1..(Len(log) + 1) /\ matchIndex < BackedTo(c)
  BY <1>1, <1>3 DEF BackedTo, Backed, Larger
<1>5. /\ Superseded(calls \ {c}) \in SUBSET Call
      /\ \A d \in Superseded(calls \ {c}) : InLog(d, log, term, TRUE)
  <2>1. /\ calls \ {c} \in SUBSET Call
        /\ \A d \in calls \ {c} : InLog(d, log, term, TRUE)
    BY <1>1, LeadersCalls
  <2>2. QED
    BY <2>1, SupersededType, Zenon
<1>6. /\ Pump(log, term, commitIndex, Superseded(calls \ {c}), BackedTo(c),
              "probe", FALSE)
      /\ leading' = leading /\ log' = log /\ term' = term
      /\ commitIndex' = commitIndex /\ matchIndex' = matchIndex /\ mode' = "probe"
      /\ late' = late /\ losses' = losses /\ fTerm' = fTerm /\ rTerm' = rTerm
      /\ rLog' = rLog /\ rLeads' = rLeads /\ fLog' = fLog /\ fCommit' = fCommit
  BY DEF Refused, own, follower, rival
<1>7. TypeOK /\ FALSE \in BOOLEAN /\ "probe" \in {"probe", "replicate"}
  BY DEF WindowInv
<1>8. QED
  BY <1>1, <1>4, <1>5, <1>6, <1>7, Types, LeadersCalls, PumpStep, Zenon

LEMMA CallFailsStep ==
    ASSUME WindowInv, NEW c \in calls, CallFails(c)
    PROVE  WindowInv'
<1>1. /\ UNCHANGED own /\ UNCHANGED follower /\ UNCHANGED rival
      /\ matchIndex' = matchIndex /\ losses' = losses + 1
  BY DEF CallFails
<1>2. c \in Call /\ c.request \in Request /\ c.request.prev \in Nat
  BY Types DEF WindowInv, Call, Request
<1>3. late' \subseteq Request /\ losses' \in Nat
  BY <1>1, <1>2, Types, SMTT(30) DEF CallFails, WindowInv
<1>4. /\ nextIndex' \in Nat \ {0} /\ mode' \in {"probe", "replicate"}
      /\ leading => nextIndex' <= Len(log) + 1 /\ matchIndex < nextIndex'
  <2>1. CASE Current(c) /\ ~c.superseded
    <3>1. /\ nextIndex' = Larger(matchIndex + 1,
                                 Smaller(nextIndex, c.request.prev + 1))
          /\ mode' = "probe"
      BY <2>1 DEF CallFails
    <3>2. nextIndex \in 1..(Len(log) + 1) /\ matchIndex < nextIndex
      BY <2>1, LeadersCalls DEF Current
    <3>3. matchIndex \in Nat /\ Len(log) \in Nat
      BY Types DEF WindowInv
    <3>4. nextIndex' \in Nat \ {0} /\ nextIndex' <= Len(log) + 1
          /\ matchIndex < nextIndex'
      BY <1>2, <3>1, <3>2, <3>3 DEF Larger, Smaller
    <3>5. QED
      BY <3>1, <3>4
  <2>2. CASE ~(Current(c) /\ ~c.superseded)
    <3>1. nextIndex' = nextIndex /\ mode' = mode
      BY <2>2 DEF CallFails
    <3>2. QED
      BY <3>1, LeadersCalls, Types DEF WindowInv, NextBeyondMatch
  <2>3. QED
    BY <2>1, <2>2
<1>5. calls' \subseteq Call /\ \A d \in calls' : InLog(d, log, term, leading)
  <2>1. calls' = calls \ {c} \/ calls' = Superseded(calls \ {c})
    BY DEF CallFails
  <2>2. /\ calls \ {c} \in SUBSET Call
        /\ \A d \in calls \ {c} : InLog(d, log, term, leading)
    BY Types DEF WindowInv, CallsInLog
  <2>3. /\ Superseded(calls \ {c}) \in SUBSET Call
        /\ \A d \in Superseded(calls \ {c}) : InLog(d, log, term, leading)
    BY <2>2, SupersededType, Zenon
  <2>4. QED
    BY <2>1, <2>2, <2>3
<1>6. TypeOK'
  BY <1>1, <1>3, <1>4, <1>5 DEF WindowInv, TypeOK, own, follower, rival
<1>7. NextBeyondMatch' /\ CallsInLog'
  BY <1>1, <1>4, <1>5 DEF NextBeyondMatch, CallsInLog, own
<1>8. QED
  BY <1>6, <1>7 DEF WindowInv

LEMMA AnswerDeposesStep ==
    ASSUME WindowInv, NEW c \in calls, AnswerDeposes(c)
    PROVE  WindowInv'
<1>1. c \in Call /\ c.term \in Nat
  BY Types DEF WindowInv, Call
<1>2. term' \in Nat /\ term' >= term /\ leading' = FALSE /\ calls' \subseteq calls
  BY <1>1, Types DEF AnswerDeposes, WindowInv
<1>3. log' \in Seq(Entry) /\ rLog' \in Seq(Entry) /\ fTerm' \in Nat
      /\ rTerm' \in Nat /\ rLeads' \in BOOLEAN
  BY Types DEF AnswerDeposes, WindowInv, follower, rival
<1>4. UNCHANGED <<commitIndex, progress, late, losses>> /\ UNCHANGED <<fLog, fCommit>>
  BY DEF AnswerDeposes, follower
<1>5. QED
  BY <1>2, <1>3, <1>4, DeposedStep

LEMMA AnswerFencedStep ==
    ASSUME WindowInv, NEW c \in calls, AnswerFenced(c)
    PROVE  WindowInv'
<1>1. /\ calls' = calls \ {c}
      /\ UNCHANGED <<own, progress, late, losses, follower, rival>>
  BY DEF AnswerFenced
<1>2. TypeOK'
  BY <1>1 DEF WindowInv, TypeOK, own, progress, follower, rival
<1>3. NextBeyondMatch' /\ CallsInLog'
  BY <1>1 DEF WindowInv, NextBeyondMatch, CallsInLog, own, progress
<1>4. QED
  BY <1>2, <1>3 DEF WindowInv

LEMMA RivalLeadsStep ==
    ASSUME WindowInv, RivalLeads
    PROVE  WindowInv'
<1>1. NewTerm \in Nat /\ NewTerm > term
  BY NewTermType DEF WindowInv
<1>2. /\ rTerm' \in Nat /\ rLeads' \in BOOLEAN /\ rLog' \in Seq(Entry)
      /\ UNCHANGED <<log, commitIndex, progress, net, fLog, fCommit>>
  BY <1>1, Types, Appended DEF RivalLeads, WindowInv
<1>3. CASE term' = NewTerm /\ leading' = FALSE /\ UNCHANGED fTerm
  <2>1. /\ term' \in Nat /\ term' >= term /\ fTerm' \in Nat
        /\ log' \in Seq(Entry) /\ calls' \subseteq calls
        /\ UNCHANGED <<commitIndex, progress, late, losses>>
        /\ UNCHANGED <<fLog, fCommit>>
    BY <1>1, <1>2, <1>3, Types DEF WindowInv, net
  <2>2. QED
    BY <1>2, <1>3, <2>1, DeposedStep
<1>4. CASE fTerm' = NewTerm /\ UNCHANGED <<term, leading>>
  <2>1. /\ fTerm' \in Nat /\ fLog' \in Seq(Entry) /\ fCommit' \in Nat
        /\ UNCHANGED <<own, progress, net>>
    BY <1>1, <1>2, <1>4, Types DEF WindowInv, own
  <2>2. QED
    BY <1>2, <2>1, OthersStep
<1>5. QED
  BY <1>3, <1>4 DEF RivalLeads

LEMMA RivalReachesLeaderStep ==
    ASSUME WindowInv, RivalReachesLeader
    PROVE  WindowInv'
<1>1. Merge(log, 0, rLog) \in Seq(Entry)
  <2>1. 0 \in 0..Len(log) /\ log \in Seq(Entry) /\ rLog \in Seq(Entry)
    BY Types DEF WindowInv
  <2>2. QED
    BY <2>1, MergeType
<1>2. /\ term' \in Nat /\ term' >= term /\ leading' = FALSE
      /\ log' \in Seq(Entry) /\ calls' \subseteq calls
      /\ UNCHANGED <<commitIndex, progress, late, losses>>
      /\ UNCHANGED <<fLog, fCommit>>
  BY <1>1, Types DEF RivalReachesLeader, WindowInv, net, follower
<1>3. /\ fTerm' \in Nat /\ rTerm' \in Nat /\ rLog' \in Seq(Entry)
      /\ rLeads' \in BOOLEAN
  BY Types DEF RivalReachesLeader, WindowInv, follower, rival
<1>4. QED
  BY <1>2, <1>3, DeposedStep

LEMMA RivalReachesFollowerStep ==
    ASSUME WindowInv, RivalReachesFollower
    PROVE  WindowInv'
<1>1. Merge(fLog, 0, rLog) \in Seq(Entry)
  <2>1. 0 \in 0..Len(fLog) /\ fLog \in Seq(Entry) /\ rLog \in Seq(Entry)
    BY Types DEF WindowInv
  <2>2. QED
    BY <2>1, MergeType
<1>2. /\ fTerm' \in Nat /\ fLog' \in Seq(Entry) /\ fCommit' \in Nat
      /\ rTerm' \in Nat /\ rLog' \in Seq(Entry) /\ rLeads' \in BOOLEAN
      /\ UNCHANGED <<own, progress, net>>
  BY <1>1, Types DEF RivalReachesFollower, WindowInv, rival
<1>3. QED
  BY <1>2, OthersStep

LEMMA RivalFollowsStep ==
    ASSUME WindowInv, RivalFollows
    PROVE  WindowInv'
<1>1. CommittedWith(Len(log)) \in Nat
  BY Types, CommittedWithType DEF WindowInv
<1>2. /\ UNCHANGED <<term, leading, log, progress, net, follower>>
      /\ rTerm' = term /\ rLeads' = FALSE /\ rLog' = log
      /\ commitIndex' = CommittedWith(Len(log))
  BY DEF RivalFollows
<1>3. TypeOK'
  BY <1>1, <1>2 DEF WindowInv, TypeOK, progress, net, follower
<1>4. NextBeyondMatch' /\ CallsInLog'
  BY <1>2 DEF WindowInv, NextBeyondMatch, CallsInLog, progress, net
<1>5. QED
  BY <1>3, <1>4 DEF WindowInv

\* The hint of a refusal is an index.
LEMMA HintType ==
    ASSUME NEW q \in Request, TypeOK, ~Accepts(q)
    PROVE  Hint(q) \in Nat
<1>1. fLog \in Seq(Entry) /\ q.prev \in Nat /\ q.prevTerm \in Nat
  BY Types DEF Request
<1>2. CASE q.term < fTerm
  BY <1>1, <1>2 DEF Hint
<1>3. CASE ~(q.term < fTerm)
  <2>1. Hint(q) = ConflictHint(fLog, q.prev)
    BY <1>3 DEF Hint
  <2>2. q.prev # 0
    <3>1. q.term \in Nat /\ fTerm \in Nat
      BY Types DEF Request
    <3>2. ~PrevMatches(fLog, q.prev, q.prevTerm)
      BY <1>3, <3>1 DEF Accepts
    <3>3. q.prev = 0 => q.prevTerm = 0
      BY DEF Request
    <3>4. QED
      BY <1>1, <3>2, <3>3 DEF PrevMatches, TermAt
  <2>3. QED
    BY <1>1, <2>1, <2>2, EntryTerms, ConflictHintType
<1>4. QED
  BY <1>2, <1>3

\* handleAppendEntries leaves the follower's variables well-typed.
LEMMA HandleType ==
    ASSUME TypeOK, NEW q \in Request, Handle(q)
    PROVE  fTerm' \in Nat /\ fLog' \in Seq(Entry) /\ fCommit' \in Nat
<1>1. /\ q.term \in Nat /\ q.prev \in Nat /\ q.entries \in Seq(Entry)
      /\ q.commit \in Nat
  BY DEF Request
<1>2. fTerm' \in Nat
  BY <1>1, Types DEF Handle, Larger
<1>3. fLog' \in Seq(Entry)
  <2>1. CASE Accepts(q)
    <3>1. q.prev \in 0..Len(fLog) /\ fLog \in Seq(Entry)
      BY <1>1, <2>1, Types DEF Accepts, PrevMatches
    <3>2. Merge(fLog, q.prev, q.entries) \in Seq(Entry)
      BY <1>1, <3>1, MergeType
    <3>3. QED
      BY <2>1, <3>2 DEF Handle
  <2>2. CASE ~Accepts(q)
    BY <2>2, Types DEF Handle
  <2>3. QED
    BY <2>1, <2>2
<1>4. fCommit' \in Nat
  <2>1. q.prev + Len(q.entries) \in Nat
    BY <1>1
  <2>2. CommitAfter(q) \in Nat
    BY <1>1, <2>1, Types DEF CommitAfter, Larger, Smaller
  <2>3. QED
    BY <2>2, Types DEF Handle
<1>5. QED
  BY <1>2, <1>3, <1>4

\* What a reply acknowledges is what the request carries.
LEMMA RepliedType ==
    ASSUME TypeOK, NEW c \in Call
    PROVE  /\ Replied(c) \in Call /\ Replied(c).request = c.request
           /\ Replied(c).status = "acked" => Replied(c).index = Reach(c.request)
<1> DEFINE q == c.request
           status == IF Accepts(q) THEN "acked" ELSE "refused"
           index  == IF Accepts(q) THEN q.prev + Len(q.entries) ELSE Hint(q)
<1>1. q \in Request
  BY DEF Call
<1>2. q.term \in Nat /\ q.prev + Len(q.entries) \in Nat
  <2>1. q.term \in Nat /\ q.prev \in Nat /\ Len(q.entries) \in Nat
    BY <1>1 DEF Request
  <2>2. QED
    BY <2>1
<1>3. Larger(fTerm, q.term) \in Nat
  BY <1>2, Types DEF Larger
<1>4. index \in Nat /\ status \in {"sent", "acked", "refused"}
  BY <1>1, <1>2, HintType
<1>5. Replied(c) = [c EXCEPT !.status = status, !.term = Larger(fTerm, q.term),
                             !.index = index]
  BY DEF Replied
<1>6. status = "acked" => index = q.prev + Len(q.entries)
  OBVIOUS
<1> HIDE DEF status, index
<1>7. Replied(c) \in Call /\ Replied(c).request = c.request
      /\ Replied(c).status = status /\ Replied(c).index = index
  BY <1>3, <1>4, <1>5 DEF Call
<1>8. QED
  BY <1>6, <1>7 DEF Reach

LEMMA ReceiveStep ==
    ASSUME WindowInv, NEW c \in calls, Receive(c)
    PROVE  WindowInv'
<1>1. TypeOK /\ c \in Call /\ c.request \in Request
  BY Types DEF WindowInv, Call
<1>2. fTerm' \in Nat /\ fLog' \in Seq(Entry) /\ fCommit' \in Nat
  BY <1>1, HandleType DEF Receive
<1>3. /\ calls' = (calls \ {c}) \cup {Replied(c)}
      /\ UNCHANGED <<own, progress, late, losses, rival>>
  BY DEF Receive
<1>4. ASSUME NEW d \in calls'
      PROVE  d \in Call /\ InLog(d, log, term, leading)
  <2>1. CASE d \in calls
    BY <1>1, <2>1, Types DEF WindowInv, CallsInLog
  <2>2. CASE d = Replied(c)
    <3>1. InLog(c, log, term, leading)
      BY DEF WindowInv, CallsInLog
    <3>2. QED
      BY <1>1, <2>2, <3>1, RepliedType DEF InLog
  <2>3. QED
    BY <1>3, <2>1, <2>2
<1>5. TypeOK'
  BY <1>1, <1>2, <1>3, <1>4 DEF TypeOK, own, progress, rival
<1>6. NextBeyondMatch' /\ CallsInLog'
  BY <1>3, <1>4 DEF WindowInv, NextBeyondMatch, CallsInLog, own, progress
<1>7. QED
  BY <1>5, <1>6 DEF WindowInv

LEMMA ReceiveLateStep ==
    ASSUME WindowInv, NEW q \in late, ReceiveLate(q)
    PROVE  WindowInv'
<1>1. TypeOK /\ q \in Request
  BY Types DEF WindowInv
<1>2. fTerm' \in Nat /\ fLog' \in Seq(Entry) /\ fCommit' \in Nat
  BY <1>1, HandleType DEF ReceiveLate
<1>3. /\ late' = late \ {q}
      /\ UNCHANGED <<own, progress, calls, losses, rival>>
  BY DEF ReceiveLate
<1>4. TypeOK'
  BY <1>1, <1>2, <1>3 DEF TypeOK, own, progress, rival
<1>5. NextBeyondMatch' /\ CallsInLog'
  BY <1>3 DEF WindowInv, NextBeyondMatch, CallsInLog, own, progress
<1>6. QED
  BY <1>4, <1>5 DEF WindowInv

-----------------------------------------------------------------------------
\* The theorems

LEMMA WindowStep ==
    ASSUME WindowInv, [Next]_vars
    PROVE  WindowInv'
<1>1. CASE Lead
  BY <1>1, LeadStep
<1>2. CASE RivalLeads
  BY <1>2, RivalLeadsStep
<1>3. CASE RivalFollows
  BY <1>3, RivalFollowsStep
<1>4. CASE RivalReachesLeader
  BY <1>4, RivalReachesLeaderStep
<1>5. CASE RivalReachesFollower
  BY <1>5, RivalReachesFollowerStep
<1>6. CASE Heartbeat
  BY <1>6, HeartbeatStep
<1>7. CASE ClientAppend
  BY <1>7, ClientAppendStep
<1>8. ASSUME NEW c \in calls, Answered(c)
      PROVE  WindowInv'
  BY <1>8, AnswerDeposesStep, AnswerFencedStep, AcknowledgedStep,
     RefusalOutrunStep, RefusedStep DEF Answered
<1>9. ASSUME NEW c \in calls, CallFails(c)
      PROVE  WindowInv'
  BY <1>9, CallFailsStep
<1>10. ASSUME NEW c \in calls, Receive(c)
       PROVE  WindowInv'
  BY <1>10, ReceiveStep
<1>11. ASSUME NEW q \in late, ReceiveLate(q)
       PROVE  WindowInv'
  BY <1>11, ReceiveLateStep
<1>12. CASE UNCHANGED vars
  <2>1. UNCHANGED own /\ UNCHANGED progress /\ UNCHANGED net
        /\ UNCHANGED follower /\ UNCHANGED rival
    BY <1>12 DEF vars
  <2>2. TypeOK'
    BY <2>1 DEF WindowInv, TypeOK, own, progress, net, follower, rival
  <2>3. NextBeyondMatch' /\ CallsInLog'
    BY <2>1 DEF WindowInv, NextBeyondMatch, CallsInLog, own, progress, net
  <2>4. QED
    BY <2>2, <2>3 DEF WindowInv
<1>13. QED
  BY <1>1, <1>2, <1>3, <1>4, <1>5, <1>6, <1>7, <1>8, <1>9, <1>10, <1>11, <1>12
     DEF Next

\* The invariant holds in every behaviour.
LEMMA Windowed == Spec => []WindowInv
<1>1. Init => WindowInv
  BY InitWindow
<1>2. WindowInv /\ [Next]_vars => WindowInv'
  BY WindowStep
<1>3. QED
  BY <1>1, <1>2, PTL DEF Spec

\* Whatever the engine stores of a follower and sends to it has its type.
THEOREM PipelineTypeCorrect == Spec => []TypeOK
<1>1. WindowInv => TypeOK
  BY DEF WindowInv
<1>2. QED
  BY Windowed, <1>1, PTL

\* The next index of a leader in _onPipelineReject, _onAppendError and
\* _onAppendResponse never falls to what is known to match, nor leaves the log.
THEOREM NextIsBeyondMatch == Spec => []NextBeyondMatch
<1>1. WindowInv => NextBeyondMatch
  BY DEF WindowInv
<1>2. QED
  BY Windowed, <1>1, PTL

-----------------------------------------------------------------------------
(***************************************************************************)
(* Logs and commits. w is what the leaders have written, as in Raft's      *)
(* theorems; it is not a variable of Pipeline, so the invariant says that  *)
(* there is such a w.                                                      *)
(***************************************************************************)

\* Every request that may still arrive.
Requests == {c.request : c \in calls} \cup late

\* The three logs, and what was written, are made of pieces of it. Only the
\* leader and the third server have led.
Sources(w) ==
    /\ Logs(Entry, w) /\ \A t \in DOMAIN w : Sourced(w, w[t], t)
    /\ Sourced(w, log, term) /\ Sourced(w, fLog, fTerm) /\ Sourced(w, rLog, rTerm)
    /\ \A t \in DOMAIN w : t <= term \/ t <= rTerm

\* A leader's log is what it has written. The term of a leader can only be
\* overtaken with the follower's vote.
Leaderships(w) ==
    /\ term > 0
    /\ leading => term \in DOMAIN w /\ w[term] = log
    /\ leading => \A t \in DOMAIN w : t > term => t <= fTerm
    /\ rLeads => rTerm \in DOMAIN w /\ w[rTerm] = rLog
    /\ leading /\ rLeads => term # rTerm

\* The first m entries of term T's log, committed by the server that led it:
\* every later log has them, and two of the three logs, this server's included.
Fixed(w, T, m) ==
    /\ Final(w, T, m)
    /\ T <= term /\ Agree(log, w[T], m)
    /\ \/ T <= fTerm /\ Agree(fLog, w[T], m)
       \/ T <= rTerm /\ Agree(rLog, w[T], m)
    /\ rLeads => rTerm # T

\* A commit index that was one in term t.
Confirmed(w, t, k) ==
    k = 0 \/ \E T, m \in Nat : T <= t /\ k <= m /\ Fixed(w, T, m)

\* The follower has what it takes for committed.
Covered(w) ==
    \/ fCommit = 0
    \/ \E T, m \in Nat : /\ T <= fTerm /\ fCommit <= m /\ Fixed(w, T, m)
                         /\ Agree(fLog, w[T], fCommit)

\* Requests carry pieces of what was written, and true commit indexes.
Sound(w, q) ==
    Piece(w, q) /\ q.term <= term /\ Confirmed(w, q.term, q.commit)

Asked(w) == \A q \in Requests : Sound(w, q)

\* What was acknowledged up to k in the term of the leader: the follower has it
\* as long as it is in that term, and beyond it has the entries of the term,
\* which then every later log has.
Held(w, k) ==
    k > 0 =>
        /\ k <= Len(log) /\ term <= fTerm
        /\ fTerm = term => Agree(fLog, log, k)
        /\ \A m \in 1..k : log[m].term = term =>
              Agree(fLog, log, m) /\ Final(w, term, m)

Answers(w) ==
    leading => \A c \in calls :
        c.status = "acked" /\ c.request.term = term => Held(w, c.index)

PipeInv(w) ==
    /\ Sources(w) /\ Leaderships(w) /\ Asked(w)
    /\ Confirmed(w, term, commitIndex) /\ Covered(w)
    /\ Answers(w) /\ (leading => Held(w, matchIndex))

-----------------------------------------------------------------------------
\* What a step must do to logs and terms: what is written, fixed and held stays
\* so, with the logs v written after the step.
Carries(w, v) ==
    /\ Extends(w, v) /\ Sources(v)' /\ Leaderships(v)'
    /\ \A T, m \in Nat : Fixed(w, T, m) => Fixed(v, T, m)'
    /\ term <= term' /\ fTerm <= fTerm'
    /\ leading' /\ term' = term =>
          leading /\ \A k \in Nat : Held(w, k) => Held(v, k)'

data == <<term, leading, log, fTerm, fLog, rTerm, rLog, rLeads>>

\* What the lemmas below need of the invariant.
LEMMA PipeFacts ==
    ASSUME TypeOK, NEW w, Sources(w), Leaderships(w)
    PROVE  /\ Logs(Entry, w) /\ \A t \in DOMAIN w : Sourced(w, w[t], t)
           /\ Sourced(w, log, term) /\ Sourced(w, fLog, fTerm)
           /\ Sourced(w, rLog, rTerm)
           /\ \A t \in DOMAIN w : t \in Nat /\ w[t] \in Seq(Entry)
           /\ \A t \in DOMAIN w : t <= term \/ t <= rTerm
           /\ leading => term \in DOMAIN w /\ w[term] = log
           /\ leading => \A t \in DOMAIN w : t > term => t <= fTerm
           /\ rLeads => rTerm \in DOMAIN w /\ w[rTerm] = rLog
           /\ leading /\ rLeads => term # rTerm
           /\ term \in Nat /\ fTerm \in Nat /\ rTerm \in Nat /\ term > 0
           /\ log \in Seq(Entry) /\ fLog \in Seq(Entry) /\ rLog \in Seq(Entry)
<1>1. /\ Logs(Entry, w) /\ \A t \in DOMAIN w : Sourced(w, w[t], t)
      /\ Sourced(w, log, term) /\ Sourced(w, fLog, fTerm)
      /\ Sourced(w, rLog, rTerm)
      /\ \A t \in DOMAIN w : t <= term \/ t <= rTerm
  BY DEF Sources
<1>2. \A t \in DOMAIN w : t \in Nat /\ w[t] \in Seq(Entry)
  BY <1>1 DEF Logs
<1>3. QED
  BY <1>1, <1>2, Types DEF Leaderships

LEMMA ExtendsSelf ==
    ASSUME NEW w, Logs(Entry, w)
    PROVE  Extends(w, w)
<1>1. \A t \in DOMAIN w : Agree(w[t], w[t], Len(w[t]))
  BY AgreeSelf DEF Logs
<1>2. QED
  BY <1>1 DEF Extends

\* Where logs and terms do not change.
LEMMA SameCarries ==
    ASSUME TypeOK, NEW w, Sources(w), Leaderships(w), UNCHANGED data
    PROVE  Carries(w, w)
<1>1. Extends(w, w)
  BY PipeFacts, ExtendsSelf
<1>2. /\ term' = term /\ leading' = leading /\ log' = log /\ fTerm' = fTerm
      /\ fLog' = fLog /\ rTerm' = rTerm /\ rLog' = rLog /\ rLeads' = rLeads
  BY DEF data
<1>3. Sources(w)' /\ Leaderships(w)'
  BY <1>2 DEF Sources, Leaderships
<1>4. \A T, m : Fixed(w, T, m) => Fixed(w, T, m)'
  BY <1>2 DEF Fixed
<1>5. \A k : Held(w, k) => Held(w, k)'
  BY <1>2 DEF Held
<1>6. term <= term' /\ fTerm <= fTerm'
  BY <1>2, Types
<1>7. QED
  BY <1>1, <1>2, <1>3, <1>4, <1>5, <1>6 DEF Carries

\* What is needed for entries to stay fixed.
LEMMA FixedKept ==
    ASSUME NEW w, NEW v, Logs(Entry, w), Logs(Entry, v), Extends(w, v),
           NEW T, NEW m, Fixed(w, T, m),
           \A t \in DOMAIN v : t \in DOMAIN w \/ t <= T \/ Agree(v[t], w[T], m),
           T <= term', Agree(log', w[T], m),
           \/ T <= fTerm' /\ Agree(fLog', w[T], m)
           \/ T <= rTerm' /\ Agree(rLog', w[T], m),
           rLeads' => rTerm' # T
    PROVE  Fixed(v, T, m)'
<1>1. Final(v, T, m) /\ Agree(v[T], w[T], m)
  BY FinalKept DEF Fixed
<1>2. Agree(w[T], v[T], m)
  BY <1>1, AgreeSym
<1>3. Agree(log', v[T], m)
  BY <1>2, AgreeTrans
<1>4. Agree(fLog', w[T], m) => Agree(fLog', v[T], m)
  BY <1>2, AgreeTrans
<1>5. Agree(rLog', w[T], m) => Agree(rLog', v[T], m)
  BY <1>2, AgreeTrans
<1>6. QED
  BY <1>1, <1>3, <1>4, <1>5 DEF Fixed

\* The entry that a new leader or a client appends.
LEMMA EntryOf ==
    ASSUME NEW t \in Nat
    PROVE  [term |-> t] \in Entry /\ [term |-> t].term = t
BY DEF Entry

LEMMA LeadCarries ==
    ASSUME TypeOK, NEW w, Sources(w), Leaderships(w), Lead
    PROVE  \E v : Carries(w, v) /\ v[term'] = log'
<1> DEFINE N == NewTerm
           e == [term |-> N]
           l == Append(log, e)
<1>1. N \in Nat /\ N > term /\ N > fTerm /\ N > rTerm
  BY NewTermType
<1>2. /\ term' = N /\ leading' = TRUE /\ log' = l /\ fLog' = fLog /\ rLog' = rLog
      /\ \/ fTerm' = N /\ rTerm' = rTerm /\ rLeads' = rLeads
         \/ fTerm' = fTerm /\ rTerm' = N /\ rLeads' = FALSE
  BY DEF Lead, rival
<1>3. /\ e \in Entry /\ e.term = N
  BY <1>1, EntryOf
<1> HIDE DEF N, e
<1>4. N \notin DOMAIN w
  <2>1. SUFFICES ASSUME N \in DOMAIN w
                 PROVE  FALSE
    OBVIOUS
  <2>2. N <= term \/ N <= rTerm
    BY <2>1, PipeFacts
  <2>3. QED
    BY <1>1, <2>2, PipeFacts
<1>5. Sourced(w, log, N)
  BY <1>1, PipeFacts, SourcedLater
<1>6. /\ l \in Seq(Entry) /\ Agree(l, log, Len(log)) /\ Len(log) \in Nat
  BY <1>3, PipeFacts, AppendAgrees
<1>7. PICK v : Logs(Entry, v) /\ Extends(w, v) /\ Written(w, v, N, l)
  <2>1. /\ Logs(Entry, w) /\ \A x \in DOMAIN w : Sourced(w, w[x], x)
        /\ log \in Seq(Entry) /\ (N \notin DOMAIN w \/ w[N] = log)
    BY <1>4, PipeFacts
  <2>2. QED
    BY <1>1, <1>3, <1>5, <2>1, WriteAppend
<1> HIDE DEF l
<1>7a. /\ DOMAIN v = DOMAIN w \cup {N} /\ v[N] = l
       /\ \A x \in DOMAIN w : x # N => v[x] = w[x]
       /\ \A x \in DOMAIN v : Sourced(v, v[x], x) /\ Sourced(v, l, N)
  BY <1>7 DEF Written
<1>8. Sources(v)'
  <2>1. Sourced(v, log', term')
    BY <1>2, <1>7, <1>7a
  <2>2. Sourced(v, fLog', fTerm')
    BY <1>1, <1>2, <1>7, <1>7a, PipeFacts, SourcedExtends
  <2>3. Sourced(v, rLog', rTerm')
    BY <1>1, <1>2, <1>7, <1>7a, PipeFacts, SourcedExtends
  <2>4. \A t \in DOMAIN v : t <= term'
    BY <1>1, <1>2, <1>7, <1>7a, PipeFacts
  <2>5. QED
    BY <1>7, <1>7a, <2>1, <2>2, <2>3, <2>4 DEF Sources
<1>9. Leaderships(v)'
  <2>1. term' > 0
    BY <1>1, <1>2, PipeFacts
  <2>2. term' \in DOMAIN v /\ v[term'] = log'
    BY <1>2, <1>7, <1>7a
  <2>3. \A t \in DOMAIN v : ~ (t > term')
    BY <1>1, <1>2, <1>7, <1>7a, PipeFacts
  <2>4. rLeads' => rTerm' \in DOMAIN v /\ v[rTerm'] = rLog' /\ term' # rTerm'
    <3>1. rLeads' => /\ rLeads /\ rTerm' = rTerm /\ rTerm \in DOMAIN w
                     /\ w[rTerm] = rLog
      BY <1>2, PipeFacts
    <3>2. rTerm # N
      BY <1>1, PipeFacts
    <3>3. QED
      BY <1>2, <1>7, <1>7a, <3>1, <3>2
  <2>5. QED
    BY <2>1, <2>2, <2>3, <2>4 DEF Leaderships
<1>10. ASSUME NEW T \in Nat, NEW m \in Nat, Fixed(w, T, m)
       PROVE  Fixed(v, T, m)'
  <2>1. /\ T \in DOMAIN w /\ T <= term /\ Agree(log, w[T], m)
        /\ w[T] \in Seq(Entry) /\ m <= Len(log)
    BY <1>10, PipeFacts DEF Fixed, Final, Agree
  <2>2. Agree(l, w[T], m)
    <3>1. Agree(l, log, m)
      BY <1>6, <2>1, PipeFacts, AgreeLess
    <3>2. QED
      BY <2>1, <3>1, AgreeTrans
  <2>3. \A t \in DOMAIN v : t \in DOMAIN w \/ t <= T \/ Agree(v[t], w[T], m)
    BY <1>7, <1>7a, <2>2
  <2>4. T <= term' /\ Agree(log', w[T], m)
    BY <1>1, <1>2, <2>1, <2>2, PipeFacts
  <2>5. \/ T <= fTerm' /\ Agree(fLog', w[T], m)
        \/ T <= rTerm' /\ Agree(rLog', w[T], m)
    BY <1>1, <1>2, <1>10, PipeFacts DEF Fixed
  <2>6. rLeads' => rTerm' # T
    BY <1>2, <1>10 DEF Fixed
  <2>7. QED
    BY <1>7, <1>7a, <1>10, <2>3, <2>4, <2>5, <2>6, PipeFacts, FixedKept
<1>11. term <= term' /\ term' # term /\ fTerm <= fTerm'
  BY <1>1, <1>2, PipeFacts
<1>12. Carries(w, v)
  BY <1>7, <1>7a, <1>8, <1>9, <1>10, <1>11 DEF Carries
<1>13. QED
  BY <1>2, <1>7, <1>7a, <1>12

\* An entry of a client.
LEMMA ClientAppendCarries ==
    ASSUME TypeOK, NEW w, Sources(w), Leaderships(w), ClientAppend
    PROVE  \E v : Carries(w, v) /\ v[term'] = log'
<1> DEFINE e == [term |-> term]
           l == Append(log, e)
<1>1. /\ term' = term /\ leading' = leading /\ log' = l /\ fLog' = fLog
      /\ rLog' = rLog /\ fTerm' = fTerm /\ rTerm' = rTerm /\ rLeads' = rLeads
      /\ leading
  BY DEF ClientAppend, follower, rival
<1>2. /\ e \in Entry /\ e.term = term
  BY PipeFacts, EntryOf
<1> HIDE DEF e
<1>3. term \in DOMAIN w /\ w[term] = log
  BY <1>1, PipeFacts
<1>4. /\ l \in Seq(Entry) /\ Agree(l, log, Len(log)) /\ Len(log) \in Nat
      /\ Len(l) = Len(log) + 1
  BY <1>2, PipeFacts, AppendAgrees
<1>5. PICK v : Logs(Entry, v) /\ Extends(w, v) /\ Written(w, v, term, l)
  <2>1. /\ Logs(Entry, w) /\ \A x \in DOMAIN w : Sourced(w, w[x], x)
        /\ log \in Seq(Entry) /\ (term \notin DOMAIN w \/ w[term] = log)
        /\ term \in Nat /\ Sourced(w, log, term)
    BY <1>3, PipeFacts
  <2>2. QED
    BY <1>2, <2>1, WriteAppend
<1> HIDE DEF l
<1>5a. /\ DOMAIN v = DOMAIN w \cup {term} /\ v[term] = l
       /\ \A x \in DOMAIN w : x # term => v[x] = w[x]
       /\ \A x \in DOMAIN v : Sourced(v, v[x], x) /\ Sourced(v, l, term)
  BY <1>5 DEF Written
<1>6. Sources(v)'
  <2>1. Sourced(v, log', term')
    BY <1>1, <1>5, <1>5a
  <2>2. Sourced(v, fLog', fTerm')
    BY <1>1, <1>5, <1>5a, PipeFacts, SourcedExtends
  <2>3. Sourced(v, rLog', rTerm')
    BY <1>1, <1>5, <1>5a, PipeFacts, SourcedExtends
  <2>4. \A t \in DOMAIN v : t <= term' \/ t <= rTerm'
    BY <1>1, <1>3, <1>5, <1>5a, PipeFacts
  <2>5. QED
    BY <1>5, <1>5a, <2>1, <2>2, <2>3, <2>4 DEF Sources
<1>7. Leaderships(v)'
  <2>1. term' > 0
    BY <1>1, PipeFacts
  <2>2. term' \in DOMAIN v /\ v[term'] = log'
    BY <1>1, <1>5, <1>5a
  <2>3. \A t \in DOMAIN v : t > term' => t <= fTerm'
    BY <1>1, <1>3, <1>5, <1>5a, PipeFacts
  <2>4. rLeads' => rTerm' \in DOMAIN v /\ v[rTerm'] = rLog' /\ term' # rTerm'
    BY <1>1, <1>5, <1>5a, PipeFacts
  <2>5. QED
    BY <2>1, <2>2, <2>3, <2>4 DEF Leaderships
<1>8. \A k \in Nat : k <= Len(log) => Agree(l, log, k)
  BY <1>4, PipeFacts, AgreeLess
<1>9. ASSUME NEW T \in Nat, NEW m \in Nat, Fixed(w, T, m)
      PROVE  Fixed(v, T, m)'
  <2>1. /\ T \in DOMAIN w /\ T <= term /\ Agree(log, w[T], m) /\ m <= Len(log)
    BY <1>9 DEF Fixed, Final, Agree
  <2>2. Agree(log', w[T], m)
    BY <1>1, <1>8, <2>1, AgreeTrans
  <2>3. \A t \in DOMAIN v : t \in DOMAIN w
    BY <1>3, <1>5, <1>5a
  <2>4. T <= term'
    BY <1>1, <2>1
  <2>5. \/ T <= fTerm' /\ Agree(fLog', w[T], m)
        \/ T <= rTerm' /\ Agree(rLog', w[T], m)
    BY <1>1, <1>9 DEF Fixed
  <2>6. rLeads' => rTerm' # T
    BY <1>1, <1>9 DEF Fixed
  <2>7. QED
    BY <1>5, <1>5a, <1>9, <2>2, <2>3, <2>4, <2>5, <2>6, PipeFacts, FixedKept
<1>10. ASSUME NEW k \in Nat, Held(w, k)
       PROVE  Held(v, k)'
  <2> SUFFICES ASSUME k > 0
               PROVE  /\ k <= Len(log') /\ term' <= fTerm'
                      /\ fTerm' = term' => Agree(fLog', log', k)
                      /\ \A m \in 1..k : log'[m].term = term' =>
                            Agree(fLog', log', m) /\ Final(v, term', m)
    BY DEF Held
  <2>1. /\ k <= Len(log) /\ term <= fTerm
        /\ fTerm = term => Agree(fLog, log, k)
        /\ \A m \in 1..k : log[m].term = term =>
              Agree(fLog, log, m) /\ Final(w, term, m)
    BY <1>10 DEF Held
  <2>2. Agree(log, l, k)
    BY <1>8, <2>1, AgreeSym
  <2>3. fTerm' = term' => Agree(fLog', log', k)
    BY <1>1, <2>1, <2>2, AgreeTrans
  <2>4. ASSUME NEW m \in 1..k, log'[m].term = term'
        PROVE  Agree(fLog', log', m) /\ Final(v, term', m)
    <3>1. m \in Nat /\ m <= Len(log) /\ log[m] = l[m]
      BY <2>1, <2>2 DEF Agree
    <3>2. Agree(fLog, log, m) /\ Final(w, term, m)
      BY <1>1, <2>1, <2>4, <3>1
    <3>3. Agree(log, l, m)
      BY <1>8, <3>1, AgreeSym
    <3>4. Final(v, term, m)
      BY <1>3, <1>5, <1>5a, <3>2, PipeFacts, FinalKept
    <3>5. QED
      BY <1>1, <3>2, <3>3, <3>4, AgreeTrans
  <2>5. k <= Len(log') /\ term' <= fTerm'
    BY <1>1, <1>4, <2>1
  <2>6. QED
    BY <2>3, <2>4, <2>5
<1>11. term <= term' /\ fTerm <= fTerm'
  BY <1>1, PipeFacts
<1>12. Carries(w, v)
  BY <1>1, <1>5, <1>5a, <1>6, <1>7, <1>9, <1>10, <1>11 DEF Carries
<1>13. QED
  BY <1>1, <1>5, <1>5a, <1>12

\* The third server is elected. Who votes for it has nothing fixed that it
\* does not have.
LEMMA RivalLeadsCarries ==
    ASSUME TypeOK, NEW w, Sources(w), Leaderships(w), RivalLeads
    PROVE  \E v : Carries(w, v)
<1> DEFINE N == NewTerm
           e == [term |-> N]
           l == Append(rLog, e)
<1>1. N \in Nat /\ N > term /\ N > fTerm /\ N > rTerm
  BY NewTermType
<1>2. /\ rTerm' = N /\ rLeads' = TRUE /\ rLog' = l /\ log' = log /\ fLog' = fLog
      /\ \/ /\ term' = N /\ leading' = FALSE /\ fTerm' = fTerm
            /\ UpToDate(LastTerm(rLog), Len(rLog), log)
         \/ /\ fTerm' = N /\ term' = term /\ leading' = leading
            /\ UpToDate(LastTerm(rLog), Len(rLog), fLog)
  BY DEF RivalLeads
<1>3. e \in Entry /\ e.term = N
  BY <1>1, EntryOf
<1> HIDE DEF N, e
<1>4. N \notin DOMAIN w
  <2>1. SUFFICES ASSUME N \in DOMAIN w
                 PROVE  FALSE
    OBVIOUS
  <2>2. N <= term \/ N <= rTerm
    BY <2>1, PipeFacts
  <2>3. QED
    BY <1>1, <2>2, PipeFacts
<1>5. Sourced(w, rLog, N)
  BY <1>1, PipeFacts, SourcedLater
<1>6. /\ l \in Seq(Entry) /\ Agree(l, rLog, Len(rLog)) /\ Len(rLog) \in Nat
  BY <1>3, PipeFacts, AppendAgrees
<1>7. PICK v : Logs(Entry, v) /\ Extends(w, v) /\ Written(w, v, N, l)
  <2>1. /\ Logs(Entry, w) /\ \A x \in DOMAIN w : Sourced(w, w[x], x)
        /\ rLog \in Seq(Entry) /\ (N \notin DOMAIN w \/ w[N] = rLog)
    BY <1>4, PipeFacts
  <2>2. QED
    BY <1>1, <1>3, <1>5, <2>1, WriteAppend
<1> HIDE DEF l
<1>8. /\ DOMAIN v = DOMAIN w \cup {N} /\ v[N] = l
      /\ \A x \in DOMAIN w : x # N => v[x] = w[x]
      /\ \A x \in DOMAIN v : Sourced(v, v[x], x) /\ Sourced(v, l, N)
  BY <1>7 DEF Written
<1>9. Sources(v)'
  <2>1. Sourced(v, log', term')
    BY <1>1, <1>2, <1>7, PipeFacts, SourcedExtends
  <2>2. Sourced(v, fLog', fTerm')
    BY <1>1, <1>2, <1>7, PipeFacts, SourcedExtends
  <2>3. Sourced(v, rLog', rTerm')
    BY <1>2, <1>8
  <2>4. \A t \in DOMAIN v : t <= rTerm'
    BY <1>1, <1>2, <1>8, PipeFacts, SMTT(30)
  <2>5. QED
    BY <1>7, <1>8, <2>1, <2>2, <2>3, <2>4 DEF Sources
<1>10. Leaderships(v)'
  <2>1. term' > 0
    BY <1>1, <1>2, PipeFacts
  <2>2. ASSUME leading'
        PROVE  term' \in DOMAIN v /\ v[term'] = log' /\ term' # rTerm'
    <3>1. leading /\ term' = term /\ log' = log /\ rTerm' = N
      BY <1>2, <2>2
    <3>2. term \in DOMAIN w /\ w[term] = log /\ term # N
      BY <1>1, <3>1, PipeFacts
    <3>3. term \in DOMAIN v /\ v[term] = log
      BY <1>8, <3>2
    <3>4. QED
      BY <3>1, <3>2, <3>3
  <2>3. leading' => \A t \in DOMAIN v : t > term' => t <= fTerm'
    BY <1>1, <1>2, <1>8, PipeFacts, SMTT(30)
  <2>4. rTerm' \in DOMAIN v /\ v[rTerm'] = rLog'
    BY <1>2, <1>8
  <2>5. QED
    BY <2>1, <2>2, <2>3, <2>4 DEF Leaderships
<1>11. ASSUME NEW T, NEW m, Final(w, T, m), Agree(rLog, w[T], m)
       PROVE  /\ Agree(l, w[T], m)
              /\ \A t \in DOMAIN v : t \in DOMAIN w \/ Agree(v[t], w[T], m)
  <2>1. m <= Len(rLog) /\ m \in Nat
    BY <1>11, PipeFacts DEF Final, Agree
  <2>2. Agree(l, rLog, m)
    BY <1>6, <2>1, PipeFacts, AgreeLess
  <2>3. Agree(l, w[T], m)
    BY <1>11, <2>2, AgreeTrans
  <2>4. QED
    BY <1>8, <2>3
<1>12. ASSUME NEW T \in Nat, NEW m \in Nat, Fixed(w, T, m)
       PROVE  Fixed(v, T, m)'
  <2>1. /\ Final(w, T, m) /\ T <= term /\ Agree(log, w[T], m)
        /\ \/ T <= fTerm /\ Agree(fLog, w[T], m)
           \/ T <= rTerm /\ Agree(rLog, w[T], m)
    BY <1>12 DEF Fixed
  <2>2. Agree(rLog, w[T], m)
    <3>1. CASE Agree(fLog, w[T], m)
      BY <1>2, <2>1, <3>1, PipeFacts, ElectedHas
    <3>2. CASE Agree(rLog, w[T], m)
      BY <3>2
    <3>3. QED
      BY <2>1, <3>1, <3>2
  <2>3. /\ Agree(rLog', w[T], m)
        /\ \A t \in DOMAIN v : t \in DOMAIN w \/ Agree(v[t], w[T], m)
    BY <1>2, <1>11, <2>1, <2>2
  <2>4. T <= term' /\ Agree(log', w[T], m) /\ T <= rTerm' /\ rTerm' # T
    BY <1>1, <1>2, <2>1, PipeFacts
  <2>5. QED
    BY <1>7, <1>12, <2>3, <2>4, PipeFacts, FixedKept
<1>13. ASSUME leading', term' = term, NEW k \in Nat, Held(w, k)
       PROVE  Held(v, k)'
  <2>1. /\ leading /\ fTerm' = N /\ UpToDate(LastTerm(rLog), Len(rLog), fLog)
        /\ term \in DOMAIN w /\ w[term] = log
    BY <1>1, <1>2, <1>13, PipeFacts
  <2> SUFFICES ASSUME k > 0
               PROVE  /\ k <= Len(log') /\ term' <= fTerm'
                      /\ fTerm' = term' => Agree(fLog', log', k)
                      /\ \A m \in 1..k : log'[m].term = term' =>
                            Agree(fLog', log', m) /\ Final(v, term', m)
    BY DEF Held
  <2>2. /\ k <= Len(log)
        /\ \A m \in 1..k : log[m].term = term =>
              Agree(fLog, log, m) /\ Final(w, term, m)
    BY <1>13 DEF Held
  <2>3. k <= Len(log') /\ term' <= fTerm' /\ fTerm' # term'
    BY <1>1, <1>2, <1>13, <2>1, <2>2, PipeFacts
  <2>4. ASSUME NEW m \in 1..k, log'[m].term = term'
        PROVE  Agree(fLog', log', m) /\ Final(v, term', m)
    <3>1. Agree(fLog, log, m) /\ Final(w, term, m)
      BY <1>2, <1>13, <2>2, <2>4
    <3>2. Agree(rLog, w[term], m)
      BY <2>1, <3>1, PipeFacts, ElectedHas
    <3>3. \A t \in DOMAIN v : t \in DOMAIN w \/ Agree(v[t], w[term], m)
      BY <1>11, <3>1, <3>2
    <3>4. Final(v, term, m)
      BY <1>7, <3>1, <3>3, PipeFacts, FinalKept
    <3>5. QED
      BY <1>2, <1>13, <3>1, <3>4
  <2>5. QED
    BY <2>3, <2>4
<1>14. /\ term <= term' /\ fTerm <= fTerm'
       /\ leading' /\ term' = term => leading
  BY <1>1, <1>2, PipeFacts
<1>15. QED
  BY <1>7, <1>9, <1>10, <1>12, <1>13, <1>14 DEF Carries

\* A log that was elected after the one that has something fixed has it too.
LEMMA LaterHas ==
    ASSUME TypeOK, NEW w, Sources(w), Leaderships(w), NEW T, NEW m,
           Final(w, T, m), NEW t \in DOMAIN w, t >= T,
           NEW l \in Seq(Entry), Agree(l, w[t], m)
    PROVE  Agree(l, w[T], m)
<1>1. Agree(w[t], w[T], m)
  BY PipeFacts, FinalLater
<1>2. QED
  BY <1>1, AgreeTrans

\* The server hears of a later term.
LEMMA DeposedCarries ==
    ASSUME TypeOK, NEW w, Sources(w), Leaderships(w),
           term' \in Nat, term' > term, leading' = FALSE, UNCHANGED log,
           UNCHANGED follower, UNCHANGED rival
    PROVE  Carries(w, w)
<1>1. /\ log' = log /\ fTerm' = fTerm /\ fLog' = fLog
      /\ rTerm' = rTerm /\ rLog' = rLog /\ rLeads' = rLeads
  BY DEF follower, rival
<1>2. Extends(w, w)
  BY PipeFacts, ExtendsSelf
<1>3. Sources(w)'
  <2>1. Sourced(w, log', term')
    BY <1>1, PipeFacts, SourcedLater
  <2>2. \A t \in DOMAIN w : t <= term' \/ t <= rTerm'
    BY <1>1, PipeFacts
  <2>3. QED
    BY <1>1, <2>1, <2>2, PipeFacts DEF Sources
<1>4. Leaderships(w)'
  BY <1>1, PipeFacts DEF Leaderships
<1>5. ASSUME NEW T \in Nat, NEW m \in Nat, Fixed(w, T, m)
      PROVE  Fixed(w, T, m)'
  <2>1. T <= term'
    BY <1>5, PipeFacts DEF Fixed
  <2>2. QED
    BY <1>1, <1>5, <2>1 DEF Fixed
<1>6. term <= term' /\ fTerm <= fTerm'
  BY <1>1, PipeFacts
<1>7. QED
  BY <1>2, <1>3, <1>4, <1>5, <1>6 DEF Carries

\* The third server's log reaches the one that led.
LEMMA RivalReachesLeaderCarries ==
    ASSUME TypeOK, NEW w, Sources(w), Leaderships(w), RivalReachesLeader
    PROVE  Carries(w, w)
<1> DEFINE r == Merge(log, 0, rLog)
<1>1. /\ rLeads /\ term <= rTerm /\ term' = rTerm /\ leading' = FALSE /\ log' = r
      /\ fTerm' = fTerm /\ fLog' = fLog
      /\ rTerm' = rTerm /\ rLog' = rLog /\ rLeads' = rLeads
  BY DEF RivalReachesLeader, follower, rival
<1>2. rTerm \in DOMAIN w /\ w[rTerm] = rLog /\ Sourced(w, w[rTerm], rTerm)
  BY <1>1, PipeFacts
<1>3. /\ r \in Seq(Entry) /\ Sourced(w, r, rTerm)
      /\ \A m \in Nat : m <= Len(rLog) => Agree(r, rLog, m)
  BY <1>1, <1>2, PipeFacts, MergeWhole
<1> HIDE DEF r
<1>4. Extends(w, w)
  BY PipeFacts, ExtendsSelf
<1>5. Sources(w)'
  BY <1>1, <1>3, PipeFacts DEF Sources
<1>6. Leaderships(w)'
  BY <1>1, PipeFacts DEF Leaderships
<1>7. ASSUME NEW T \in Nat, NEW m \in Nat, Fixed(w, T, m)
      PROVE  Fixed(w, T, m)'
  <2>1. Final(w, T, m) /\ T <= term /\ rTerm # T
    BY <1>1, <1>7 DEF Fixed
  <2>2. T <= rTerm
    BY <1>1, <2>1, PipeFacts
  <2>3. m <= Len(rLog)
    <3>1. Agree(w[rTerm], w[T], m)
      BY <1>2, <2>1, <2>2, PipeFacts, FinalLater
    <3>2. QED
      BY <1>2, <3>1 DEF Agree
  <2>4. Agree(r, w[T], m)
    BY <1>2, <1>3, <2>1, <2>2, <2>3, LaterHas
  <2>5. QED
    BY <1>1, <1>7, <2>2, <2>4 DEF Fixed
<1>8. term <= term' /\ fTerm <= fTerm'
  BY <1>1, PipeFacts
<1>9. QED
  BY <1>1, <1>4, <1>5, <1>6, <1>7, <1>8 DEF Carries

\* What the follower has of what is fixed it keeps.
Keeps(w) ==
    \A T, m, k \in Nat :
        /\ Fixed(w, T, m) /\ T <= fTerm /\ k <= m /\ Agree(fLog, w[T], k)
        => Agree(fLog', w[T], k)

\* The third server's log reaches the follower.
LEMMA RivalReachesFollowerCarries ==
    ASSUME TypeOK, NEW w, Sources(w), Leaderships(w), RivalReachesFollower
    PROVE  Carries(w, w) /\ Keeps(w)
<1> DEFINE r == Merge(fLog, 0, rLog)
<1>1. /\ rLeads /\ fTerm <= rTerm /\ fTerm' = rTerm /\ fLog' = r
      /\ term' = term /\ leading' = leading /\ log' = log
      /\ rTerm' = rTerm /\ rLog' = rLog /\ rLeads' = rLeads
  BY DEF RivalReachesFollower, own, rival
<1>2. rTerm \in DOMAIN w /\ w[rTerm] = rLog /\ Sourced(w, w[rTerm], rTerm)
  BY <1>1, PipeFacts
<1>3. /\ r \in Seq(Entry) /\ Sourced(w, r, rTerm)
      /\ \A m \in Nat : m <= Len(rLog) => Agree(r, rLog, m)
  BY <1>1, <1>2, PipeFacts, MergeWhole
<1> HIDE DEF r
<1>4. Extends(w, w)
  BY PipeFacts, ExtendsSelf
<1>5. Sources(w)'
  BY <1>1, <1>3, PipeFacts DEF Sources
<1>6. Leaderships(w)'
  <2>1. leading' => \A t \in DOMAIN w : t > term' => t <= fTerm'
    BY <1>1, PipeFacts
  <2>2. QED
    BY <1>1, <2>1, PipeFacts DEF Leaderships
<1>7. ASSUME NEW T \in Nat, NEW m \in Nat, Final(w, T, m), T <= rTerm
      PROVE  Agree(r, w[T], m) /\ w[T] \in Seq(Entry)
  <2>1. m <= Len(rLog)
    <3>1. Agree(w[rTerm], w[T], m)
      BY <1>2, <1>7, PipeFacts, FinalLater
    <3>2. QED
      BY <1>2, <3>1 DEF Agree
  <2>2. Agree(r, w[T], m)
    BY <1>2, <1>3, <1>7, <2>1, LaterHas
  <2>3. QED
    BY <1>7, <2>2, PipeFacts DEF Final
<1>8. ASSUME NEW T \in Nat, NEW m \in Nat, Fixed(w, T, m)
      PROVE  Fixed(w, T, m)'
  <2>1. T <= fTerm => T <= fTerm' /\ Agree(fLog', w[T], m)
    BY <1>1, <1>7, <1>8, PipeFacts DEF Fixed
  <2>2. QED
    BY <1>1, <1>8, <2>1 DEF Fixed
<1>9. ASSUME leading', NEW k \in Nat, Held(w, k)
      PROVE  Held(w, k)'
  <2> SUFFICES ASSUME k > 0
               PROVE  /\ k <= Len(log') /\ term' <= fTerm'
                      /\ fTerm' = term' => Agree(fLog', log', k)
                      /\ \A m \in 1..k : log'[m].term = term' =>
                            Agree(fLog', log', m) /\ Final(w, term', m)
    BY DEF Held
  <2>1. /\ k <= Len(log) /\ term <= fTerm
        /\ \A m \in 1..k : log[m].term = term => Final(w, term, m)
    BY <1>9 DEF Held
  <2>2. term <= rTerm /\ fTerm' # term' /\ w[term] = log
    BY <1>1, <1>9, <2>1, PipeFacts
  <2>3. ASSUME NEW m \in 1..k, log'[m].term = term'
        PROVE  Agree(fLog', log', m) /\ Final(w, term', m)
    BY <1>1, <1>7, <2>1, <2>2, <2>3, PipeFacts
  <2>4. QED
    BY <1>1, <2>1, <2>2, <2>3
<1>10. Keeps(w)
  <2> SUFFICES ASSUME NEW T \in Nat, NEW m \in Nat, NEW k \in Nat,
                      Fixed(w, T, m), T <= fTerm, k <= m
               PROVE  Agree(fLog', w[T], k)
    BY DEF Keeps
  <2>1. Agree(r, w[T], m) /\ w[T] \in Seq(Entry)
    BY <1>1, <1>7, PipeFacts DEF Fixed
  <2>2. QED
    BY <1>1, <1>3, <2>1, AgreeLess
<1>11. term <= term' /\ fTerm <= fTerm'
  BY <1>1, PipeFacts
<1>12. QED
  BY <1>1, <1>4, <1>5, <1>6, <1>8, <1>9, <1>10, <1>11 DEF Carries

\* The third server takes the leader's log.
LEMMA RivalFollowsCarries ==
    ASSUME TypeOK, NEW w, Sources(w), Leaderships(w), RivalFollows
    PROVE  Carries(w, w)
<1>1. /\ leading /\ rTerm <= term /\ rTerm' = term /\ rLeads' = FALSE
      /\ rLog' = log /\ term' = term /\ leading' = leading /\ log' = log
      /\ fTerm' = fTerm /\ fLog' = fLog
  BY DEF RivalFollows, follower
<1>2. Extends(w, w)
  BY PipeFacts, ExtendsSelf
<1>3. Sources(w)'
  <2>1. \A t \in DOMAIN w : t <= term' \/ t <= rTerm'
    BY <1>1, PipeFacts
  <2>2. QED
    BY <1>1, <2>1, PipeFacts DEF Sources
<1>4. Leaderships(w)'
  BY <1>1, PipeFacts DEF Leaderships
<1>5. ASSUME NEW T \in Nat, NEW m \in Nat, Fixed(w, T, m)
      PROVE  Fixed(w, T, m)'
  BY <1>1, <1>5 DEF Fixed
<1>6. ASSUME NEW k \in Nat, Held(w, k)
      PROVE  Held(w, k)'
  BY <1>1, <1>6 DEF Held
<1>7. term <= term' /\ fTerm <= fTerm'
  BY <1>1, PipeFacts
<1>8. QED
  BY <1>1, <1>2, <1>3, <1>4, <1>5, <1>6, <1>7 DEF Carries

\* What the follower holds after it accepted the request q.
LEMMA Accepted ==
    ASSUME TypeOK, NEW w, Sources(w), Leaderships(w),
           NEW q \in Request, Sound(w, q), Handle(q), Accepts(q)
    PROVE  /\ fTerm' = q.term /\ fTerm <= q.term /\ q.term \in DOMAIN w
           /\ fLog' \in Seq(Entry) /\ Sourced(w, fLog', q.term)
           /\ Reach(q) \in Nat /\ Reach(q) <= Len(w[q.term])
           /\ Agree(fLog', w[q.term], Reach(q))
           /\ \A m \in Nat : Agree(fLog, w[q.term], m) => Agree(fLog', w[q.term], m)
<1> DEFINE u == q.term
           r == Merge(fLog, q.prev, q.entries)
<1>1. /\ u \in Nat /\ q.prev \in Nat /\ q.entries \in Seq(Entry)
      /\ Reach(q) = q.prev + Len(q.entries)
  BY DEF Request, Reach
<1>2. fTerm <= u /\ PrevMatches(fLog, q.prev, q.prevTerm) /\ fLog' = r
      /\ fTerm' = u
  BY <1>1, PipeFacts DEF Accepts, Handle, Larger
<1>3. /\ Piece(w, q) /\ u \in DOMAIN w /\ Sourced(w, w[u], u)
      /\ Reach(q) <= Len(w[u])
  BY <1>1, PipeFacts DEF Sound, Piece
<1>4. /\ Logs(Entry, w) /\ fLog \in Seq(Entry) /\ fTerm \in Nat
      /\ Sourced(w, fLog, fTerm)
  BY PipeFacts
<1>5. /\ Sourced(w, r, u) /\ r \in Seq(Entry)
      /\ q.prev + Len(q.entries) \in Nat
      /\ Agree(r, w[u], q.prev + Len(q.entries))
      /\ \A m \in Nat : Agree(fLog, w[u], m) => Agree(r, w[u], m)
  <2>1. q.term = u
    OBVIOUS
  <2> HIDE DEF u
  <2>2. QED
    BY <1>1, <1>2, <1>3, <1>4, <2>1, SourcedMerge
<1> HIDE DEF r
<1>6. QED
  BY <1>1, <1>2, <1>3, <1>5

\* What a fixed entry's log has, up to it, an accepted request leaves there.
LEMMA AcceptedKeeps ==
    ASSUME TypeOK, NEW w, Sources(w), Leaderships(w),
           NEW q \in Request, Sound(w, q), Handle(q), Accepts(q),
           NEW T \in Nat, NEW m \in Nat, Final(w, T, m), T <= q.term,
           NEW k \in Nat, k <= m
    PROVE  /\ Agree(w[q.term], w[T], k)
           /\ Agree(fLog, w[T], k) => Agree(fLog', w[T], k)
           /\ k <= Reach(q) => Agree(fLog', w[T], k)
<1> DEFINE u == q.term
<1>1. /\ u \in DOMAIN w /\ w[u] \in Seq(Entry) /\ w[T] \in Seq(Entry)
      /\ fLog' \in Seq(Entry) /\ Reach(q) \in Nat
      /\ Agree(fLog', w[u], Reach(q))
      /\ \A n \in Nat : Agree(fLog, w[u], n) => Agree(fLog', w[u], n)
  BY Accepted, PipeFacts DEF Final
<1>2. Agree(w[u], w[T], m)
  BY <1>1, PipeFacts, FinalLater
<1>3. Agree(w[u], w[T], k)
  BY <1>1, <1>2, AgreeLess
<1>4. ASSUME Agree(fLog, w[T], k)
      PROVE  Agree(fLog', w[T], k)
  <2>1. Agree(fLog, w[u], k)
    BY <1>3, <1>4, AgreeSym, AgreeTrans
  <2>2. Agree(fLog', w[u], k)
    BY <1>1, <2>1
  <2>3. QED
    BY <1>3, <2>2, AgreeTrans
<1>5. ASSUME k <= Reach(q)
      PROVE  Agree(fLog', w[T], k)
  <2>1. Agree(fLog', w[u], k)
    BY <1>1, <1>5, AgreeLess
  <2>2. QED
    BY <1>3, <2>1, AgreeTrans
<1>6. QED
  BY <1>3, <1>4, <1>5

\* The follower handles a request.
LEMMA HandleCarries ==
    ASSUME TypeOK, NEW w, Sources(w), Leaderships(w),
           NEW q \in Request, Sound(w, q), Handle(q),
           UNCHANGED own, UNCHANGED rival
    PROVE  Carries(w, w) /\ Keeps(w)
<1>1. /\ term' = term /\ leading' = leading /\ log' = log
      /\ rTerm' = rTerm /\ rLog' = rLog /\ rLeads' = rLeads
  BY DEF own, rival
<1>2. Extends(w, w)
  BY PipeFacts, ExtendsSelf
<1>3. /\ q.term \in Nat /\ q.term <= term /\ fTerm' = Larger(fTerm, q.term)
      /\ fTerm <= fTerm' /\ fTerm' \in Nat
  BY PipeFacts DEF Request, Sound, Handle, Larger
<1>4. Sourced(w, fLog', fTerm')
  <2>1. CASE Accepts(q)
    BY <2>1, Accepted
  <2>2. CASE ~Accepts(q)
    <3>1. fLog' = fLog
      BY <2>2 DEF Handle
    <3>2. QED
      BY <1>3, <3>1, PipeFacts, SourcedLater
  <2>3. QED
    BY <2>1, <2>2
<1>5. Sources(w)'
  BY <1>1, <1>4, PipeFacts DEF Sources
<1>6. Leaderships(w)'
  <2>1. leading' => \A t \in DOMAIN w : t > term' => t <= fTerm'
    BY <1>1, <1>3, PipeFacts
  <2>2. QED
    BY <1>1, <2>1, PipeFacts DEF Leaderships
<1>7. Keeps(w)
  <2> SUFFICES ASSUME NEW T \in Nat, NEW m \in Nat, NEW k \in Nat,
                      Fixed(w, T, m), T <= fTerm, k <= m, Agree(fLog, w[T], k)
               PROVE  Agree(fLog', w[T], k)
    BY DEF Keeps
  <2>1. CASE Accepts(q)
    <3>1. Final(w, T, m) /\ T <= q.term
      BY <1>3, <2>1, PipeFacts DEF Accepts, Fixed
    <3>2. QED
      BY <2>1, <3>1, AcceptedKeeps
  <2>2. CASE ~Accepts(q)
    BY <2>2 DEF Handle
  <2>3. QED
    BY <2>1, <2>2
<1>8. ASSUME NEW T \in Nat, NEW m \in Nat, Fixed(w, T, m)
      PROVE  Fixed(w, T, m)'
  <2>1. T <= fTerm /\ Agree(fLog, w[T], m) =>
          T <= fTerm' /\ Agree(fLog', w[T], m)
    BY <1>3, <1>7, <1>8, PipeFacts DEF Keeps
  <2>2. QED
    BY <1>1, <1>8, <2>1 DEF Fixed
<1>9. ASSUME leading', NEW k \in Nat, Held(w, k)
      PROVE  Held(w, k)'
  <2> SUFFICES ASSUME k > 0
               PROVE  /\ k <= Len(log') /\ term' <= fTerm'
                      /\ fTerm' = term' => Agree(fLog', log', k)
                      /\ \A m \in 1..k : log'[m].term = term' =>
                            Agree(fLog', log', m) /\ Final(w, term', m)
    BY DEF Held
  <2>1. /\ k <= Len(log) /\ term <= fTerm
        /\ fTerm = term => Agree(fLog, log, k)
        /\ \A m \in 1..k : log[m].term = term =>
              Agree(fLog, log, m) /\ Final(w, term, m)
    BY <1>9 DEF Held
  <2>2. \A m \in Nat : Agree(fLog, log, m) => Agree(fLog', log, m)
    <3>1. CASE Accepts(q)
      <4>1. q.term = term
        BY <1>3, <2>1, <3>1, PipeFacts DEF Accepts
      <4>2. w[q.term] = log
        BY <1>1, <1>9, <4>1, PipeFacts
      <4>3. QED
        BY <3>1, <4>2, Accepted
    <3>2. CASE ~Accepts(q)
      BY <3>2 DEF Handle
    <3>3. QED
      BY <3>1, <3>2
  <2>3. fTerm' = fTerm
    BY <1>3, <2>1, PipeFacts DEF Larger
  <2>4. QED
    BY <1>1, <2>1, <2>2, <2>3
<1>10. term <= term'
  BY <1>1, PipeFacts
<1>11. QED
  BY <1>1, <1>2, <1>3, <1>5, <1>6, <1>7, <1>8, <1>9, <1>10 DEF Carries

\* What is covered stays covered.
LEMMA CoveredKept ==
    ASSUME TypeOK, NEW w, NEW v, Sources(w), Leaderships(w), Covered(w),
           Carries(w, v), Keeps(w), fTerm' \in Nat, fCommit' = fCommit
    PROVE  Covered(v)'
<1>1. CASE fCommit = 0
  BY <1>1 DEF Covered
<1>2. CASE fCommit # 0
  <2>1. PICK T \in Nat, m \in Nat :
          /\ T <= fTerm /\ fCommit <= m /\ Fixed(w, T, m)
          /\ Agree(fLog, w[T], fCommit)
    BY <1>2 DEF Covered
  <2>2. fCommit \in Nat /\ fTerm \in Nat
    BY Types
  <2>3. Agree(fLog', w[T], fCommit)
    BY <2>1, <2>2 DEF Keeps
  <2>4. Fixed(v, T, m)' /\ T <= fTerm'
    BY <2>1, <2>2 DEF Carries
  <2>5. Agree(w[T], v[T], fCommit)
    <3>1. /\ T \in DOMAIN w /\ fCommit <= Len(w[T]) /\ T \in DOMAIN v
          /\ Agree(v[T], w[T], Len(w[T]))
      BY <2>1 DEF Fixed, Final, Carries, Extends, Agree
    <3>2. w[T] \in Seq(Entry) /\ v[T] \in Seq(Entry)
      BY <3>1 DEF Carries, Sources, Logs
    <3>3. QED
      BY <2>2, <3>1, <3>2, AgreeLess, AgreeSym
  <2>6. Agree(fLog', v[T], fCommit')
    BY <2>3, <2>5, AgreeTrans
  <2>7. QED
    BY <2>1, <2>4, <2>6 DEF Covered
<1>3. QED
  BY <1>1, <1>2

\* What the follower takes for committed after a request it has.
LEMMA HandleCovered ==
    ASSUME TypeOK, NEW w, Sources(w), Leaderships(w), Covered(w),
           NEW q \in Request, Sound(w, q), Handle(q), Carries(w, w), Keeps(w)
    PROVE  Covered(w)'
<1>1. /\ fTerm' \in Nat /\ fTerm <= fTerm' /\ q.term \in Nat /\ q.commit \in Nat
      /\ Reach(q) \in Nat
  BY PipeFacts DEF Request, Handle, Larger, Reach
<1>2. CASE fCommit' = fCommit
  BY <1>1, <1>2, CoveredKept
<1>3. CASE fCommit' # fCommit
  <2>1. Accepts(q) /\ fCommit' = CommitAfter(q)
    BY <1>3 DEF Handle
  <2>2. fCommit' = Smaller(q.commit, Reach(q))
    BY <1>3, <2>1 DEF CommitAfter, Larger, Reach
  <2>3. fCommit' \in Nat /\ fCommit' <= q.commit /\ fCommit' <= Reach(q)
    BY <1>1, <2>2 DEF Smaller
  <2>4. CASE q.commit = 0
    <3>1. fCommit' = 0
      BY <2>3, <2>4
    <3>2. QED
      BY <3>1 DEF Covered
  <2>5. CASE q.commit # 0
    <3>1. PICK T \in Nat, m \in Nat :
            T <= q.term /\ q.commit <= m /\ Fixed(w, T, m)
      BY <2>5 DEF Sound, Confirmed
    <3>2. Final(w, T, m) /\ fCommit' <= m
      BY <1>1, <2>3, <3>1 DEF Fixed
    <3>3. Agree(fLog', w[T], fCommit')
      BY <2>1, <2>3, <3>1, <3>2, AcceptedKeeps
    <3>4. Fixed(w, T, m)' /\ T <= fTerm'
      <4>1. fTerm' = q.term
        BY <2>1, Accepted
      <4>2. QED
        BY <3>1, <4>1 DEF Carries
    <3>5. QED
      BY <3>2, <3>3, <3>4 DEF Covered
  <2>6. QED
    BY <2>4, <2>5
<1>4. QED
  BY <1>2, <1>3

\* What an accepted request of the leader carries, the follower holds.
LEMMA AcceptedHeld ==
    ASSUME TypeOK, NEW w, Sources(w), Leaderships(w),
           NEW q \in Request, Sound(w, q), Handle(q), Accepts(q),
           leading, q.term = term, UNCHANGED own
    PROVE  Held(w, Reach(q))'
<1>1. term' = term /\ log' = log
  BY DEF own
<1>2. /\ fTerm' = term /\ fTerm <= term /\ fLog' \in Seq(Entry)
      /\ Reach(q) \in Nat /\ Reach(q) <= Len(log) /\ Agree(fLog', log, Reach(q))
      /\ term \in DOMAIN w /\ w[term] = log /\ term \in Nat /\ term > 0
      /\ log \in Seq(Entry) /\ fTerm \in Nat
  BY Accepted, PipeFacts
<1>3. \A t \in DOMAIN w : ~ (t > term)
  BY <1>2, PipeFacts
<1>4. ASSUME NEW m \in 1..Reach(q), log[m].term = term
      PROVE  Agree(fLog', log, m) /\ Final(w, term, m)
  <2>1. m \in Nat /\ m <= Reach(q) /\ m \in 1..Len(log)
    BY <1>2
  <2>2. Agree(fLog', log, m)
    BY <1>2, <2>1, AgreeLess
  <2>3. Final(w, term, m)
    BY <1>2, <1>3, <1>4, <2>1 DEF Final
  <2>4. QED
    BY <2>2, <2>3
<1>5. QED
  BY <1>1, <1>2, <1>4 DEF Held

-----------------------------------------------------------------------------
\* A commit index that was true is true.
LEMMA ConfirmedKept ==
    ASSUME NEW w, NEW v, Carries(w, v), NEW t \in Nat, NEW u \in Nat, t <= u,
           NEW k, Confirmed(w, t, k)
    PROVE  Confirmed(v, u, k)'
<1>1. CASE k = 0
  BY <1>1 DEF Confirmed
<1>2. CASE k # 0
  <2>1. PICK T \in Nat, m \in Nat : T <= t /\ k <= m /\ Fixed(w, T, m)
    BY <1>2 DEF Confirmed
  <2>2. Fixed(v, T, m)' /\ T <= u
    BY <2>1 DEF Carries
  <2>3. QED
    BY <2>1, <2>2 DEF Confirmed
<1>3. QED
  BY <1>1, <1>2

\* A request stays one.
LEMMA SoundKept ==
    ASSUME NEW w, NEW v, Logs(Entry, w), Carries(w, v), term \in Nat, term' \in Nat,
           NEW q \in Request, Sound(w, q)
    PROVE  Sound(v, q)'
<1>1. /\ Piece(w, q) /\ q.term <= term /\ Confirmed(w, q.term, q.commit)
      /\ term <= term' /\ Extends(w, v) /\ Logs(Entry, v)
  BY DEF Sound, Carries, Sources
<1>2. q.prev \in Nat /\ q.entries \in Seq(Entry) /\ q.term \in Nat
  BY DEF Request
<1>3. Piece(v, q)
  BY <1>1, <1>2, PieceExtends
<1>4. q.term <= term'
  BY <1>1, <1>2
<1>5. Confirmed(v, q.term, q.commit)'
  BY <1>1, <1>2, ConfirmedKept
<1>6. QED
  BY <1>3, <1>4, <1>5 DEF Sound

\* A call that was out, superseded or not.
Old(d) ==
    \E c \in calls : /\ d.request = c.request /\ d.status = c.status
                     /\ d.index = c.index

\* What a step has to show for the whole of the invariant.
LEMMA StepKept ==
    ASSUME WindowInv, WindowInv', NEW w, NEW v, PipeInv(w), Carries(w, v),
           Covered(v)', Confirmed(v, term, commitIndex)',
           \A q \in Requests' : q \in Requests \/ Sound(v, q)',
           \A d \in calls' : \/ Old(d) \/ d.status # "acked"
                             \/ leading' /\ d.request.term = term' =>
                                   Held(v, d.index)',
           leading' => \/ matchIndex' = 0
                       \/ matchIndex' = matchIndex /\ term' = term
                       \/ Held(v, matchIndex)'
    PROVE  PipeInv(v)'
<1>1. /\ term \in Nat /\ term' \in Nat /\ Logs(Entry, w)
      /\ calls \subseteq Call /\ late \subseteq Request /\ matchIndex \in Nat
  <2>1. Logs(Entry, w)
    BY DEF PipeInv, Sources
  <2>2. term' \in Nat
    BY DEF WindowInv, TypeOK
  <2>3. QED
    BY <2>1, <2>2, Types DEF WindowInv
<1>2. /\ Sources(v)' /\ Leaderships(v)'
      /\ leading' /\ term' = term =>
            leading /\ \A k \in Nat : Held(w, k) => Held(v, k)'
  BY DEF Carries
<1>3. \A q \in Requests : q \in Request /\ Sound(w, q)
  BY <1>1 DEF Requests, Call, PipeInv, Asked
<1>4. Asked(v)'
  <2>1. \A q \in Requests : Sound(v, q)'
    BY <1>1, <1>3, SoundKept
  <2>2. QED
    BY <2>1 DEF Asked
<1>5. ASSUME leading', NEW d \in calls', d.status = "acked",
             d.request.term = term', Old(d)
      PROVE  Held(v, d.index)'
  <2>1. PICK c \in calls : /\ d.request = c.request /\ d.status = c.status
                           /\ d.index = c.index
    BY <1>5 DEF Old
  <2>2. c.request \in Requests /\ c.index \in Nat
    BY <1>1 DEF Requests, Call
  <2>3. c.request.term <= term /\ c.request.term \in Nat
    BY <1>3, <2>2 DEF Sound, Request
  <2>4. term' = term
    BY <1>1, <1>5, <2>1, <2>3 DEF Carries
  <2>5. leading /\ Held(w, c.index)
    BY <1>2, <1>5, <2>1, <2>4 DEF PipeInv, Answers
  <2>6. QED
    BY <1>2, <1>5, <2>1, <2>2, <2>4, <2>5
<1>6. Answers(v)'
  BY <1>5 DEF Answers
<1>7. leading' => Held(v, matchIndex)'
  <2>1. CASE leading' /\ matchIndex' = 0
    BY <2>1 DEF Held
  <2>2. CASE leading' /\ matchIndex' = matchIndex /\ term' = term
    <3>1. leading /\ Held(w, matchIndex)
      BY <1>2, <2>2 DEF PipeInv
    <3>2. Held(v, matchIndex)'
      BY <1>1, <1>2, <2>2, <3>1
    <3>3. QED
      BY <3>2
  <2>3. QED
    BY <2>1, <2>2
<1>8. QED
  BY <1>2, <1>4, <1>6, <1>7 DEF PipeInv

\* What a leader pumps is true of what it has written.
LEMMA PumpedSound ==
    ASSUME NEW v, NEW t \in Nat, t \in DOMAIN v, NEW l \in Seq(Entry), v[t] = l,
           NEW commit \in Nat, NEW cs, NEW next \in Nat, NEW m, NEW heartbeat,
           NEW c \in PumpedCalls(l, t, commit, cs, next, m, heartbeat)
    PROVE  \/ c \in cs
           \/ /\ c.status = "sent" /\ Piece(v, c.request)
              /\ c.request.term = t /\ c.request.commit = commit
<1>1. CASE c \in cs
  BY <1>1
<1>2. ASSUME NEW first \in 1..(Len(l) + 1), c = Sent(RequestAt(l, t, commit, first))
      PROVE  /\ c.status = "sent" /\ Piece(v, c.request)
             /\ c.request.term = t /\ c.request.commit = commit
  <2> DEFINE q == RequestAt(l, t, commit, first)
  <2>1. /\ q.term = t /\ q.prev = first - 1 /\ q.prevTerm = TermAt(l, first - 1)
        /\ q.entries = Batch(l, first, MaxBatch) /\ q.commit = commit
    BY DEF RequestAt
  <2>2. /\ first - 1 + Len(Batch(l, first, MaxBatch)) <= Len(l)
        /\ \A k \in 1..Len(Batch(l, first, MaxBatch)) :
              Batch(l, first, MaxBatch)[k] = l[first - 1 + k]
    BY WindowAssumption, BatchPiece
  <2> HIDE DEF q
  <2>3. Piece(v, q)
    BY <2>1, <2>2 DEF Piece
  <2>4. c.request = q /\ c.status = "sent"
    BY <1>2 DEF Sent, q
  <2>5. QED
    BY <2>1, <2>3, <2>4
<1>3. c \in cs \/ \E first \in 1..(Len(l) + 1) : c = Sent(RequestAt(l, t, commit, first))
  BY PumpedCallsAt
<1>4. QED
  BY <1>2, <1>3

\* A step of a leader that pumps.
LEMMA PumpKept ==
    ASSUME WindowInv, WindowInv', NEW w, NEW v, PipeInv(w), Carries(w, v),
           Covered(v)', Confirmed(v, term, commitIndex)', leading',
           NEW cs, \A d \in cs : Old(d),
           NEW next \in Nat, NEW m, NEW heartbeat,
           Pump(log', term', commitIndex', cs, next, m, heartbeat), late' = late,
           \/ matchIndex' = 0
           \/ matchIndex' = matchIndex /\ term' = term
           \/ Held(v, matchIndex)'
    PROVE  PipeInv(v)'
<1>1. /\ term' \in DOMAIN v /\ v[term'] = log' /\ term' \in Nat
      /\ log' \in Seq(Entry) /\ commitIndex' \in Nat
  BY DEF Carries, Leaderships, WindowInv, TypeOK
<1>2. calls' = PumpedCalls(log', term', commitIndex', cs, next, m, heartbeat)
  BY DEF Pump
<1>3. \A c \in calls' :
         \/ c \in cs
         \/ /\ c.status = "sent" /\ Piece(v, c.request)
            /\ c.request.term = term' /\ c.request.commit = commitIndex'
  BY <1>1, <1>2, PumpedSound
<1>4. ASSUME NEW q \in Requests'
      PROVE  q \in Requests \/ Sound(v, q)'
  <2>1. CASE q \in late'
    BY <2>1 DEF Requests
  <2>2. ASSUME NEW c \in calls', q = c.request, c \in cs
        PROVE  q \in Requests
    BY <2>2 DEF Old, Requests
  <2>3. ASSUME NEW c \in calls', q = c.request, c \notin cs
        PROVE  Sound(v, q)'
    <3>1. Piece(v, q) /\ q.term = term' /\ q.commit = commitIndex'
      BY <1>3, <2>3
    <3>2. QED
      BY <1>1, <3>1 DEF Sound
  <2>4. QED
    BY <2>1, <2>2, <2>3 DEF Requests
<1>5. \A d \in calls' : Old(d) \/ d.status # "acked"
  BY <1>3
<1>6. QED
  BY <1>4, <1>5, StepKept

\* Where the follower's log stays, so does what it has.
LEMMA KeepsSame ==
    ASSUME NEW w, UNCHANGED fLog
    PROVE  Keeps(w)
BY DEF Keeps

\* Covered and confirmed stay so where commit indexes do not change.
LEMMA IndexesKept ==
    ASSUME WindowInv, WindowInv', NEW w, NEW v, PipeInv(w), Carries(w, v)
    PROVE  /\ Keeps(w) /\ fCommit' = fCommit => Covered(v)'
           /\ commitIndex' = commitIndex => Confirmed(v, term, commitIndex)'
<1>1. /\ term \in Nat /\ term' \in Nat /\ term <= term'
      /\ fTerm' \in Nat /\ TypeOK
  BY Types DEF WindowInv, TypeOK, Carries
<1>2. /\ Sources(w) /\ Leaderships(w) /\ Covered(w)
      /\ Confirmed(w, term, commitIndex)
  BY DEF PipeInv
<1>3. ASSUME commitIndex' = commitIndex
      PROVE  Confirmed(v, term, commitIndex)'
  BY <1>1, <1>2, <1>3, ConfirmedKept
<1>4. Keeps(w) /\ fCommit' = fCommit => Covered(v)'
  BY <1>1, <1>2, CoveredKept
<1>5. QED
  BY <1>3, <1>4

\* The index that is committed: an entry of the term, up to what matches.
LEMMA CommittedWithIs ==
    ASSUME TypeOK, NEW match \in Nat
    PROVE  LET k == CommittedWith(match)
           IN  \/ k = commitIndex
               \/ k \in 1..Len(log) /\ k <= match /\ log[k].term = term
<1> DEFINE ready == {k \in (commitIndex + 1)..Len(log) :
                       log[k].term = term /\ k <= match}
<1>1. commitIndex \in Nat /\ Len(log) \in Nat
  BY Types
<1>2. CASE ready = {}
  BY <1>2 DEF CommittedWith
<1>3. CASE ready # {}
  <2>1. ready \in SUBSET (0..Len(log))
    BY <1>1
  <2> DEFINE best == CHOOSE k \in ready : \A m \in ready : m <= k
  <2>2. best \in ready
    <3> HIDE DEF ready
    <3>1. \E k \in ready : \A m \in ready : m <= k
      BY <1>1, <1>3, <2>1, GreatestNatural
    <3>2. QED
      BY <3>1
  <2>3. CommittedWith(match) = best
    BY <1>3 DEF CommittedWith
  <2> HIDE DEF best
  <2>4. best \in 1..Len(log) /\ best <= match /\ log[best].term = term
    BY <1>1, <2>2
  <2>5. QED
    BY <2>3, <2>4
<1>4. QED
  BY <1>2, <1>3

\* An entry of the leader's term that the follower holds is fixed.
LEMMA HeldFixed ==
    ASSUME TypeOK, NEW w, Sources(w), Leaderships(w), leading,
           NEW match \in Nat, Held(w, match), NEW k \in 1..Len(log), k <= match,
           log[k].term = term
    PROVE  Fixed(w, term, k)
<1>1. /\ term <= fTerm /\ Agree(fLog, log, k) /\ Final(w, term, k)
  BY DEF Held
<1>2. /\ w[term] = log /\ log \in Seq(Entry) /\ term \in Nat
      /\ rLeads => rTerm # term
  BY PipeFacts
<1>3. Agree(log, log, k)
  BY <1>2, AgreeSelf
<1>4. QED
  BY <1>1, <1>2, <1>3 DEF Fixed

-----------------------------------------------------------------------------
\* The steps

LEMMA LeadPipe ==
    ASSUME WindowInv, WindowInv', NEW w, PipeInv(w), Lead
    PROVE  \E v : PipeInv(v)'
<1>1. TypeOK /\ Sources(w) /\ Leaderships(w)
  BY DEF WindowInv, PipeInv
<1>2. PICK v : Carries(w, v)
  BY <1>1, LeadCarries
<1>3. /\ leading' /\ matchIndex' = 0 /\ late' = late
      /\ commitIndex' = commitIndex /\ fLog' = fLog /\ fCommit' = fCommit
      /\ Pump(log', term', commitIndex', calls, Len(log) + 1, "probe", TRUE)
  BY DEF Lead
<1>4. Covered(v)' /\ Confirmed(v, term, commitIndex)'
  BY <1>2, <1>3, KeepsSame, IndexesKept
<1>5. Len(log) + 1 \in Nat /\ \A d \in calls : Old(d)
  BY <1>1, Types DEF Old
<1>6. PipeInv(v)'
  BY <1>2, <1>3, <1>4, <1>5, PumpKept
<1>7. QED
  BY <1>6

LEMMA ClientAppendPipe ==
    ASSUME WindowInv, WindowInv', NEW w, PipeInv(w), ClientAppend
    PROVE  \E v : PipeInv(v)'
<1>1. TypeOK /\ Sources(w) /\ Leaderships(w)
  BY DEF WindowInv, PipeInv
<1>2. PICK v : Carries(w, v)
  BY <1>1, ClientAppendCarries
<1>3. /\ leading' /\ matchIndex' = matchIndex /\ late' = late /\ term' = term
      /\ commitIndex' = commitIndex /\ fLog' = fLog /\ fCommit' = fCommit
      /\ Pump(log', term', commitIndex', calls, nextIndex, mode, TRUE)
  BY DEF ClientAppend, follower
<1>4. Covered(v)' /\ Confirmed(v, term, commitIndex)'
  BY <1>2, <1>3, KeepsSame, IndexesKept
<1>5. nextIndex \in Nat /\ \A d \in calls : Old(d)
  BY <1>1, Types DEF Old
<1>6. PipeInv(v)'
  BY <1>2, <1>3, <1>4, <1>5, PumpKept
<1>7. QED
  BY <1>6

\* Where the logs stay, and a leader only pumps.
LEMMA OnlyPumps ==
    ASSUME WindowInv, WindowInv', NEW w, PipeInv(w), leading,
           UNCHANGED <<term, leading, log, commitIndex>>,
           UNCHANGED follower, UNCHANGED rival,
           UNCHANGED <<matchIndex, late>>,
           NEW cs, \A d \in cs : Old(d),
           NEW next \in Nat, NEW m, NEW heartbeat,
           Pump(log, term, commitIndex, cs, next, m, heartbeat)
    PROVE  PipeInv(w)'
<1>1. TypeOK /\ Sources(w) /\ Leaderships(w)
  BY DEF WindowInv, PipeInv
<1>2. UNCHANGED data /\ fCommit' = fCommit /\ fLog' = fLog
  BY DEF data, follower, rival
<1>3. Carries(w, w)
  BY <1>1, <1>2, SameCarries
<1>4. Covered(w)' /\ Confirmed(w, term, commitIndex)'
  BY <1>2, <1>3, KeepsSame, IndexesKept
<1>5. leading' /\ Pump(log', term', commitIndex', cs, next, m, heartbeat)
  OBVIOUS
<1>6. QED
  BY <1>3, <1>4, <1>5, PumpKept

LEMMA HeartbeatPipe ==
    ASSUME WindowInv, WindowInv', NEW w, PipeInv(w), Heartbeat
    PROVE  PipeInv(w)'
<1>1. /\ leading /\ UNCHANGED <<term, leading, log, commitIndex>>
      /\ UNCHANGED follower /\ UNCHANGED rival /\ UNCHANGED <<matchIndex, late>>
      /\ Pump(log, term, commitIndex, calls, nextIndex, mode, TRUE)
  BY DEF Heartbeat, own
<1>2. nextIndex \in Nat /\ \A d \in calls : Old(d)
  BY Types DEF Old, WindowInv
<1>3. QED
  BY <1>1, <1>2, OnlyPumps

LEMMA RefusalOutrunPipe ==
    ASSUME WindowInv, WindowInv', NEW w, PipeInv(w), NEW c \in calls,
           RefusalOutrun(c)
    PROVE  PipeInv(w)'
<1>1. /\ leading /\ UNCHANGED <<term, leading, log, commitIndex>>
      /\ UNCHANGED follower /\ UNCHANGED rival /\ UNCHANGED <<matchIndex, late>>
      /\ Pump(log, term, commitIndex, calls \ {c}, nextIndex, mode, FALSE)
  BY DEF RefusalOutrun, Current, own
<1>2. nextIndex \in Nat /\ \A d \in calls \ {c} : Old(d)
  BY Types DEF Old, WindowInv
<1>3. QED
  BY <1>1, <1>2, OnlyPumps

LEMMA SupersededOld ==
    ASSUME WindowInv, NEW c
    PROVE  \A d \in Superseded(calls \ {c}) : Old(d)
<1>1. calls \ {c} \in SUBSET Call
  BY Types DEF WindowInv
<1>2. QED
  BY <1>1, SupersededSame DEF Old

LEMMA RefusedPipe ==
    ASSUME WindowInv, WindowInv', NEW w, PipeInv(w), NEW c \in calls, Refused(c)
    PROVE  PipeInv(w)'
<1>1. /\ leading /\ UNCHANGED <<term, leading, log, commitIndex>>
      /\ UNCHANGED follower /\ UNCHANGED rival /\ UNCHANGED <<matchIndex, late>>
      /\ Pump(log, term, commitIndex, Superseded(calls \ {c}), BackedTo(c),
              "probe", FALSE)
  BY DEF Refused, Current, own
<1>2. BackedTo(c) \in Nat
  <2>1. c.request.prev \in Nat /\ c.index \in Nat /\ matchIndex \in Nat
    BY Types DEF WindowInv, Call, Request
  <2>2. QED
    BY <2>1 DEF BackedTo, Backed, Larger
<1>3. QED
  BY <1>1, <1>2, SupersededOld, OnlyPumps

LEMMA AcknowledgedPipe ==
    ASSUME WindowInv, WindowInv', NEW w, PipeInv(w), NEW c \in calls,
           Acknowledged(c)
    PROVE  PipeInv(w)'
<1> DEFINE match  == Matched(c)
           commit == CommittedWith(match)
           next   == Larger(nextIndex, match + 1)
<1>1. TypeOK /\ Sources(w) /\ Leaderships(w)
  BY DEF WindowInv, PipeInv
<1>2. leading /\ c.request.term = term /\ c.status = "acked"
  BY DEF Acknowledged, Current
<1>3. c.index \in Nat /\ matchIndex \in Nat /\ nextIndex \in Nat
  BY <1>1, Types DEF Call
<1>4. Held(w, c.index) /\ Held(w, matchIndex)
  BY <1>2 DEF PipeInv, Answers
<1>5. match \in {matchIndex, c.index} /\ match \in Nat
  BY <1>3 DEF Matched, Larger
<1>6. next \in Nat
  BY <1>3, <1>5 DEF Larger
<1>7. /\ Pump(log, term, commit, calls \ {c}, next, "replicate", FALSE)
      /\ leading' = leading /\ log' = log /\ term' = term
      /\ commitIndex' = commit /\ matchIndex' = match
      /\ late' = late /\ fTerm' = fTerm /\ rTerm' = rTerm
      /\ rLog' = rLog /\ rLeads' = rLeads /\ fLog' = fLog /\ fCommit' = fCommit
  BY DEF Acknowledged, follower, rival
<1> HIDE DEF match, next
<1>8. Carries(w, w)
  BY <1>1, <1>7, SameCarries DEF data
<1>9. Confirmed(w, term, commit)
  <2>1. CASE commit = commitIndex
    BY <2>1 DEF PipeInv
  <2>2. CASE commit \in 1..Len(log) /\ commit <= match /\ log[commit].term = term
    <3>1. Held(w, match)
      BY <1>4, <1>5
    <3>2. Fixed(w, term, commit)
      BY <1>1, <1>2, <1>5, <2>2, <3>1, HeldFixed
    <3>3. term \in Nat /\ term <= term /\ commit \in Nat /\ commit <= commit
      BY <1>1, <2>2, Types
    <3>4. QED
      BY <3>2, <3>3 DEF Confirmed
  <2>3. QED
    BY <1>1, <1>5, <2>1, <2>2, CommittedWithIs
<1> HIDE DEF commit
<1>10. Confirmed(w, term, commitIndex)'
  <2>1. term \in Nat /\ term' \in Nat /\ term <= term'
    BY <1>1, <1>7, Types
  <2>2. QED
    BY <1>7, <1>8, <1>9, <2>1, ConfirmedKept
<1>11. Covered(w)'
  BY <1>7, <1>8, KeepsSame, IndexesKept
<1>12. Held(w, matchIndex)'
  <2>1. \A k \in Nat : Held(w, k) => Held(w, k)'
    BY <1>2, <1>7, <1>8 DEF Carries
  <2>2. matchIndex' \in Nat /\ (matchIndex' = matchIndex \/ matchIndex' = c.index)
    BY <1>5, <1>7
  <2>3. CASE matchIndex' = matchIndex
    BY <1>3, <1>4, <2>1, <2>3
  <2>4. CASE matchIndex' = c.index
    BY <1>3, <1>4, <2>1, <2>4
  <2>5. QED
    BY <2>2, <2>3, <2>4
<1>13. leading' /\ Pump(log', term', commitIndex', calls \ {c}, next, "replicate", FALSE)
  BY <1>2, <1>7
<1>14. \A d \in calls \ {c} : Old(d)
  BY DEF Old
<1>15. QED
  BY <1>6, <1>7, <1>8, <1>10, <1>11, <1>12, <1>13, <1>14, PumpKept

\* Where the leader's view of the follower stays, and no answer is new.
LEMMA QuietStep ==
    ASSUME WindowInv, WindowInv', NEW w, NEW v, PipeInv(w), Carries(w, v),
           Keeps(w), UNCHANGED <<commitIndex, fCommit, matchIndex>>,
           leading' => term' = term,
           \A d \in calls' : Old(d), late' \subseteq Requests
    PROVE  PipeInv(v)'
<1>1. Covered(v)' /\ Confirmed(v, term, commitIndex)'
  BY IndexesKept
<1>2. \A q \in Requests' : q \in Requests
  BY DEF Requests, Old
<1>3. leading' => matchIndex' = matchIndex /\ term' = term
  OBVIOUS
<1>4. QED
  BY <1>1, <1>2, <1>3, StepKept

LEMMA RivalLeadsPipe ==
    ASSUME WindowInv, WindowInv', NEW w, PipeInv(w), RivalLeads
    PROVE  \E v : PipeInv(v)'
<1>1. TypeOK /\ Sources(w) /\ Leaderships(w)
  BY DEF WindowInv, PipeInv
<1>2. PICK v : Carries(w, v)
  BY <1>1, RivalLeadsCarries
<1>3. /\ UNCHANGED <<commitIndex, fCommit, matchIndex>> /\ fLog' = fLog
      /\ calls' = calls /\ late' = late /\ (leading' => term' = term)
  BY DEF RivalLeads, progress, net
<1>4. (\A d \in calls' : Old(d)) /\ late' \subseteq Requests
  BY <1>3 DEF Old, Requests
<1>5. PipeInv(v)'
  BY <1>2, <1>3, <1>4, KeepsSame, QuietStep
<1>6. QED
  BY <1>5

LEMMA RivalReachesLeaderPipe ==
    ASSUME WindowInv, WindowInv', NEW w, PipeInv(w), RivalReachesLeader
    PROVE  PipeInv(w)'
<1>1. TypeOK /\ Sources(w) /\ Leaderships(w)
  BY DEF WindowInv, PipeInv
<1>2. Carries(w, w)
  BY <1>1, RivalReachesLeaderCarries
<1>3. /\ UNCHANGED <<commitIndex, fCommit, matchIndex>> /\ fLog' = fLog
      /\ calls' = calls /\ late' = late /\ (leading' => term' = term)
  BY DEF RivalReachesLeader, progress, net, follower
<1>4. (\A d \in calls' : Old(d)) /\ late' \subseteq Requests
  BY <1>3 DEF Old, Requests
<1>5. QED
  BY <1>2, <1>3, <1>4, KeepsSame, QuietStep

LEMMA RivalReachesFollowerPipe ==
    ASSUME WindowInv, WindowInv', NEW w, PipeInv(w), RivalReachesFollower
    PROVE  PipeInv(w)'
<1>1. TypeOK /\ Sources(w) /\ Leaderships(w)
  BY DEF WindowInv, PipeInv
<1>2. Carries(w, w) /\ Keeps(w)
  BY <1>1, RivalReachesFollowerCarries
<1>3. /\ UNCHANGED <<commitIndex, fCommit, matchIndex>>
      /\ calls' = calls /\ late' = late /\ (leading' => term' = term)
  BY DEF RivalReachesFollower, own, progress, net
<1>4. (\A d \in calls' : Old(d)) /\ late' \subseteq Requests
  BY <1>3 DEF Old, Requests
<1>5. QED
  BY <1>2, <1>3, <1>4, QuietStep

LEMMA RivalFollowsPipe ==
    ASSUME WindowInv, WindowInv', NEW w, PipeInv(w), RivalFollows
    PROVE  PipeInv(w)'
<1> DEFINE k == CommittedWith(Len(log))
<1>1. TypeOK /\ Sources(w) /\ Leaderships(w)
  BY DEF WindowInv, PipeInv
<1>2. Carries(w, w)
  BY <1>1, RivalFollowsCarries
<1>3. /\ leading /\ rTerm <= term /\ rTerm' = term /\ rLeads' = FALSE
      /\ rLog' = log /\ term' = term /\ log' = log /\ commitIndex' = k
      /\ fLog' = fLog /\ fCommit' = fCommit /\ matchIndex' = matchIndex
      /\ calls' = calls /\ late' = late
  BY DEF RivalFollows, progress, net, follower
<1>4. Len(log) \in Nat /\ term \in Nat /\ log \in Seq(Entry) /\ rTerm \in Nat
  BY <1>1, Types
<1> HIDE DEF k
<1>5. Confirmed(w, term, commitIndex)'
  <2>1. CASE k = commitIndex
    BY <1>2, <1>3, <2>1, IndexesKept
  <2>2. CASE k \in 1..Len(log) /\ log[k].term = term
    <3>1. /\ term \in DOMAIN w /\ w[term] = log /\ term > 0
          /\ \A t \in DOMAIN w : ~ (t > term)
      BY <1>1, <1>3, <1>4, PipeFacts
    <3>2. Final(w, term, k)
      BY <2>2, <3>1 DEF Final
    <3>3. k \in Nat /\ Agree(log, log, k)
      BY <1>4, <2>2, AgreeSelf
    <3>4. /\ Final(w, term', commitIndex') /\ ~rLeads'
          /\ term' <= term' /\ Agree(log', w[term'], commitIndex')
          /\ term' <= rTerm' /\ Agree(rLog', w[term'], commitIndex')
      BY <1>3, <1>4, <3>1, <3>2, <3>3
    <3>5. Fixed(w, term, commitIndex)'
      BY <3>4 DEF Fixed
    <3>6. term' \in Nat /\ term' <= term' /\ commitIndex' \in Nat
          /\ commitIndex' <= commitIndex'
      BY <1>3, <1>4, <3>3
    <3>7. QED
      BY <3>5, <3>6 DEF Confirmed
  <2>3. QED
    BY <1>1, <1>4, <2>1, <2>2, CommittedWithIs DEF k
<1>6. Covered(w)'
  BY <1>2, <1>3, KeepsSame, IndexesKept
<1>7. \A q \in Requests' : q \in Requests
  BY <1>3 DEF Requests
<1>8. \A d \in calls' : Old(d)
  BY <1>3 DEF Old
<1>9. QED
  BY <1>2, <1>3, <1>5, <1>6, <1>7, <1>8, StepKept

LEMMA AnswerDeposesPipe ==
    ASSUME WindowInv, WindowInv', NEW w, PipeInv(w), NEW c \in calls,
           AnswerDeposes(c)
    PROVE  PipeInv(w)'
<1>1. TypeOK /\ Sources(w) /\ Leaderships(w)
  BY DEF WindowInv, PipeInv
<1>2. /\ UNCHANGED <<commitIndex, fCommit, matchIndex>> /\ fLog' = fLog
      /\ calls' = calls \ {c} /\ late' = late /\ leading' = FALSE
      /\ term' = c.term /\ term' > term /\ UNCHANGED log
      /\ UNCHANGED follower /\ UNCHANGED rival
  BY DEF AnswerDeposes, progress, follower
<1>3. term' \in Nat
  BY DEF WindowInv, TypeOK
<1>4. Carries(w, w)
  BY <1>1, <1>2, <1>3, DeposedCarries
<1>5. (\A d \in calls' : Old(d)) /\ late' \subseteq Requests
  BY <1>2 DEF Old, Requests
<1>6. QED
  BY <1>2, <1>4, <1>5, KeepsSame, QuietStep

LEMMA AnswerFencedPipe ==
    ASSUME WindowInv, WindowInv', NEW w, PipeInv(w), NEW c \in calls,
           AnswerFenced(c)
    PROVE  PipeInv(w)'
<1>1. TypeOK /\ Sources(w) /\ Leaderships(w)
  BY DEF WindowInv, PipeInv
<1>2. /\ UNCHANGED <<commitIndex, fCommit, matchIndex>> /\ fLog' = fLog
      /\ calls' = calls \ {c} /\ late' = late /\ term' = term /\ UNCHANGED data
  BY DEF AnswerFenced, own, progress, follower, rival, data
<1>3. Carries(w, w)
  BY <1>1, <1>2, SameCarries
<1>4. (\A d \in calls' : Old(d)) /\ late' \subseteq Requests
  BY <1>2 DEF Old, Requests
<1>5. QED
  BY <1>2, <1>3, <1>4, KeepsSame, QuietStep

LEMMA CallFailsPipe ==
    ASSUME WindowInv, WindowInv', NEW w, PipeInv(w), NEW c \in calls, CallFails(c)
    PROVE  PipeInv(w)'
<1>1. TypeOK /\ Sources(w) /\ Leaderships(w)
  BY DEF WindowInv, PipeInv
<1>2. /\ UNCHANGED <<commitIndex, fCommit, matchIndex>> /\ fLog' = fLog
      /\ term' = term /\ UNCHANGED data
      /\ calls' = calls \ {c} \/ calls' = Superseded(calls \ {c})
      /\ late' = late \/ late' = late \cup {c.request}
  BY DEF CallFails, own, follower, rival, data
<1>3. Carries(w, w)
  BY <1>1, <1>2, SameCarries
<1>4. \A d \in calls' : Old(d)
  <2>1. \A d \in calls \ {c} : Old(d)
    BY DEF Old
  <2>2. QED
    BY <1>2, <2>1, SupersededOld
<1>5. late' \subseteq Requests
  BY <1>2 DEF Requests
<1>6. QED
  BY <1>2, <1>3, <1>4, <1>5, KeepsSame, QuietStep

LEMMA ReceivePipe ==
    ASSUME WindowInv, WindowInv', NEW w, PipeInv(w), NEW c \in calls, Receive(c)
    PROVE  PipeInv(w)'
<1> DEFINE q == c.request
<1>1. TypeOK /\ Sources(w) /\ Leaderships(w) /\ Covered(w)
  BY DEF WindowInv, PipeInv
<1>2. c \in Call /\ q \in Request /\ q \in Requests /\ Sound(w, q)
  BY <1>1, Types DEF Call, Requests, PipeInv, Asked
<1>3. /\ Handle(q) /\ calls' = (calls \ {c}) \cup {Replied(c)}
      /\ UNCHANGED own /\ UNCHANGED rival /\ matchIndex' = matchIndex
      /\ late' = late /\ commitIndex' = commitIndex /\ term' = term
      /\ leading' = leading
  BY DEF Receive, own, progress
<1>4. /\ Replied(c).request = q
      /\ Replied(c).status = "acked" => Replied(c).index = Reach(q) /\ Accepts(q)
  <2>1. Replied(c).status = IF Accepts(q) THEN "acked" ELSE "refused"
    BY <1>2 DEF Replied, Call
  <2>2. QED
    BY <1>1, <1>2, <2>1, RepliedType
<1> HIDE DEF q
<1>5. Carries(w, w) /\ Keeps(w)
  BY <1>1, <1>2, <1>3, HandleCarries
<1>6. Covered(w)'
  BY <1>1, <1>2, <1>3, <1>5, HandleCovered
<1>7. Confirmed(w, term, commitIndex)'
  BY <1>3, <1>5, IndexesKept
<1>8. \A r \in Requests' : r \in Requests
  BY <1>2, <1>3, <1>4 DEF Requests
<1>9. ASSUME NEW d \in calls', d = Replied(c), d.status = "acked", leading',
             d.request.term = term'
      PROVE  Held(w, d.index)'
  <2>1. d.index = Reach(q) /\ Accepts(q) /\ leading /\ q.term = term
    BY <1>3, <1>4, <1>9
  <2>2. Held(w, Reach(q))'
    BY <1>1, <1>2, <1>3, <2>1, AcceptedHeld
  <2>3. QED
    BY <2>1, <2>2
<1>10. \A d \in calls' : \/ Old(d) \/ d.status # "acked"
                         \/ leading' /\ d.request.term = term' => Held(w, d.index)'
  BY <1>3, <1>9 DEF Old
<1>11. QED
  BY <1>3, <1>5, <1>6, <1>7, <1>8, <1>10, StepKept

LEMMA ReceiveLatePipe ==
    ASSUME WindowInv, WindowInv', NEW w, PipeInv(w), NEW q \in late, ReceiveLate(q)
    PROVE  PipeInv(w)'
<1>1. TypeOK /\ Sources(w) /\ Leaderships(w) /\ Covered(w)
  BY DEF WindowInv, PipeInv
<1>2. q \in Request /\ Sound(w, q)
  BY <1>1, Types DEF Requests, PipeInv, Asked
<1>3. /\ Handle(q) /\ calls' = calls /\ late' = late \ {q}
      /\ UNCHANGED own /\ UNCHANGED rival /\ matchIndex' = matchIndex
      /\ commitIndex' = commitIndex /\ term' = term
  BY DEF ReceiveLate, own, progress
<1>4. Carries(w, w) /\ Keeps(w)
  BY <1>1, <1>2, <1>3, HandleCarries
<1>5. Covered(w)'
  BY <1>1, <1>2, <1>3, <1>4, HandleCovered
<1>6. Confirmed(w, term, commitIndex)'
  BY <1>3, <1>4, IndexesKept
<1>7. \A r \in Requests' : r \in Requests
  BY <1>3 DEF Requests
<1>8. \A d \in calls' : Old(d)
  BY <1>3 DEF Old
<1>9. QED
  BY <1>3, <1>4, <1>5, <1>6, <1>7, <1>8, StepKept

-----------------------------------------------------------------------------
\* The first state

\* Terms that never fall from one entry to the next never fall.
LEMMA OrderedAll ==
    ASSUME NEW l \in Seq(Entry), Ordered(l), NEW k \in 1..Len(l), NEW n \in 1..k
    PROVE  l[n].term <= l[k].term
<1> DEFINE S == {x \in n..Len(l) : ~ (l[n].term <= l[x].term)}
<1>1. \A x \in 1..Len(l) : l[x].term \in Nat
  BY EntryTerms, EntryTerm
<1>2. SUFFICES ASSUME S # {}
               PROVE  FALSE
  OBVIOUS
<1>3. PICK x \in S : \A y \in S : x <= y
  <2>1. S \in SUBSET Nat
    OBVIOUS
  <2> HIDE DEF S
  <2>2. QED
    BY <1>2, <2>1, LeastNatural
<1>4. x \in n..Len(l) /\ ~ (l[n].term <= l[x].term)
  OBVIOUS
<1>5. x > n /\ x - 1 \in n..Len(l) /\ x - 1 \in 1..Len(l) - 1
  BY <1>1, <1>4
<1>6. l[n].term <= l[x - 1].term
  BY <1>3, <1>5
<1>7. l[x - 1].term <= l[x].term
  <2>1. l[x - 1].term <= l[(x - 1) + 1].term
    BY <1>5 DEF Ordered
  <2>2. (x - 1) + 1 = x
    BY <1>4
  <2>3. QED
    BY <2>1, <2>2
<1>8. QED
  BY <1>1, <1>4, <1>5, <1>6, <1>7

\* Two logs with an entry of the same term agree up to the first of them.
LEMMA MatchingAgree ==
    ASSUME NEW l \in Seq(Entry), NEW r \in Seq(Entry), Matching(l, r),
           NEW k \in 1..Len(l), NEW n \in 1..Len(r), l[k].term = r[n].term
    PROVE  /\ n <= k => Agree(r, l, n)
           /\ k <= n => Agree(l, r, k)
<1>1. SubSeq(l, 1, Smaller(k, n)) = SubSeq(r, 1, Smaller(k, n))
  BY DEF Matching
<1>2. Smaller(k, n) \in {k, n} /\ (n <= k => Smaller(k, n) = n)
      /\ (k <= n => Smaller(k, n) = k)
  BY DEF Smaller
<1>3. ASSUME NEW m \in Nat, m <= k, m <= n, SubSeq(l, 1, m) = SubSeq(r, 1, m)
      PROVE  Agree(l, r, m)
  <2>1. m \in 0..Len(l) /\ m \in 0..Len(r)
    BY <1>3
  <2>2. Agree(SubSeq(l, 1, m), l, m) /\ Agree(SubSeq(r, 1, m), r, m)
    BY <2>1, PrefixAgrees
  <2>3. QED
    BY <1>3, <2>2, AgreeSym, AgreeTrans
<1>4. n <= k => Agree(l, r, n)
  BY <1>1, <1>2, <1>3
<1>5. k <= n => Agree(l, r, k)
  BY <1>1, <1>2, <1>3
<1>6. QED
  BY <1>4, <1>5, AgreeSym

\* l is what the leader of term t has written, as far as the logs a and b tell.
Wrote(a, b, t, l) ==
    /\ l \in Seq(Entry)
    /\ Agree(l, a, Len(l)) \/ Agree(l, b, Len(l))
    /\ \A k \in 1..Len(l) : l[k].term <= t
    /\ \A k \in 1..Len(a) : a[k].term = t => Agree(a, l, k)
    /\ \A k \in 1..Len(b) : b[k].term = t => Agree(b, l, k)

\* The part of a up to its last entry of the term, where b has none further on.
LEMMA LastWrote ==
    ASSUME NEW a \in Seq(Entry), NEW b \in Seq(Entry), Ordered(a), Matching(a, b),
           NEW n \in 1..Len(a),
           \A k \in 1..Len(a) : a[k].term = a[n].term => k <= n,
           \A k \in 1..Len(b) : b[k].term = a[n].term => k <= n
    PROVE  Wrote(a, b, a[n].term, SubSeq(a, 1, n))
<1> DEFINE l == SubSeq(a, 1, n)
           t == a[n].term
<1>1. n \in 0..Len(a) /\ n \in Nat
  OBVIOUS
<1>2. l \in Seq(Entry) /\ Len(l) = n /\ Agree(l, a, n)
  BY <1>1, PrefixAgrees
<1> HIDE DEF l
<1>3. \A k \in 1..Len(l) : l[k].term <= t
  <2>1. \A k \in 1..n : l[k] = a[k]
    BY <1>2 DEF Agree
  <2>2. QED
    BY <1>2, <2>1, OrderedAll
<1>4. ASSUME NEW k \in 1..Len(a), a[k].term = t
      PROVE  Agree(a, l, k)
  BY <1>1, <1>2, <1>4, AgreeLess, AgreeSym
<1>5. ASSUME NEW k \in 1..Len(b), b[k].term = t
      PROVE  Agree(b, l, k)
  <2>1. k <= n /\ k \in Nat
    BY <1>5
  <2>2. Agree(b, a, k)
    BY <1>5, <2>1, MatchingAgree
  <2>3. Agree(l, a, k)
    BY <1>1, <1>2, <2>1, AgreeLess
  <2>4. QED
    BY <2>2, <2>3, AgreeSym, AgreeTrans
<1>6. QED
  BY <1>2, <1>3, <1>4, <1>5 DEF Wrote, l

\* For each term that an entry has, there is such a log.
LEMMA SomeWrote ==
    ASSUME NEW a \in Seq(Entry), NEW b \in Seq(Entry), Ordered(a), Ordered(b),
           Matching(a, b), NEW t,
           \/ \E k \in 1..Len(a) : a[k].term = t
           \/ \E k \in 1..Len(b) : b[k].term = t
    PROVE  \E l : Wrote(a, b, t, l)
<1> DEFINE S == {k \in 1..Len(a) : a[k].term = t} \cup
                {k \in 1..Len(b) : b[k].term = t}
           top == Len(a) + Len(b)
<1>1. S # {} /\ S \in SUBSET (0..top) /\ top \in Nat
  OBVIOUS
<1>2. PICK n \in S : \A k \in S : k <= n
  <2> HIDE DEF S, top
  <2>1. QED
    BY <1>1, GreatestNatural
<1>3. CASE n \in 1..Len(a) /\ a[n].term = t
  <2>1. Wrote(a, b, a[n].term, SubSeq(a, 1, n))
    BY <1>2, <1>3, LastWrote
  <2>2. QED
    BY <1>3, <2>1
<1>4. CASE n \in 1..Len(b) /\ b[n].term = t
  <2>1. Matching(b, a)
    BY DEF Matching, Smaller
  <2>2. Wrote(b, a, b[n].term, SubSeq(b, 1, n))
    BY <1>2, <1>4, <2>1, LastWrote
  <2>3. QED
    BY <1>4, <2>2 DEF Wrote
<1>5. QED
  BY <1>3, <1>4

\* The history before the first leadership, and its no-op.
LEMMA InitSources ==
    ASSUME NEW a \in Seq(Entry), NEW b \in Seq(Entry), Ordered(a), Ordered(b),
           Matching(a, b), LastTerm(a) < FirstTerm, LastTerm(b) < FirstTerm
    PROVE  \E w :
               LET l == Append(a, [term |-> FirstTerm])
               IN  /\ Logs(Entry, w) /\ \A t \in DOMAIN w : Sourced(w, w[t], t)
                   /\ FirstTerm \in DOMAIN w /\ w[FirstTerm] = l
                   /\ \A t \in DOMAIN w : t <= FirstTerm
                   /\ Sourced(w, l, FirstTerm) /\ Sourced(w, b, LastTerm(b))
                   /\ FirstTerm > 0
<1> DEFINE e == [term |-> FirstTerm]
           l == Append(a, e)
           D == {a[k].term : k \in 1..Len(a)} \cup {b[k].term : k \in 1..Len(b)}
           w == [t \in D \cup {FirstTerm} |->
                   IF t = FirstTerm THEN l ELSE CHOOSE r : Wrote(a, b, t, r)]
<1>1. FirstTerm \in Nat /\ LastTerm(b) \in Nat
  BY BoundAssumption, EntryTerms, TermAtType DEF LastTerm
<1>2. e \in Entry /\ e.term = FirstTerm
  BY <1>1, EntryOf
<1> HIDE DEF e
<1>3. /\ l \in Seq(Entry) /\ Agree(l, a, Len(a)) /\ Len(l) = Len(a) + 1
      /\ l[Len(a) + 1] = e
  BY <1>2, AppendAgrees
<1> HIDE DEF l
<1>4. ASSUME NEW r \in Seq(Entry), Ordered(r), LastTerm(r) < FirstTerm,
             NEW k \in 1..Len(r)
      PROVE  r[k].term \in Nat /\ r[k].term <= LastTerm(r) /\ r[k].term < FirstTerm
  <2>1. k \in 1..Len(r) /\ Len(r) \in 1..Len(r)
    OBVIOUS
  <2>2. r[k].term \in Nat /\ r[Len(r)].term \in Nat
    BY <2>1, EntryTerms, EntryTerm
  <2>3. LastTerm(r) = r[Len(r)].term
    BY <2>1 DEF LastTerm, TermAt
  <2>4. r[k].term <= r[Len(r)].term
    BY <1>4, <2>1, OrderedAll
  <2>5. QED
    BY <1>1, <1>4, <2>2, <2>3, <2>4
<1>5. \A t \in D : t \in Nat /\ t < FirstTerm
  BY <1>4
<1>6. \A t \in D : Wrote(a, b, t, w[t])
  <2>1. ASSUME NEW t \in D
        PROVE  Wrote(a, b, t, w[t])
    <3>1. w[t] = CHOOSE r : Wrote(a, b, t, r)
      BY <1>1, <1>5
    <3>2. \E r : Wrote(a, b, t, r)
      <4>1. \/ \E k \in 1..Len(a) : a[k].term = t
            \/ \E k \in 1..Len(b) : b[k].term = t
        OBVIOUS
      <4> HIDE DEF D
      <4>2. QED
        BY <4>1, SomeWrote
    <3> HIDE DEF w
    <3>3. QED
      BY <3>1, <3>2
  <2>2. QED
    BY <2>1
<1>7. DOMAIN w = D \cup {FirstTerm} /\ w[FirstTerm] = l
  OBVIOUS
<1>8. \A k \in 1..Len(a) : a[k].term \in D
  OBVIOUS
<1>9. \A k \in 1..Len(b) : b[k].term \in D
  OBVIOUS
<1> HIDE DEF w, D
<1>10. Logs(Entry, w)
  <2>1. \A t \in DOMAIN w : t \in Nat /\ w[t] \in Seq(Entry)
    BY <1>1, <1>3, <1>5, <1>6, <1>7 DEF Wrote
  <2>2. QED
    BY <2>1, EntryTerms DEF Logs
<1>11. \A k \in 1..Len(a) : Agree(a, w[a[k].term], k)
  BY <1>6, <1>8 DEF Wrote
<1>12. \A k \in 1..Len(b) : Agree(b, w[b[k].term], k)
  BY <1>6, <1>9 DEF Wrote
<1>13. Sourced(w, l, FirstTerm)
  <2>1. ASSUME NEW k \in 1..Len(l)
        PROVE  /\ l[k].term <= FirstTerm /\ l[k].term \in DOMAIN w
               /\ Agree(l, w[l[k].term], k)
    <3>1. CASE k \in 1..Len(a)
      <4>1. l[k] = a[k]
        BY <1>3, <3>1 DEF Agree
      <4>2. Agree(l, a, k)
        BY <1>3, <3>1, AgreeLess
      <4>3. Agree(l, w[a[k].term], k)
        BY <1>11, <3>1, <4>2, AgreeTrans
      <4>4. a[k].term \in D
        BY <1>8, <3>1
      <4>5. QED
        BY <1>1, <1>5, <1>7, <4>1, <4>3, <4>4
    <3>2. CASE k = Len(a) + 1
      <4>1. l[k].term = FirstTerm
        BY <1>2, <1>3, <3>2
      <4>2. Agree(l, l, k)
        BY <1>3, <3>2, AgreeSelf
      <4>3. QED
        BY <1>1, <1>7, <4>1, <4>2
    <3>3. QED
      BY <1>3, <3>1, <3>2
  <2>2. QED
    BY <2>1 DEF Sourced
<1>14. Sourced(w, b, LastTerm(b))
  <2>1. \A k \in 1..Len(b) : b[k].term <= LastTerm(b) /\ b[k].term \in DOMAIN w
    BY <1>4, <1>7, <1>9
  <2>2. QED
    BY <1>12, <2>1 DEF Sourced
<1>15. ASSUME NEW t \in DOMAIN w
       PROVE  Sourced(w, w[t], t)
  <2>1. CASE t = FirstTerm
    BY <1>7, <1>13, <2>1
  <2>2. CASE t \in D
    <3> DEFINE r == w[t]
    <3>1. Wrote(a, b, t, r)
      BY <1>6, <2>2
    <3> HIDE DEF r
    <3>2. ASSUME NEW k \in 1..Len(r)
          PROVE  /\ r[k].term <= t /\ r[k].term \in DOMAIN w
                 /\ Agree(r, w[r[k].term], k)
      <4>1. r \in Seq(Entry) /\ r[k].term <= t /\ k \in Nat
        BY <3>1 DEF Wrote
      <4>2. CASE Agree(r, a, Len(r))
        <5>1. k \in 1..Len(a) /\ r[k] = a[k]
          BY <4>1, <4>2 DEF Agree
        <5>2. Agree(r, a, k)
          BY <4>1, <4>2, AgreeLess
        <5>3. QED
          BY <1>7, <1>8, <1>11, <4>1, <5>1, <5>2, AgreeTrans
      <4>3. CASE Agree(r, b, Len(r))
        <5>1. k \in 1..Len(b) /\ r[k] = b[k]
          BY <4>1, <4>3 DEF Agree
        <5>2. Agree(r, b, k)
          BY <4>1, <4>3, AgreeLess
        <5>3. QED
          BY <1>7, <1>9, <1>12, <4>1, <5>1, <5>2, AgreeTrans
      <4>4. QED
        BY <3>1, <4>2, <4>3 DEF Wrote
    <3>3. QED
      BY <3>2 DEF Sourced, r
  <2>3. QED
    BY <1>7, <2>1, <2>2
<1>16. \A t \in DOMAIN w : t <= FirstTerm
  BY <1>1, <1>5, <1>7
<1>17. FirstTerm > 0
  BY <1>1
<1>18. QED
  BY <1>7, <1>10, <1>13, <1>14, <1>15, <1>16, <1>17 DEF l, e

LEMMA InitPipe ==
    ASSUME Init
    PROVE  \E w : PipeInv(w)
<1>1. PICK h \in Histories :
        /\ log = Append(h[1], [term |-> FirstTerm])
        /\ nextIndex = Len(h[1]) + 1
        /\ fLog = h[2] /\ fTerm = LastTerm(h[2])
  BY DEF Init
<1>2. /\ h[1] \in Seq(Entry) /\ h[2] \in Seq(Entry)
      /\ Ordered(h[1]) /\ Ordered(h[2]) /\ Matching(h[1], h[2])
      /\ LastTerm(h[1]) < FirstTerm /\ LastTerm(h[2]) < FirstTerm
  BY HistoryAssumption
<1>3. PICK w :
        /\ Logs(Entry, w) /\ \A t \in DOMAIN w : Sourced(w, w[t], t)
        /\ FirstTerm \in DOMAIN w /\ w[FirstTerm] = log
        /\ \A t \in DOMAIN w : t <= FirstTerm
        /\ Sourced(w, log, FirstTerm) /\ Sourced(w, fLog, fTerm)
        /\ FirstTerm > 0
  BY <1>1, <1>2, InitSources
<1>4. /\ term = FirstTerm /\ leading = TRUE /\ commitIndex = 0
      /\ matchIndex = 0 /\ fCommit = 0 /\ rTerm = FirstTerm /\ rLog = <<>>
      /\ rLeads = FALSE /\ late = {} /\ FirstTerm \in Nat
      /\ calls = PumpedCalls(log, term, 0, {}, nextIndex, mode, TRUE)
  BY BoundAssumption DEF Init
<1>5. Sourced(w, rLog, rTerm)
  BY <1>4 DEF Sourced
<1>6. Sources(w) /\ Leaderships(w)
  <2>1. Sources(w)
    BY <1>1, <1>3, <1>4, <1>5 DEF Sources
  <2>2. \A t \in DOMAIN w : ~ (t > term)
    BY <1>3, <1>4 DEF Logs
  <2>3. QED
    BY <1>3, <1>4, <2>1, <2>2 DEF Leaderships
<1>7. \A k : Confirmed(w, k, 0)
  BY DEF Confirmed
<1>8. \A c \in calls : /\ c.status = "sent" /\ Piece(w, c.request)
                       /\ c.request.term = term /\ c.request.commit = 0
  <2>1. /\ nextIndex \in Nat /\ log \in Seq(Entry) /\ term \in Nat
        /\ term \in DOMAIN w /\ w[term] = log /\ 0 \in Nat
    BY <1>1, <1>2, <1>3, <1>4 DEF Logs
  <2>2. PICK cs, heartbeat, none :
          /\ \A c : c \notin cs
          /\ none = 0
          /\ calls = PumpedCalls(log, term, none, cs, nextIndex, mode, heartbeat)
    <3>1. \A c : c \notin {}
      OBVIOUS
    <3>2. calls = PumpedCalls(log, term, 0, {}, nextIndex, mode, TRUE)
      BY <1>4
    <3>3. QED
      BY <3>1, <3>2, Zenon
  <2>3. \A c \in calls :
           \/ c \in cs
           \/ /\ c.status = "sent" /\ Piece(w, c.request)
              /\ c.request.term = term /\ c.request.commit = none
    <3>1. none \in Nat
      BY <2>2
    <3>2. calls = PumpedCalls(log, term, none, cs, nextIndex, mode, heartbeat)
      BY <2>2
    <3>3. QED
      BY <2>1, <3>1, <3>2, PumpedSound
  <2>4. QED
    BY <2>2, <2>3
<1>9. Asked(w)
  <2>1. \A q \in Requests : \E c \in calls : q = c.request
    BY <1>4 DEF Requests
  <2>2. term <= term
    BY <1>4
  <2>3. QED
    BY <1>7, <1>8, <2>1, <2>2 DEF Asked, Sound
<1>10. Answers(w)
  BY <1>8 DEF Answers
<1>11. Covered(w) /\ Held(w, matchIndex) /\ Confirmed(w, term, commitIndex)
  BY <1>4, <1>7 DEF Covered, Held
<1>12. QED
  BY <1>6, <1>9, <1>10, <1>11 DEF PipeInv

-----------------------------------------------------------------------------
\* The theorems

LEMMA PipeStep ==
    ASSUME WindowInv, WindowInv', NEW w, PipeInv(w), [Next]_vars
    PROVE  \E v : PipeInv(v)'
<1>1. CASE Lead
  BY <1>1, LeadPipe
<1>2. CASE RivalLeads
  BY <1>2, RivalLeadsPipe
<1>3. CASE RivalFollows
  BY <1>3, RivalFollowsPipe
<1>4. CASE RivalReachesLeader
  BY <1>4, RivalReachesLeaderPipe
<1>5. CASE RivalReachesFollower
  BY <1>5, RivalReachesFollowerPipe
<1>6. CASE Heartbeat
  BY <1>6, HeartbeatPipe
<1>7. CASE ClientAppend
  BY <1>7, ClientAppendPipe
<1>8. ASSUME NEW c \in calls, Answered(c)
      PROVE  PipeInv(w)'
  BY <1>8, AnswerDeposesPipe, AnswerFencedPipe, AcknowledgedPipe,
     RefusalOutrunPipe, RefusedPipe DEF Answered
<1>9. ASSUME NEW c \in calls, CallFails(c)
      PROVE  PipeInv(w)'
  BY <1>9, CallFailsPipe
<1>10. ASSUME NEW c \in calls, Receive(c)
       PROVE  PipeInv(w)'
  BY <1>10, ReceivePipe
<1>11. ASSUME NEW q \in late, ReceiveLate(q)
       PROVE  PipeInv(w)'
  BY <1>11, ReceiveLatePipe
<1>12. CASE UNCHANGED vars
  <2>1. UNCHANGED own /\ UNCHANGED progress /\ UNCHANGED net
        /\ UNCHANGED follower /\ UNCHANGED rival
    BY <1>12 DEF vars
  <2>2. /\ UNCHANGED <<commitIndex, fCommit, matchIndex>> /\ fLog' = fLog
        /\ calls' = calls /\ late' = late /\ term' = term /\ UNCHANGED data
    BY <2>1 DEF own, progress, net, follower, rival, data
  <2>3. Carries(w, w)
    BY <2>2, SameCarries DEF WindowInv, PipeInv
  <2>4. (\A d \in calls' : Old(d)) /\ late' \subseteq Requests
    BY <2>2 DEF Old, Requests
  <2>5. PipeInv(w)'
    BY <2>2, <2>3, <2>4, KeepsSame, QuietStep
  <2>6. QED
    BY <2>5
<1>13. QED
  BY <1>1, <1>2, <1>3, <1>4, <1>5, <1>6, <1>7, <1>8, <1>9, <1>10, <1>11, <1>12
     DEF Next

\* In every reachable state there is a w that explains it.
Explained == WindowInv /\ \E w : PipeInv(w)

LEMMA AllExplained == Spec => []Explained
<1>1. Init => Explained
  BY InitWindow, InitPipe DEF Explained
<1>2. ASSUME Explained, [Next]_vars
      PROVE  Explained'
  <2>1. WindowInv /\ WindowInv'
    BY <1>2, WindowStep DEF Explained
  <2>2. PICK w : PipeInv(w)
    BY <1>2 DEF Explained
  <2>3. \E v : PipeInv(v)'
    BY <1>2, <2>1, <2>2, PipeStep
  <2>4. QED
    BY <2>1, <2>3 DEF Explained
<1>3. QED
  BY <1>1, <1>2, PTL DEF Spec

\* What a leader counts as matched in _onAppendResponse is what the follower
\* has, however requests and answers overtake each other.
THEOREM MatchesAreReal == Spec => []MatchIsReal
<1>1. ASSUME Explained
      PROVE  MatchIsReal
  <2>1. PICK w : PipeInv(w)
    BY <1>1 DEF Explained
  <2> SUFFICES ASSUME leading, matchIndex > 0
               PROVE  /\ fTerm >= term
                      /\ fTerm = term =>
                            /\ matchIndex <= Len(fLog)
                            /\ SubSeq(fLog, 1, matchIndex) = SubSeq(log, 1, matchIndex)
    BY DEF MatchIsReal
  <2>2. /\ fTerm \in Nat /\ term \in Nat /\ matchIndex \in Nat
        /\ log \in Seq(Entry) /\ fLog \in Seq(Entry)
    BY <1>1, Types DEF Explained, WindowInv
  <2>3. term <= fTerm /\ (fTerm = term => Agree(fLog, log, matchIndex))
    BY <2>1 DEF PipeInv, Held
  <2>4. ASSUME fTerm = term
        PROVE  /\ matchIndex <= Len(fLog)
               /\ SubSeq(fLog, 1, matchIndex) = SubSeq(log, 1, matchIndex)
    <3>1. Agree(fLog, log, matchIndex)
      BY <2>3, <2>4
    <3>2. matchIndex <= Len(fLog)
      BY <3>1 DEF Agree
    <3>3. QED
      BY <2>2, <3>1, <3>2, AgreePrefix
  <2>5. QED
    BY <2>2, <2>3, <2>4
<1>2. QED
  BY <1>1, AllExplained, PTL

\* The leader and the follower never take different entries for committed:
\* handleAppendEntries goes no further than it has verified.
THEOREM CommitsAgreed == Spec => []CommitsAgree
<1>1. ASSUME Explained
      PROVE  CommitsAgree
  <2> DEFINE both == Smaller(commitIndex, fCommit)
  <2>1. PICK w : PipeInv(w)
    BY <1>1 DEF Explained
  <2>2. /\ commitIndex \in Nat /\ fCommit \in Nat /\ TypeOK
        /\ log \in Seq(Entry) /\ fLog \in Seq(Entry)
    BY <1>1, Types DEF Explained, WindowInv
  <2>3. both \in Nat /\ both <= commitIndex /\ both <= fCommit
    BY <2>2 DEF Smaller
  <2> HIDE DEF both
  <2>4. CASE both = 0
    <3>1. 0 \in Nat /\ 0 <= Len(log) /\ 0 <= Len(fLog)
      BY <2>2
    <3>2. Agree(log, fLog, 0)
      BY <3>1 DEF Agree
    <3>3. SubSeq(log, 1, 0) = SubSeq(fLog, 1, 0)
      BY <2>2, <3>1, <3>2, AgreePrefix
    <3>4. QED
      BY <2>4, <3>1, <3>3 DEF CommitsAgree, both
  <2>5. CASE both # 0
    <3>1. PICK U \in Nat, n \in Nat :
            fCommit <= n /\ Fixed(w, U, n) /\ Agree(fLog, w[U], fCommit)
      BY <2>1, <2>2, <2>3, <2>5 DEF PipeInv, Covered
    <3>2. Agree(log, w[U], n) /\ w[U] \in Seq(Entry)
      BY <2>1, <3>1 DEF Fixed, Final, PipeInv, Sources, Logs
    <3>3. Agree(log, w[U], both) /\ Agree(fLog, w[U], both)
      BY <2>2, <2>3, <3>1, <3>2, AgreeLess
    <3>4. Agree(log, fLog, both)
      BY <3>3, AgreeSym, AgreeTrans
    <3>5. both <= Len(log) /\ both <= Len(fLog)
      BY <3>4 DEF Agree
    <3>6. SubSeq(log, 1, both) = SubSeq(fLog, 1, both)
      BY <2>2, <2>3, <3>4, AgreePrefix
    <3>7. QED
      BY <3>5, <3>6 DEF CommitsAgree, both
  <2>6. QED
    BY <2>4, <2>5
<1>2. QED
  BY <1>1, AllExplained, PTL

=============================================================================
