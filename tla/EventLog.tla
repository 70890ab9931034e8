------------------------------ MODULE EventLog ------------------------------
(***************************************************************************)
(* packages/stream/log.js: one topic of the partitioned log with retention *)
(* by record count, and one consumer group on it.                          *)
(*                                                                         *)
(* A record is its event time; its offset is its place in the partition.   *)
(* The key, whose hash selects the partition, is a choice of partition.    *)
(* What a poll returned is held by its consumer until it has processed or  *)
(* committed it; other polls, rebalances and appends go on meanwhile. The  *)
(* consumers of a group share one poll, so which of them owns a partition  *)
(* makes no difference. Every call is synchronous: one action is one call. *)
(***************************************************************************)
EXTENDS Integers, SequencesExt

CONSTANTS
    Partitions,     \* how many partitions the topic has
    Times,          \* event times
    MaxRetained,    \* retention.maxRecords
    PollSize        \* how many records a poll asks for

CONSTANTS           \* bounds on the explored behaviours
    MaxRecords,     \* records appended, over all partitions
    MaxGenerations, \* rebalances, the first included
    MaxHeld,        \* batches in the hands of consumers
    MaxFailures     \* crashes before a commit, and handlers that throw

ASSUME TopicAssumption ==
    {Partitions, MaxRetained, PollSize} \subseteq Nat \ {0} /\ Times \subseteq Nat
ASSUME LogBoundAssumption ==
    {MaxRecords, MaxGenerations, MaxHeld, MaxFailures} \subseteq Nat

Partition == 0..(Partitions - 1)

AtLeastOnce == "at-least-once"
ExactlyOnce == "exactly-once"

\* A record of the topic, by partition and offset.
Place == Partition \X Nat

-----------------------------------------------------------------------------
VARIABLES
    records,        \* per partition, every record ever appended
    baseOffset,     \* the first offset that is retained
    delivery,       \* the delivery mode of the group
    generation,     \* how often the group was rebalanced
    positions,      \* the volatile fetch position, per partition
    committed,      \* the committed offset, per partition
    effects,        \* the places whose effect is visible
    held            \* batches polled, neither processed nor committed yet

VARIABLES           \* history and fault count
    delivered,      \* the places a poll has read
    failures

topicVars  == <<records, baseOffset>>
offsetVars == <<positions, committed>>
logVars    == <<topicVars, delivery, generation, offsetVars,
                effects, held, delivered, failures>>

nextOffset(p) == Len(records[p])

LogInit ==
    /\ records = [p \in Partition |-> <<>>]
    /\ baseOffset = [p \in Partition |-> 0]
    /\ delivery \in {AtLeastOnce, ExactlyOnce}
    /\ generation = 1
    /\ positions = [p \in Partition |-> 0]
    /\ committed = [p \in Partition |-> 0]
    /\ effects = {} /\ held = {} /\ delivered = {} /\ failures = 0

-----------------------------------------------------------------------------
\* append, and the retention it applies to the partition.
AppendRecord(p, t) ==
    LET l == Append(records[p], t)
    IN  /\ Len(FlattenSeq([i \in 1..Partitions |-> records[i - 1]])) < MaxRecords
        /\ records' = [records EXCEPT ![p] = l]
        /\ baseOffset' = [baseOffset EXCEPT
                            ![p] = Max({@, Len(l) - MaxRetained})]
        /\ UNCHANGED <<delivery, generation, offsetVars, effects,
                       held, delivered, failures>>

\* rebalance, join, leave and a repeated subscribe: fetch positions are
\* volatile and start again from what is committed.
Rebalance ==
    /\ generation < MaxGenerations
    /\ generation' = generation + 1
    /\ positions' = committed
    /\ UNCHANGED <<topicVars, delivery, committed, effects, held, delivered,
                   failures>>

-----------------------------------------------------------------------------
\* poll reads the partitions in turn until it has m records. It throws at a
\* partition whose position has been truncated; those before it have moved.

\* Mutant: a truncated position reads from the oldest record instead.
FromOldest(p) == Max({positions[p], baseOffset[p]})

From(p) == positions[p]

OutOfRange(p) == From(p) < baseOffset[p]

\* What is left to fetch before partition p is read; -1 after a throw.
Left(m) ==
    LET left[p \in 0..Partitions] ==
            IF p = 0 THEN m
            ELSE IF left[p - 1] <= 0 THEN left[p - 1]
            ELSE IF OutOfRange(p - 1) THEN -1
            ELSE Max({0, left[p - 1] - (nextOffset(p - 1) - From(p - 1))})
    IN  left

\* The offset up to which partition p is read.
ReadTo(m, p) ==
    IF Left(m)[p] <= 0 \/ Left(m)[p + 1] < 0 THEN positions[p]
    ELSE From(p) + (Left(m)[p] - Left(m)[p + 1])

\* The records read: whole, by partition and then by offset.
Fetched(m) ==
    FlattenSeq([i \in 1..Partitions |->
        [k \in 1..(ReadTo(m, i - 1) - From(i - 1)) |->
            <<i - 1, From(i - 1) + k - 1>>]])

Fetch(m) ==
    /\ positions' = [p \in Partition |-> ReadTo(m, p)]
    /\ delivered' = delivered \cup ToSet(Fetched(m))
    /\ UNCHANGED <<topicVars, delivery, generation, committed,
                   effects, failures>>

Poll(m) ==
    /\ Cardinality(held) < MaxHeld
    /\ Left(m)[Partitions] >= 0 /\ Fetched(m) # <<>>
    /\ held' = held \cup {Fetched(m)}
    /\ Fetch(m)

\* The records read before the throw reach no consumer.
PollThrows(m) ==
    /\ Left(m)[Partitions] < 0 /\ Fetched(m) # <<>>
    /\ UNCHANGED held
    /\ Fetch(m)

-----------------------------------------------------------------------------
\* _commitPlan and _applyCommit: per partition, one past the last offset of
\* the batch, if that is further; the fetch position follows.
\* Mutant: one offset too far.
PlannedPast(b, p) == {po[2] + 2 : po \in {q \in ToSet(b) : q[1] = p}}

Planned(b, p) == {po[2] + 1 : po \in {q \in ToSet(b) : q[1] = p}}

CommittedWith(b) == [p \in Partition |-> Max({committed[p]} \cup Planned(b, p))]

\* Mutant: the fetch position stays where the rebalance left it.
PositionsStay(b) == positions

PositionsWith(b) ==
    [p \in Partition |->
        IF CommittedWith(b)[p] = committed[p] THEN positions[p]
        ELSE Max({positions[p], CommittedWith(b)[p]})]

ApplyCommit(b) ==
    /\ committed' = CommittedWith(b)
    /\ positions' = PositionsWith(b)
    /\ held' = held \ {b}
    /\ UNCHANGED <<topicVars, delivery, generation, delivered>>

\* commit: the consumer keeps effects of its own.
Commit(b) ==
    /\ b \in held
    /\ ApplyCommit(b)
    /\ UNCHANGED <<effects, failures>>

\* process: the effects become visible with the offsets.
Process(b) ==
    /\ b \in held
    /\ ApplyCommit(b)
    /\ effects' = effects \cup ToSet(b)
    /\ UNCHANGED failures

\* Mutant: the effects of an aborted transaction are visible.
VisibleAtOnce(done) == done

\* The effects visible when process ends before its commit: the group's own
\* map unless the transaction worked on a private copy.
VisibleEarly(done) == IF delivery = ExactlyOnce THEN {} ELSE done

\* process ends before its commit, after n records: with crashBeforeCommit,
\* or at a handler that returns a promise. The batch is fetched again.
ProcessAborts(b, n) ==
    /\ failures < MaxFailures /\ b \in held /\ n \in 1..Len(b)
    /\ failures' = failures + 1
    /\ effects' = effects \cup VisibleEarly(ToSet(SubSeq(b, 1, n)))
    /\ positions' = committed
    /\ held' = held \ {b}
    /\ UNCHANGED <<topicVars, delivery, generation, committed,
                   delivered>>

\* The handler throws after n records: nothing is committed, the positions
\* stay, and the consumer still holds the batch.
HandlerThrows(b, n) ==
    /\ failures < MaxFailures /\ b \in held /\ n < Len(b)
    /\ failures' = failures + 1
    /\ effects' = effects \cup VisibleEarly(ToSet(SubSeq(b, 1, n)))
    /\ UNCHANGED <<topicVars, delivery, generation, offsetVars,
                   held, delivered>>

-----------------------------------------------------------------------------
\* The variables range over what the code can store in them, and no position
\* is past the end of its partition.
LogTypeOK ==
    /\ records \in [Partition -> Seq(Times)]
    /\ baseOffset \in [Partition -> Nat]
    /\ delivery \in {AtLeastOnce, ExactlyOnce}
    /\ generation \in Nat /\ failures \in Nat
    /\ positions \in [Partition -> Nat] /\ committed \in [Partition -> Nat]
    /\ effects \subseteq Place /\ delivered \subseteq Place
    /\ held \subseteq Seq(Place)
    /\ \A p \in Partition : Max({positions[p], committed[p]}) <= nextOffset(p)

\* A batch fetched before a rebalance and committed after it does not make
\* the new owners fetch a committed record again.
NoCommittedRefetch == \A p \in Partition : committed[p] <= positions[p]

\* No poll passes over a record silently, not even over one that retention
\* has removed: whatever is below a fetch position was read by some poll.
NothingPassedOver ==
    \A p \in Partition : \A o \in 0..(positions[p] - 1) : <<p, o>> \in delivered

\* Exactly-once: an effect is visible only with the offset that covers it,
\* whatever crashes, handlers that throw and batches of earlier generations
\* come between.
EffectsWithOffsets ==
    delivery = ExactlyOnce =>
        \A po \in effects : po[2] < committed[po[1]]

=============================================================================
