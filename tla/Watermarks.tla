----------------------------- MODULE Watermarks -----------------------------
(***************************************************************************)
(* EventTimeWindowProcessor of packages/stream/watermark.js: a watermark   *)
(* per partition, the stream's watermark as their minimum over the         *)
(* partitions that are not idle, and windows that are emitted once the     *)
(* stream's watermark is past their end.                                   *)
(*                                                                         *)
(* Ingesting a record and a firing idle timer are functions of the         *)
(* processor's state, so that a module that feeds it can ingest a whole    *)
(* batch in one step. The clock is abstract: a timer may fire whenever it  *)
(* is armed. The aggregate is the default one, a count.                    *)
(***************************************************************************)
EXTENDS Integers, FiniteSetsExt

CONSTANTS
    Partition,
    Lateness,       \* allowedLatenessMs
    Size, Slide,    \* of the windows; a tumbling window has Slide = Size
    Retention,      \* windowRetentionMs
    LatePolicy      \* what becomes of a record for a closed window

\* The late policies.
Drop       == "drop"
SideOutput == "side-output"
Update     == "update"

\* -Infinity: before every watermark an event time in Nat gives.
Never == -Lateness - 1

VARIABLE processor

\* The state of a window: how many records it has, whether it has been
\* emitted, and the result last emitted.
Window == [count : Nat, emitted : BOOLEAN, result : Nat]

ProcessorInit ==
    processor =
        [watermark |-> [p \in Partition |-> Never],
         idle |-> [p \in Partition |-> FALSE],
         \* History: the partitions that have been idle.
         rested |-> {},
         stream |-> Never,
         \* The windows by start; those deleted are not in the domain.
         windows |-> <<>>,
         \* History: per window, how many initial emissions it had.
         initials |-> <<>>]

-----------------------------------------------------------------------------
End(s) == s + Size

\* assignWindows: the starts of the windows a time belongs to.
StartsOf(t) == {s \in (t - Size + 1)..t : s % Slide = 0}

Count(f, s) == IF s \in DOMAIN f THEN f[s] ELSE 0

\* Mutant: a window is emitted as soon as the watermark reaches its end.
DueAtEnd(q, s) == ~q.windows[s].emitted /\ q.stream >= End(s)

Due(q, s) == ~q.windows[s].emitted /\ q.stream > End(s)

\* _emitEligibleWindows
Emitted(q) ==
    LET due == {s \in DOMAIN q.windows : Due(q, s)}
    IN  [q EXCEPT
          !.windows = [s \in DOMAIN q.windows |->
              IF s \in due
              THEN [q.windows[s] EXCEPT !.emitted = TRUE,
                                        !.result = q.windows[s].count]
              ELSE q.windows[s]],
          !.initials = [s \in DOMAIN q.initials \cup due |->
              Count(q.initials, s) + (IF s \in due THEN 1 ELSE 0)]]

\* _purgeExpiredWindows
Purged(q) ==
    [q EXCEPT !.windows =
        [s \in {x \in DOMAIN q.windows :
                  ~(q.windows[x].emitted /\ q.stream > End(x) + Retention)} |->
            q.windows[s]]]

\* Mutant: an advance of the watermark waits for the next record to emit.
AdvancedOnly(q, T) == [q EXCEPT !.stream = T]

Advanced(q, T) == Purged(Emitted([q EXCEPT !.stream = T]))

\* Mutant: partitions that have seen nothing do not hold the stream back.
ActiveSeen(q) == {p \in Partition : ~q.idle[p] /\ q.watermark[p] # Never}

Active(q) == {p \in Partition : ~q.idle[p]}

\* _recomputeStreamWatermark
Recomputed(q) ==
    LET candidate == Min({q.watermark[p] : p \in Active(q)})
    IN  IF Active(q) = {} \/ candidate <= q.stream THEN q
        ELSE Advanced(q, candidate)

\* _touchPartition: the partition is active again and its watermark, which
\* never goes back, may advance.
Touched(q, p, t) ==
    Recomputed([q EXCEPT !.idle[p] = FALSE,
                         !.watermark[p] = Max({@, t - Lateness})])

\* Mutant: a window is open as long as it has not been emitted.
OpenUnlessEmitted(q, s) ==
    s \in DOMAIN q.windows => ~q.windows[s].emitted

Open(q, s) == q.stream <= End(s)

\* A window as a record for it finds it, or as it is made for the record.
WindowAt(q, s) ==
    IF s \in DOMAIN q.windows THEN q.windows[s]
    ELSE [count |-> 0, emitted |-> FALSE, result |-> 0]

\* A record joins a window that is open.
Added(q, s) == [WindowAt(q, s) EXCEPT !.count = @ + 1]

\* A late record corrects a closed window that is retained, if the policy
\* says so; the policies that drop it or put it aside leave the window.
Corrected(q, s) ==
    IF LatePolicy = Update /\ q.windows[s].emitted
    THEN [q.windows[s] EXCEPT !.count = @ + 1, !.result = @ + 1]
    ELSE q.windows[s]

\* The record's windows, by start, each open or closed to it.
Joined(q, starts) ==
    [q EXCEPT !.windows =
        [s \in DOMAIN q.windows \cup {x \in starts : Open(q, x)} |->
            IF s \notin starts THEN q.windows[s]
            ELSE IF Open(q, s) THEN Added(q, s) ELSE Corrected(q, s)]]

\* ingest: the watermark moves first, then the record finds its windows open
\* or closed.
Ingested(q, p, t) == Purged(Emitted(Joined(Touched(q, p, t), StartsOf(t))))

\* The idle timer of p fires.
GoesIdle(p) ==
    /\ ~processor.idle[p]
    /\ processor' = Recomputed([processor EXCEPT !.idle[p] = TRUE,
                                                 !.rested = @ \cup {p}])

-----------------------------------------------------------------------------
\* The variables range over what the code can store in them.
ProcessorTypeOK ==
    /\ processor.watermark \in [Partition -> Int]
    /\ processor.idle \in [Partition -> BOOLEAN]
    /\ processor.stream \in Int
    /\ \A s \in DOMAIN processor.windows : processor.windows[s] \in Window

\* The stream's watermark does not pass that of a partition that has never
\* been idle, unseen ones included: what such a partition still sends within
\* the allowed lateness is on time, whatever the others are at.
SlowestHoldsBack ==
    \A p \in Partition \ processor.rested :
        processor.stream <= processor.watermark[p]

\* No window is left behind: one that has not been emitted is not yet past,
\* also when it was an idle timer that moved the watermark.
NoWindowLeftBehind ==
    \A s \in DOMAIN processor.windows :
        processor.windows[s].emitted \/ processor.stream <= End(s)

\* What was emitted stands: a window that has been emitted holds exactly the
\* records of its last result. A record that came too late either corrects
\* the result or stays out.
ResultStands ==
    \A s \in DOMAIN processor.windows :
        processor.windows[s].emitted =>
            processor.windows[s].count = processor.windows[s].result

\* A window has one initial emission, ever: neither an older record delivered
\* again nor its removal after the retention opens it anew.
EmittedOnce ==
    \A s \in DOMAIN processor.initials : processor.initials[s] <= 1

=============================================================================
