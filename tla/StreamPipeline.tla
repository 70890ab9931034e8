--------------------------- MODULE StreamPipeline ---------------------------
(***************************************************************************)
(* The event log and the window processor together, the way a consumer     *)
(* joins them: the handler a consumer passes to process is the processor's *)
(* ingest. So the processor gets its records in the order the group        *)
(* delivers them, some of them again after a crash or a rebalance, while   *)
(* its idle timers run.                                                    *)
(***************************************************************************)
EXTENDS EventLog

CONSTANTS Lateness, Size, Slide, Retention, LatePolicy

VARIABLE processor

INSTANCE Watermarks

ASSUME WindowAssumption ==
    /\ {Lateness, Retention} \subseteq Nat /\ {Size, Slide} \subseteq Nat \ {0}
    /\ Slide <= Size
ASSUME PolicyAssumption == LatePolicy \in {Drop, SideOutput, Update}

vars == <<logVars, processor>>

Init == LogInit /\ ProcessorInit

\* The processor after it has ingested the batch, record by record.
IngestedAll(b) ==
    LET after[n \in 0..Len(b)] ==
            IF n = 0 THEN processor
            ELSE Ingested(after[n - 1], b[n][1], records[b[n][1]][b[n][2] + 1])
    IN  after[Len(b)]

LogStep ==
    /\ \/ \E p \in Partition, t \in Times : AppendRecord(p, t)
       \/ Rebalance
       \/ Poll(PollSize)
       \/ PollThrows(PollSize)
       \/ \E b \in held : Commit(b)
    /\ UNCHANGED processor

ProcessStep ==
    \/ \E b \in held : Process(b) /\ processor' = IngestedAll(b)
    \/ \E b \in held : \E n \in 0..Len(b) :
          /\ ProcessAborts(b, n) \/ HandlerThrows(b, n)
          /\ processor' = IngestedAll(SubSeq(b, 1, n))

TimerStep == (\E p \in Partition : GoesIdle(p)) /\ UNCHANGED logVars

Next == LogStep \/ ProcessStep \/ TimerStep

Spec == Init /\ [][Next]_vars

\* The variables range over what the code can store in them.
TypeOK == LogTypeOK /\ ProcessorTypeOK

=============================================================================
