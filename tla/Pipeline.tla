------------------------------ MODULE Pipeline ------------------------------
(***************************************************************************)
(* Pipelined replication of replica/raft.js: what a leader keeps of one    *)
(* follower when several AppendEntries to it may be outstanding at once    *)
(* (_pumpPeer, _sendAppend, _onAppendResponse, _onPipelineReject,          *)
(* _onAppendError). Module Raft has one call per peer; here the requests   *)
(* of one leadership overtake each other, and so do their answers, and the *)
(* answers of one leadership reach the server when it leads again.         *)
(*                                                                         *)
(* Of a cluster of three, two servers are followed closely: one that leads *)
(* from time to time (unprefixed variables) and one that follows (prefix   *)
(* f). The third (prefix r) is what deposes the leader, commits with it    *)
(* and changes the follower's log between two leaderships: it is sent a    *)
(* whole log in one step. Elections follow the rules of Raft, also in one  *)
(* step; whatever is appended is on disk at once (no group commit).        *)
(* Indexes are numbered from 1, as in RaftLog.                             *)
(***************************************************************************)
EXTENDS RaftLog, FiniteSets

CONSTANTS
    MaxInflight,  \* requests a follower that has matched may have open
    MaxBatch      \* most entries in one AppendEntries

CONSTANTS         \* bounds on the explored behaviours
    FirstTerm,    \* the term of the first leadership
    Histories,    \* logs of the leader and the follower before it
    MaxTerm,      \* last term led, and not by the third server
    MaxLog,       \* a client command is appended to a shorter log only
    MaxLate,      \* requests in the network that no caller waits for
    MaxLosses     \* calls that fail

ASSUME WindowAssumption == MaxInflight \in Nat \ {0} /\ MaxBatch \in Nat \ {0}
ASSUME BoundAssumption ==
    {FirstTerm, MaxTerm, MaxLog, MaxLate, MaxLosses} \subseteq Nat

VARIABLES
    term, leading, log, commitIndex,   \* of the server that leads
    nextIndex, matchIndex, mode,       \* its view of the follower
    calls,                             \* its outstanding AppendEntries calls
    late,                              \* requests whose call has failed
    fTerm, fLog, fCommit,              \* of the follower
    rTerm, rLog, rLeads,               \* of the third server
    losses

own      == <<term, leading, log, commitIndex>>
progress == <<nextIndex, matchIndex, mode>>
net      == <<calls, late, losses>>
follower == <<fTerm, fLog, fCommit>>
rival    == <<rTerm, rLog, rLeads>>

vars == <<own, progress, net, follower, rival>>

-----------------------------------------------------------------------------
\* A term and an index tell an entry: its command is left out.
Entry == [term : Nat]

Request ==
    {q \in [term : Nat, prev : Nat, prevTerm : Nat, entries : Seq(Entry),
            commit : Nat] : q.prev = 0 => q.prevTerm = 0}

\* An outstanding call: its request is on its way ("sent"), or the reply is,
\* with the follower's term and the index it acknowledges or hints at. The
\* code keeps superseded in the request's entry of progress.inflight.
Call == [request : Request, superseded : BOOLEAN,
         status : {"sent", "acked", "refused"}, term : Nat, index : Nat]

\* Terms never go down along a log.
Ordered(l) == \A k \in 1..Len(l) - 1 : l[k].term <= l[k + 1].term

\* Two logs that hold entries of the same term have them from one leader:
\* they agree up to the first of them.
Matching(l, m) ==
    \A k \in 1..Len(l), n \in 1..Len(m) :
        l[k].term = m[n].term =>
            SubSeq(l, 1, Smaller(k, n)) = SubSeq(m, 1, Smaller(k, n))

\* What earlier terms can leave in two logs.
ASSUME HistoryAssumption ==
    \A h \in Histories :
        /\ h \in Seq(Entry) \X Seq(Entry)
        /\ Ordered(h[1]) /\ Ordered(h[2]) /\ Matching(h[1], h[2])
        /\ LastTerm(h[1]) < FirstTerm /\ LastTerm(h[2]) < FirstTerm

-----------------------------------------------------------------------------
\* Sending

\* The requests that occupy the window of leadership t. A server leads a term
\* at most once, so the term tells leaderships apart as _leaderEpoch does.
Active(cs, t) == {c \in cs : c.request.term = t /\ ~c.superseded}

RequestAt(l, t, commit, first) ==
    [term |-> t, prev |-> first - 1, prevTerm |-> TermAt(l, first - 1),
     entries |-> Batch(l, first, MaxBatch), commit |-> commit]

Sent(q) == [request |-> q, superseded |-> FALSE, status |-> "sent",
            term |-> 0, index |-> 0]

First(l, next) == Larger(1, Smaller(next, Len(l) + 1))

Limit(m) == IF m = "probe" THEN 1 ELSE MaxInflight

\* Where the batches start that the window has room for.
Starts(l, t, cs, next, m) ==
    {First(l, next) + k * MaxBatch :
        k \in 0..(Limit(m) - Cardinality(Active(cs, t)) - 1)} \cap 1..Len(l)

\* _pumpPeer: the batches that fit, or an empty request if asked for a
\* heartbeat and nothing is outstanding.
PumpedCalls(l, t, commit, cs, next, m, heartbeat) ==
    LET starts == Starts(l, t, cs, next, m)
    IN  cs \cup {Sent(RequestAt(l, t, commit, first)) : first \in
          IF starts = {} /\ heartbeat /\ Active(cs, t) = {}
          THEN {First(l, next)} ELSE starts}

\* The next index after it: what is sent in replicate mode is not sent again
\* unless it is refused or lost.
PumpedNext(l, t, cs, next, m) ==
    LET starts == Starts(l, t, cs, next, m)
    IN  IF m = "probe" \/ starts = {} THEN next
        ELSE Smaller(First(l, next) + Cardinality(starts) * MaxBatch, Len(l) + 1)

Pump(l, t, commit, cs, next, m, heartbeat) ==
    /\ calls' = PumpedCalls(l, t, commit, cs, next, m, heartbeat)
    /\ nextIndex' = PumpedNext(l, t, cs, next, m)

\* The first leadership begins, on the vote of the third server.
Init ==
    /\ \E h \in Histories :
          /\ log = Append(h[1], [term |-> FirstTerm])
          /\ nextIndex = Len(h[1]) + 1
          /\ fLog = h[2] /\ fTerm = LastTerm(h[2])
    /\ term = FirstTerm /\ leading = TRUE /\ commitIndex = 0
    /\ matchIndex = 0 /\ mode = "probe"
    /\ calls = PumpedCalls(log, term, 0, {}, nextIndex, mode, TRUE)
    /\ fCommit = 0 /\ rTerm = FirstTerm /\ rLog = <<>> /\ rLeads = FALSE
    /\ late = {} /\ losses = 0

-----------------------------------------------------------------------------
\* Leadership

NewTerm == Larger(term, Larger(fTerm, rTerm)) + 1

\* _becomeLeader, on the vote of the follower or of the third server: progress
\* starts afresh, the no-op is appended and probed for. Calls of an earlier
\* leadership are still out.
Lead ==
    LET l == Append(log, [term |-> NewTerm])
    IN  /\ ~leading /\ NewTerm <= MaxTerm
        /\ \/ /\ UpToDate(LastTerm(log), Len(log), fLog)
              /\ fTerm' = NewTerm
              /\ UNCHANGED rival
           \/ /\ UpToDate(LastTerm(log), Len(log), rLog)
              /\ rTerm' = NewTerm /\ rLeads' = FALSE
              /\ UNCHANGED <<rLog, fTerm>>
        /\ term' = NewTerm /\ leading' = TRUE /\ log' = l
        /\ matchIndex' = 0 /\ mode' = "probe"
        /\ Pump(l, NewTerm, commitIndex, calls, Len(log) + 1, "probe", TRUE)
        /\ UNCHANGED <<commitIndex, late, losses, fLog, fCommit>>

\* The third server wins the next term on the vote of one of the other two.
RivalLeads ==
    /\ NewTerm < MaxTerm
    /\ rTerm' = NewTerm /\ rLeads' = TRUE
    /\ rLog' = Append(rLog, [term |-> NewTerm])
    /\ \/ /\ UpToDate(LastTerm(rLog), Len(rLog), log)
          /\ term' = NewTerm /\ leading' = FALSE
          /\ UNCHANGED fTerm
       \/ /\ UpToDate(LastTerm(rLog), Len(rLog), fLog)
          /\ fTerm' = NewTerm
          /\ UNCHANGED <<term, leading>>
    /\ UNCHANGED <<log, commitIndex, progress, net, fLog, fCommit>>

\* Its log reaches one of the two.
RivalReachesLeader ==
    /\ rLeads /\ term <= rTerm /\ log # Merge(log, 0, rLog)
    /\ term' = rTerm /\ leading' = FALSE
    /\ log' = Merge(log, 0, rLog)
    /\ UNCHANGED <<commitIndex, progress, net, follower, rival>>

RivalReachesFollower ==
    /\ rLeads /\ fTerm <= rTerm /\ fLog # Merge(fLog, 0, rLog)
    /\ fTerm' = rTerm /\ fLog' = Merge(fLog, 0, rLog)
    /\ UNCHANGED <<own, progress, net, fCommit, rival>>

\* _advanceCommitIndex: the leader and one more are two of three.
CommittedWith(match) ==
    LET ready == {k \in (commitIndex + 1)..Len(log) :
                    log[k].term = term /\ k <= match}
    IN  IF ready = {} THEN commitIndex
        ELSE CHOOSE k \in ready : \A m \in ready : m <= k

\* The third server takes all that the leader has, and acknowledges it.
RivalFollows ==
    /\ leading /\ rTerm <= term /\ rLog # log
    /\ rTerm' = term /\ rLeads' = FALSE /\ rLog' = log
    /\ commitIndex' = CommittedWith(Len(log))
    /\ UNCHANGED <<term, leading, log, progress, net, follower>>

-----------------------------------------------------------------------------
\* The leader sends

\* _replicateAll, on the heartbeat timer or after a commit.
Heartbeat ==
    /\ leading
    /\ Pump(log, term, commitIndex, calls, nextIndex, mode, TRUE)
    /\ UNCHANGED <<own, matchIndex, mode, late, losses, follower, rival>>

ClientAppend ==
    LET l == Append(log, [term |-> term])
    IN  /\ leading /\ Len(log) < MaxLog
        /\ log' = l
        /\ Pump(l, term, commitIndex, calls, nextIndex, mode, TRUE)
        /\ UNCHANGED <<term, leading, commitIndex, matchIndex, mode, late,
                       losses, follower, rival>>

-----------------------------------------------------------------------------
\* The leader hears

\* The answers to requests of this leadership; the fence of _onAppendResponse
\* drops those to requests of an earlier one.
\* Mutant: without the fence.
AnyAnswer(c) == leading

Current(c) == leading /\ c.request.term = term

\* A late success can only confirm more.
Matched(c) == Larger(matchIndex, c.index)

Superseded(cs) ==
    {IF c.request.term = term THEN [c EXCEPT !.superseded = TRUE] ELSE c : c \in cs}

AnswerDeposes(c) ==
    /\ c.status # "sent" /\ c.term > term
    /\ term' = c.term /\ leading' = FALSE
    /\ calls' = calls \ {c}
    /\ UNCHANGED <<log, commitIndex, progress, late, losses, follower, rival>>

AnswerFenced(c) ==
    /\ c.status # "sent" /\ c.term <= term
    /\ ~Current(c)
    /\ calls' = calls \ {c}
    /\ UNCHANGED <<own, progress, late, losses, follower, rival>>

Acknowledged(c) ==
    /\ c.status = "acked" /\ c.term <= term
    /\ Current(c)
    /\ LET match  == Matched(c)
           commit == CommittedWith(match)
       IN  /\ matchIndex' = match
           /\ mode' = "replicate"
           /\ commitIndex' = commit
           /\ Pump(log, term, commit, calls \ {c}, Larger(nextIndex, match + 1),
                   "replicate", FALSE)
    /\ UNCHANGED <<term, leading, log, late, losses, follower, rival>>

\* Mutant: the next index stays where it is.
NoBackOff(c) == nextIndex

\* Never below what is known to match.
BackedTo(c) == Larger(matchIndex + 1, Backed(c.request.prev, c.index))

\* _onPipelineReject, for a point the follower has matched since.
RefusalOutrun(c) ==
    /\ c.status = "refused" /\ c.term <= term
    /\ Current(c) /\ c.request.prev <= matchIndex
    /\ Pump(log, term, commitIndex, calls \ {c}, nextIndex, mode, FALSE)
    /\ UNCHANGED <<own, matchIndex, mode, late, losses, follower, rival>>

\* And for any other: back to probing from where the hint says. What is
\* still out no longer occupies the window.
Refused(c) ==
    /\ c.status = "refused" /\ c.term <= term
    /\ Current(c) /\ c.request.prev > matchIndex
    /\ mode' = "probe"
    /\ Pump(log, term, commitIndex, Superseded(calls \ {c}), BackedTo(c),
            "probe", FALSE)
    /\ UNCHANGED <<own, matchIndex, late, losses, follower, rival>>

\* _onAppendError: the call fails, its request or its reply is lost or late.
\* Unless it is superseded, its entries are sent again with the next heartbeat.
CallFails(c) ==
    /\ losses < MaxLosses /\ losses' = losses + 1
    /\ \/ UNCHANGED late
       \/ /\ c.status = "sent" /\ Cardinality(late) < MaxLate
          /\ late' = late \cup {c.request}
    /\ IF Current(c) /\ ~c.superseded
       THEN /\ nextIndex' = Larger(matchIndex + 1,
                                   Smaller(nextIndex, c.request.prev + 1))
            /\ mode' = "probe"
            /\ calls' = Superseded(calls \ {c})
       ELSE /\ calls' = calls \ {c}
            /\ UNCHANGED <<nextIndex, mode>>
    /\ UNCHANGED <<own, matchIndex, follower, rival>>

-----------------------------------------------------------------------------
\* The follower's handler

\* Mutant: the leader's commit index carries to the end of the own log.
CommitToEnd(q) ==
    Larger(fCommit, Smaller(q.commit, Len(Merge(fLog, q.prev, q.entries))))

CommitAfter(q) ==
    Larger(fCommit, Smaller(q.commit, q.prev + Len(q.entries)))

\* The sender leads the follower's term or a later one, and the log has the
\* entry to build upon.
Accepts(q) == q.term >= fTerm /\ PrevMatches(fLog, q.prev, q.prevTerm)

Hint(q) ==
    IF q.term < fTerm THEN Len(fLog) + 1 ELSE ConflictHint(fLog, q.prev)

Replied(c) ==
    LET q == c.request
    IN  [c EXCEPT !.status = IF Accepts(q) THEN "acked" ELSE "refused",
                  !.term   = Larger(fTerm, q.term),
                  !.index  = IF Accepts(q) THEN q.prev + Len(q.entries) ELSE Hint(q)]

Handle(q) ==
    /\ fTerm' = Larger(fTerm, q.term)
    /\ fLog' = IF Accepts(q) THEN Merge(fLog, q.prev, q.entries) ELSE fLog
    /\ fCommit' = IF Accepts(q) THEN CommitAfter(q) ELSE fCommit

Receive(c) ==
    /\ c.status = "sent"
    /\ Handle(c.request)
    /\ calls' = (calls \ {c}) \cup {Replied(c)}
    /\ UNCHANGED <<own, progress, late, losses, rival>>

\* A request that no call waits for any more.
ReceiveLate(q) ==
    /\ Handle(q)
    /\ late' = late \ {q}
    /\ UNCHANGED <<own, progress, calls, losses, rival>>

-----------------------------------------------------------------------------
Answered(c) ==
    AnswerDeposes(c) \/ AnswerFenced(c) \/ Acknowledged(c) \/ RefusalOutrun(c)
        \/ Refused(c)

Next ==
    \/ Lead \/ RivalLeads \/ RivalFollows \/ RivalReachesLeader
    \/ RivalReachesFollower \/ Heartbeat \/ ClientAppend
    \/ \E c \in calls : Answered(c) \/ CallFails(c) \/ Receive(c)
    \/ \E q \in late : ReceiveLate(q)

\* The heartbeat timer keeps firing and the network keeps carrying requests
\* and replies, in whatever order; only so many calls fail.
Fairness ==
    WF_vars(Heartbeat \/ \E c \in calls : Receive(c) \/ Answered(c))

Spec == Init /\ [][Next]_vars /\ Fairness

-----------------------------------------------------------------------------
\* The variables range over what the code can store in them.
TypeOK ==
    /\ {term, fTerm, rTerm, commitIndex, fCommit, matchIndex, losses} \subseteq Nat
    /\ nextIndex \in Nat \ {0}
    /\ {leading, rLeads} \subseteq BOOLEAN /\ mode \in {"probe", "replicate"}
    /\ {log, fLog, rLog} \subseteq Seq(Entry)
    /\ calls \subseteq Call /\ late \subseteq Request

\* What a leader counts as matched is what the follower has, as long as the
\* follower is in the leader's term: however requests overtake each other,
\* whichever answer comes late, and whatever happened to either log between
\* two leaderships (the fence of _onAppendResponse).
MatchIsReal ==
    leading /\ matchIndex > 0 =>
        /\ fTerm >= term
        /\ fTerm = term =>
              /\ matchIndex <= Len(fLog)
              /\ SubSeq(fLog, 1, matchIndex) = SubSeq(log, 1, matchIndex)

\* The two never take different entries for committed: a heartbeat that
\* overtakes the entries before it does not commit what is left of a deposed
\* leader's log (handleAppendEntries on lastVerifiedIndex).
CommitsAgree ==
    LET both == Smaller(commitIndex, fCommit)
    IN  /\ both <= Len(log) /\ both <= Len(fLog)
        /\ SubSeq(log, 1, both) = SubSeq(fLog, 1, both)

\* The next index stays above what is known to match and inside the log,
\* whichever refusals and failures come in (_onPipelineReject: "never below
\* matchIndex + 1").
NextBeyondMatch ==
    leading => matchIndex < nextIndex /\ nextIndex <= Len(log) + 1

\* A leader that stays brings the follower to the end of its log and lets it
\* commit there: no order of answers and failures leaves entries behind that
\* it takes for sent and never sends again.
CatchesUp == []<>(~leading \/ fCommit = Len(log))

=============================================================================
