--------------------------------- MODULE Raft ---------------------------------
(***************************************************************************)
(* The consensus engine of replica/raft.js over a fixed set of voters:     *)
(* election, replication, the commit rule, the durable metadata file and   *)
(* the append-only log, with group commit on or off.                       *)
(*                                                                         *)
(* One action is one turn of the event loop: an RPC handler, the           *)
(* continuation of an RPC, a timer, or a crash and restart. Messages are   *)
(* lost, delayed, reordered and duplicated; an RPC that times out may      *)
(* still be handled by its receiver.                                       *)
(*                                                                         *)
(* Timing is abstract: a timer may fire whenever it is armed. One fact     *)
(* about time is used, in Lead: an AppendEntries call is given up after    *)
(* 450 ms, which is less than the 500 ms a deposed leader waits before it  *)
(* can campaign again, so no call of an earlier leadership is outstanding  *)
(* when a server becomes leader. The pre-vote round and the voters' memory *)
(* of a live leader only restrict when an election starts and when a vote  *)
(* is refused: here an election may start at any time, and a voter may     *)
(* leave any request unanswered. Module PreVote models that restriction.   *)
(***************************************************************************)
EXTENDS RaftLog, FiniteSets

CONSTANTS
    Server,       \* the voters, in the configuration for good
    Command,      \* client commands, each with its own (clientId, seqNo)
    Noop,         \* the data of the entry a new leader appends
    Nil,          \* null
    GroupCommit,  \* TRUE: appends are buffered and flushed later
    MaxBatch      \* most entries in one AppendEntries

CONSTANTS         \* bounds on the explored behaviours
    MaxTerm,      \* last term an election is started for
    MaxElections, \* elections started, over all servers
    MaxLog,       \* a client command is appended to a shorter log only
    MaxLate,      \* requests in the network that no caller waits for
    MaxRestarts,  \* crashes, over all servers
    MaxPauses     \* calls of pause(), over all servers

ASSUME ServerAssumption == IsFiniteSet(Server) /\ Cardinality(Server) > 1
ASSUME NilAssumption == Nil \notin Server
ASSUME CommandAssumption == Noop \notin Command
ASSUME OptionAssumption == GroupCommit \in BOOLEAN /\ MaxBatch \in Nat \ {0}
ASSUME BoundAssumption ==
    {MaxTerm, MaxElections, MaxLog, MaxLate, MaxRestarts, MaxPauses} \subseteq Nat

Follower  == "FOLLOWER"
Candidate == "CANDIDATE"
Leader    == "LEADER"

\* quorumSize is floor(n / 2) + 1: any majority.
Quorum == {Q \in SUBSET Server : 2 * Cardinality(Q) > Cardinality(Server)}

-----------------------------------------------------------------------------
VARIABLES
    \* The metadata file. Term and vote are written before the handler that
    \* changes them returns, so memory and disk never differ.
    currentTerm, votedFor, storedCommit,
    \* The log in memory, and how many of its entries are on disk.
    log, durable,
    \* Volatile state of each server.
    state, paused, votes, commitIndex,
    \* Of each leader, per peer; rpc[i][j] is the outstanding AppendEntries
    \* call of i to j, or Nil.
    nextIndex, matchIndex, rpc

VARIABLES
    ballots,      \* RequestVote requests sent
    grants,       \* votes granted in reply
    late          \* AppendEntries requests whose caller has given up, or
                  \* second copies of one: they may still be delivered

VARIABLES         \* history, read by the properties only
    leaders,      \* <<term, server>> of every leadership
    written,      \* of each term led, the log its leader has had in it
    decided,      \* entries a leader committed, with that leader's term
    restarts, pauses

vars == <<currentTerm, votedFor, storedCommit, log, durable, state, paused,
          votes, commitIndex, nextIndex, matchIndex, rpc, ballots, grants,
          late, leaders, written, decided, restarts, pauses>>

metaVars   == <<currentTerm, votedFor, storedCommit>>
logVars    == <<log, durable>>
leaderVars == <<nextIndex, matchIndex>>
voteMsgs   == <<ballots, grants>>
history    == <<leaders, written, decided>>
faults     == <<restarts, pauses>>

-----------------------------------------------------------------------------
Entry == [term : Nat, data : Command \cup {Noop}]

Ballot == [from : Server, term : Nat, lastIndex : Nat, lastTerm : Nat]

Grant == [from : Server, to : Server, term : Nat]

Request == {q \in [from : Server, to : Server, term : Nat, prev : Nat,
                   prevTerm : Nat, entries : Seq(Entry), commit : Nat] :
               q.prev = 0 => q.prevTerm = 0}

\* An outstanding call: its request is in the network ("sent"), the receiver
\* holds the acknowledgement back until it has flushed ("held"), or the
\* reply is on its way: "acked" up to index, or "refused" with index as the
\* hint where to go on.
Call == [request : Request, status : {"sent", "held", "acked", "refused"},
         term : Nat, index : Nat]

ASSUME CallAssumption == Nil \notin Call

Init ==
    /\ currentTerm = [i \in Server |-> 0]
    /\ votedFor = [i \in Server |-> Nil]
    /\ storedCommit = [i \in Server |-> 0]
    /\ log = [i \in Server |-> <<>>]
    /\ durable = [i \in Server |-> 0]
    /\ state = [i \in Server |-> Follower]
    /\ paused = [i \in Server |-> FALSE]
    /\ votes = [i \in Server |-> {}]
    /\ commitIndex = [i \in Server |-> 0]
    /\ nextIndex = [i \in Server |-> [j \in Server |-> 1]]
    /\ matchIndex = [i \in Server |-> [j \in Server |-> 0]]
    /\ rpc = [i \in Server |-> [j \in Server |-> Nil]]
    /\ ballots = {} /\ grants = {} /\ late = {}
    /\ leaders = {} /\ written = <<>> /\ decided = {}
    /\ restarts = 0 /\ pauses = 0

-----------------------------------------------------------------------------
\* AppendEntries calls

RequestTo(i, j, l, next) ==
    LET first == Larger(1, Smaller(next, Len(l) + 1))
    IN  [from |-> i, to |-> j, term |-> currentTerm[i], prev |-> first - 1,
         prevTerm |-> TermAt(l, first - 1),
         entries |-> Batch(l, first, MaxBatch), commit |-> commitIndex[i]]

Sent(q) == [request |-> q, status |-> "sent", term |-> 0, index |-> 0]

\* _replicateAll: one request to every peer without an outstanding one. The
\* log and next indexes are those the caller has just computed.
Broadcast(i, calls, l, next) ==
    [calls EXCEPT ![i] = [j \in Server |->
        IF j # i /\ calls[i][j] = Nil THEN Sent(RequestTo(i, j, l, next[j]))
        ELSE calls[i][j]]]

\* The calls after the receiver of q has dealt with it, if q's sender still
\* waits.
Replied(calls, q, status, term, index) ==
    IF calls[q.from][q.to] = Sent(q)
    THEN [calls EXCEPT ![q.from][q.to] =
            [request |-> q, status |-> status, term |-> term, index |-> index]]
    ELSE calls

IsHeld(call) == call # Nil /\ call.status = "held"

\* The calls after j has refused every acknowledgement it held back.
Revoked(calls, j, term, index) ==
    [i \in Server |-> [k \in Server |->
        IF k = j /\ IsHeld(calls[i][k])
        THEN [request |-> calls[i][k].request, status |-> "refused",
              term |-> term, index |-> index]
        ELSE calls[i][k]]]

-----------------------------------------------------------------------------
\* _becomeFollower: what is left of i's state once it has seen term T. A
\* new term is stored with the commit index, and the acknowledgements held
\* back for an older term are revoked.

VoteIn(i, T) == IF T > currentTerm[i] THEN Nil ELSE votedFor[i]

StoredIn(i, T) == IF T > currentTerm[i] THEN commitIndex[i] ELSE storedCommit[i]

CallsIn(calls, i, T) ==
    IF T > currentTerm[i] THEN Revoked(calls, i, T, Len(log[i]) + 1) ELSE calls

BecomeFollower(i, T, vote) ==
    /\ currentTerm' = [currentTerm EXCEPT ![i] = T]
    /\ votedFor' = [votedFor EXCEPT ![i] = vote]
    /\ state' = [state EXCEPT ![i] = Follower]
    /\ votes' = [votes EXCEPT ![i] = {}]

\* i learns of a newer term T and does nothing else.
StepDown(i, T, calls) ==
    /\ BecomeFollower(i, T, Nil)
    /\ storedCommit' = [storedCommit EXCEPT ![i] = commitIndex[i]]
    /\ rpc' = CallsIn(calls, i, T)
    /\ UNCHANGED <<logVars, paused, commitIndex, leaderVars, voteMsgs, late,
                   history, faults>>

-----------------------------------------------------------------------------
\* Election

StartElection(i) ==
    /\ ~paused[i] /\ state[i] # Leader
    /\ currentTerm[i] < MaxTerm /\ Cardinality(ballots) < MaxElections
    /\ currentTerm' = [currentTerm EXCEPT ![i] = @ + 1]
    /\ state' = [state EXCEPT ![i] = Candidate]
    /\ votedFor' = [votedFor EXCEPT ![i] = i]
    /\ votes' = [votes EXCEPT ![i] = {i}]
    /\ storedCommit' = [storedCommit EXCEPT ![i] = commitIndex[i]]
    /\ ballots' = ballots \cup {[from |-> i, term |-> currentTerm[i] + 1,
                                 lastIndex |-> Len(log[i]),
                                 lastTerm |-> LastTerm(log[i])]}
    /\ UNCHANGED <<logVars, paused, commitIndex, leaderVars, rpc, grants, late,
                   history, faults>>

\* Mutant: an earlier vote in the term does not bind.
VoteAgain(j, b) == TRUE

CanVote(j, b) == VoteIn(j, b.term) \in {Nil, b.from}

\* handleRequestVote grants. A server that can still vote for another one in
\* its own term is a follower, so the state it is left in is Follower.
GrantVote(j, b) ==
    /\ j # b.from
    /\ ~paused[j] /\ b.term >= currentTerm[j]
    /\ CanVote(j, b)
    /\ UpToDate(b.lastTerm, b.lastIndex, log[j])
    /\ BecomeFollower(j, b.term, b.from)
    /\ storedCommit' = [storedCommit EXCEPT ![j] = commitIndex[j]]
    /\ rpc' = CallsIn(rpc, j, b.term)
    /\ grants' = grants \cup {[from |-> j, to |-> b.from, term |-> b.term]}
    /\ UNCHANGED <<logVars, paused, commitIndex, leaderVars, ballots, late,
                   history, faults>>

\* handleRequestVote refuses a log behind its own but adopts the term.
RefuseVote(j, b) ==
    /\ ~paused[j] /\ b.term > currentTerm[j]
    /\ ~UpToDate(b.lastTerm, b.lastIndex, log[j])
    /\ StepDown(j, b.term, rpc)

\* The reply of a voter that is past the term of i's ballot, paused or not,
\* tells i that voter's term, or one it was in when it replied.
LearnTerm(i, b, j) ==
    /\ b.from = i
    /\ \E T \in (Larger(b.term, currentTerm[i]) + 1)..currentTerm[j] :
          StepDown(i, T, rpc)

\* The leader i has appended to its log, which is now l.
Write(i, l) ==
    written' = [t \in DOMAIN written \cup {currentTerm[i]} |->
                   IF t = currentTerm[i] THEN l ELSE written[t]]

\* _becomeLeader: the no-op of the new term is appended and sent at once.
\* A candidate that was paused while its votes were under way does become
\* leader, but sends nothing.
Lead(i) ==
    LET l    == Append(log[i], [term |-> currentTerm[i], data |-> Noop])
        next == [j \in Server |-> Len(log[i]) + 1]
        none == [rpc EXCEPT ![i] = [j \in Server |-> Nil]]
    IN  /\ state' = [state EXCEPT ![i] = Leader]
        /\ votes' = [votes EXCEPT ![i] = {}]
        /\ log' = [log EXCEPT ![i] = l]
        /\ durable' = [durable EXCEPT ![i] = IF GroupCommit THEN @ ELSE Len(l)]
        /\ nextIndex' = [nextIndex EXCEPT ![i] = next]
        /\ matchIndex' = [matchIndex EXCEPT ![i] = [j \in Server |-> 0]]
        /\ leaders' = leaders \cup {<<currentTerm[i], i>>}
        /\ Write(i, l)
        /\ rpc' = IF paused[i] THEN none ELSE Broadcast(i, none, l, next)

\* The vote that completes a quorum makes its candidate leader.
CountVote(i, g) ==
    /\ g.to = i /\ g.from \notin votes[i]
    /\ state[i] = Candidate /\ currentTerm[i] = g.term
    /\ IF votes[i] \cup {g.from} \in Quorum
       THEN Lead(i)
       ELSE /\ votes' = [votes EXCEPT ![i] = @ \cup {g.from}]
            /\ UNCHANGED <<logVars, state, leaderVars, rpc, leaders, written>>
    /\ UNCHANGED <<metaVars, paused, commitIndex, voteMsgs, late, decided,
                   faults>>

-----------------------------------------------------------------------------
\* Commit

\* _advanceCommitIndex: the highest entry of the leader's own term that a
\* majority has. The leader counts itself once the entry is on its disk.
\* Mutant: a leader counts itself for what it has only buffered.
HoldersInMemory(i, k, match, flushed) ==
    {i} \cup {j \in Server \ {i} : match[j] >= k}

Holders(i, k, match, flushed) ==
    {j \in Server \ {i} : match[j] >= k} \cup {j \in {i} : flushed >= k}

\* Mutant: replicas are counted for entries of earlier terms too.
CommittableOfAnyTerm(i, match, flushed) ==
    {k \in (commitIndex[i] + 1)..Len(log[i]) :
        Holders(i, k, match, flushed) \in Quorum}

Committable(i, match, flushed) ==
    {k \in (commitIndex[i] + 1)..Len(log[i]) :
        /\ log[i][k].term = currentTerm[i]
        /\ Holders(i, k, match, flushed) \in Quorum}

AdvanceCommit(i, match, flushed) ==
    LET ready == Committable(i, match, flushed)
        last  == CHOOSE k \in ready : \A m \in ready : m <= k
        new   == {k \in (commitIndex[i] + 1)..last :
                    \A d \in decided : d.index # k \/ d.entry # log[i][k]}
    IN  IF state[i] = Leader /\ ready # {}
        THEN /\ commitIndex' = [commitIndex EXCEPT ![i] = last]
             /\ storedCommit' = IF GroupCommit THEN storedCommit
                                ELSE [storedCommit EXCEPT ![i] = last]
             /\ decided' = decided \cup
                   {[index |-> k, entry |-> log[i][k], term |-> currentTerm[i]] :
                        k \in new}
        ELSE UNCHANGED <<commitIndex, storedCommit, decided>>

-----------------------------------------------------------------------------
\* Replication, by the leader

\* _replicateAll on the heartbeat timer, or after a commit.
Heartbeat(i) ==
    /\ state[i] = Leader /\ ~paused[i]
    /\ \E j \in Server \ {i} : rpc[i][j] = Nil
    /\ rpc' = Broadcast(i, rpc, log[i], nextIndex[i])
    /\ UNCHANGED <<metaVars, logVars, state, paused, votes, commitIndex,
                   leaderVars, voteMsgs, late, history, faults>>

\* Mutant: only the last entry is compared.
DuplicateOfLast(l, c) == l # <<>> /\ l[Len(l)].data = c

\* clientAppend of a command the log does not hold yet. For one it does hold
\* the code waits for the commit of the entry it has found: no step.
Duplicate(l, c) == \E k \in 1..Len(l) : l[k].data = c

ClientAppend(i, c) ==
    /\ state[i] = Leader
    /\ Len(log[i]) < MaxLog
    /\ ~Duplicate(log[i], c)
    /\ LET l == Append(log[i], [term |-> currentTerm[i], data |-> c])
       IN  /\ log' = [log EXCEPT ![i] = l]
           /\ durable' = [durable EXCEPT ![i] = IF GroupCommit THEN @ ELSE Len(l)]
           /\ rpc' = IF paused[i] THEN rpc
                     ELSE Broadcast(i, rpc, l, nextIndex[i])
           /\ Write(i, l)
    /\ UNCHANGED <<metaVars, state, paused, votes, commitIndex, leaderVars,
                   voteMsgs, late, leaders, decided, faults>>

\* The call of i to j returns. A reply with a newer term deposes i; a success
\* moves the indexes of j and may commit; a refusal moves the next index back
\* and is followed at once by the next attempt (the bound on attempts, log
\* length + 1, only ends the loop until the next heartbeat). The indexes of a
\* server that no longer leads are never read, so only a leader moves them.
AppendDeposed(i, j) ==
    /\ rpc[i][j] # Nil
    /\ rpc[i][j].term > currentTerm[i]
    /\ StepDown(i, rpc[i][j].term, [rpc EXCEPT ![i][j] = Nil])

AppendSucceeded(i, j) ==
    /\ state[i] = Leader
    /\ rpc[i][j] # Nil /\ rpc[i][j].status = "acked"
    /\ rpc[i][j].term <= currentTerm[i]
    /\ LET match == Larger(matchIndex[i][j], rpc[i][j].index)
       IN  /\ matchIndex' = [matchIndex EXCEPT ![i][j] = match]
           /\ nextIndex' = [nextIndex EXCEPT ![i][j] = match + 1]
           /\ AdvanceCommit(i, [matchIndex[i] EXCEPT ![j] = match], durable[i])
    /\ rpc' = [rpc EXCEPT ![i][j] = Nil]
    /\ UNCHANGED <<currentTerm, votedFor, logVars, state, paused, votes,
                   voteMsgs, late, leaders, written, faults>>

AppendRefused(i, j) ==
    /\ state[i] = Leader
    /\ rpc[i][j] # Nil /\ rpc[i][j].status = "refused"
    /\ rpc[i][j].term <= currentTerm[i]
    /\ LET next == Backed(rpc[i][j].request.prev, rpc[i][j].index)
       IN  /\ nextIndex' = [nextIndex EXCEPT ![i][j] = next]
           /\ rpc' = [rpc EXCEPT ![i][j] =
                        IF paused[i] THEN Nil
                        ELSE Sent(RequestTo(i, j, log[i], next))]
    /\ UNCHANGED <<metaVars, logVars, state, paused, votes, commitIndex,
                   matchIndex, voteMsgs, late, history, faults>>

\* The call times out, or returns to a server that no longer leads. Its
\* request is lost, or will be late; an answer after this is dropped.
CallEnds(i, j) ==
    /\ rpc[i][j] # Nil
    /\ rpc' = [rpc EXCEPT ![i][j] = Nil]
    /\ \/ UNCHANGED late
       \/ /\ rpc[i][j].status = "sent" /\ Cardinality(late) < MaxLate
          /\ late' = late \cup {rpc[i][j].request}
    /\ UNCHANGED <<metaVars, logVars, state, paused, votes, commitIndex,
                   leaderVars, voteMsgs, history, faults>>

-----------------------------------------------------------------------------
\* Replication, by the follower

\* The requests that can reach a server now.
InFlight == late \cup {rpc[ij[1]][ij[2]].request : ij \in
    {ij \in Server \X Server : /\ rpc[ij[1]][ij[2]] # Nil
                               /\ rpc[ij[1]][ij[2]].status = "sent"}}

\* The network hands over q, and may keep a second copy.
Delivered(q) ==
    \/ late' = late \ {q}
    \/ Cardinality(late \ {q}) < MaxLate /\ late' = late \cup {q}

RejectAppend(j, q) ==
    /\ Delivered(q)
    /\ paused[j] \/ q.term < currentTerm[j]
    /\ rpc' = Replied(rpc, q, "refused", currentTerm[j], Len(log[j]) + 1)
    /\ UNCHANGED <<metaVars, logVars, state, paused, votes, commitIndex,
                   leaderVars, voteMsgs, history, faults>>

\* The sender leads its term, but the log has no entry to build upon.
MismatchAppend(j, q) ==
    /\ Delivered(q)
    /\ ~paused[j] /\ q.term >= currentTerm[j]
    /\ ~PrevMatches(log[j], q.prev, q.prevTerm)
    /\ BecomeFollower(j, q.term, VoteIn(j, q.term))
    /\ storedCommit' = [storedCommit EXCEPT ![j] = StoredIn(j, q.term)]
    /\ rpc' = Replied(CallsIn(rpc, j, q.term), q, "refused", q.term,
                      ConflictHint(log[j], q.prev))
    /\ UNCHANGED <<logVars, paused, commitIndex, leaderVars, voteMsgs, history,
                   faults>>

\* Mutant: the leader's commit index carries to the end of the own log.
CommitToEnd(j, q) ==
    Larger(commitIndex[j],
           Smaller(q.commit, Len(Merge(log[j], q.prev, q.entries))))

\* The leader's commit index carries to the last entry this request has
\* verified, never to the end of the follower's own log.
CommitAfter(j, q) ==
    Larger(commitIndex[j], Smaller(q.commit, q.prev + Len(q.entries)))

\* The entries on disk after a merge: a truncation rewrites the file with
\* everything that is kept; an append reaches it now or with the next flush.
DurableAfter(j, kept, l) ==
    IF ~GroupCommit THEN Len(l)
    ELSE IF kept < Len(log[j]) THEN kept
    ELSE durable[j]

\* Mutant: the wait ends one entry early.
AckStatusEarly(match, flushed) ==
    IF GroupCommit /\ match > flushed + 1 THEN "held" ELSE "acked"

\* Under group commit an acknowledgement waits until what it covers is on
\* disk.
AckStatus(match, flushed) ==
    IF GroupCommit /\ match > flushed THEN "held" ELSE "acked"

AcceptAppend(j, q) ==
    LET kept    == Kept(log[j], q.prev, q.entries)
        l       == Merge(log[j], q.prev, q.entries)
        flushed == DurableAfter(j, kept, l)
        match   == q.prev + Len(q.entries)
        commit  == CommitAfter(j, q)
        calls   == IF kept < Len(log[j]) /\ q.term = currentTerm[j]
                   THEN Revoked(rpc, j, q.term, kept + 1)
                   ELSE CallsIn(rpc, j, q.term)
    IN  /\ Delivered(q)
        /\ ~paused[j] /\ q.term >= currentTerm[j]
        /\ PrevMatches(log[j], q.prev, q.prevTerm)
        /\ BecomeFollower(j, q.term, VoteIn(j, q.term))
        /\ log' = [log EXCEPT ![j] = l]
        /\ durable' = [durable EXCEPT ![j] = flushed]
        /\ commitIndex' = [commitIndex EXCEPT ![j] = commit]
        /\ storedCommit' = [storedCommit EXCEPT ![j] =
              IF ~GroupCommit /\ commit > commitIndex[j] THEN commit
              ELSE StoredIn(j, q.term)]
        /\ rpc' = Replied(calls, q, AckStatus(match, flushed), q.term, match)
        /\ UNCHANGED <<paused, leaderVars, voteMsgs, history, faults>>

-----------------------------------------------------------------------------
\* Disk

\* _flushLog: everything buffered reaches the disk in one write; the
\* acknowledgements that waited for it go out; a leader may now commit.
\* The flush timer of a paused server is off until it resumes or appends.
Flush(i) ==
    /\ GroupCommit /\ durable[i] < Len(log[i])
    /\ ~paused[i] \/ state[i] = Leader
    /\ durable' = [durable EXCEPT ![i] = Len(log[i])]
    /\ rpc' = IF paused[i]
              THEN Revoked(rpc, i, currentTerm[i], Len(log[i]) + 1)
              ELSE [k \in Server |-> [j \in Server |->
                      IF j = i /\ IsHeld(rpc[k][j])
                      THEN [rpc[k][j] EXCEPT !.status = "acked"]
                      ELSE rpc[k][j]]]
    /\ AdvanceCommit(i, matchIndex[i], Len(log[i]))
    /\ UNCHANGED <<currentTerm, votedFor, log, state, paused, votes,
                   leaderVars, voteMsgs, late, leaders, written, faults>>

\* The lazy write of the commit index under group commit.
StoreCommit(i) ==
    /\ GroupCommit /\ ~paused[i] /\ storedCommit[i] # commitIndex[i]
    /\ storedCommit' = [storedCommit EXCEPT ![i] = commitIndex[i]]
    /\ UNCHANGED <<currentTerm, votedFor, logVars, state, paused, votes,
                   commitIndex, leaderVars, rpc, voteMsgs, late, history,
                   faults>>

-----------------------------------------------------------------------------
\* Failures

\* A crash and the start that follows it. What was buffered is lost, unless
\* the crash came in the middle of writing it: then a prefix is found whole
\* and the torn line after it is dropped. The committed prefix is replayed.
\* Acknowledgements held back die with the server.
Restart(i) ==
    /\ restarts < MaxRestarts
    /\ restarts' = restarts + 1
    /\ \E kept \in durable[i]..Len(log[i]) :
          /\ log' = [log EXCEPT ![i] = SubSeq(@, 1, kept)]
          /\ durable' = [durable EXCEPT ![i] = kept]
          /\ commitIndex' = [commitIndex EXCEPT ![i] =
                               Smaller(storedCommit[i], kept)]
          /\ nextIndex' = [nextIndex EXCEPT ![i] = [j \in Server |-> kept + 1]]
    /\ matchIndex' = [matchIndex EXCEPT ![i] = [j \in Server |-> 0]]
    /\ state' = [state EXCEPT ![i] = Follower]
    /\ paused' = [paused EXCEPT ![i] = FALSE]
    /\ votes' = [votes EXCEPT ![i] = {}]
    /\ rpc' = [k \in Server |-> [j \in Server |->
                 IF k = i \/ (j = i /\ IsHeld(rpc[k][j])) THEN Nil
                 ELSE rpc[k][j]]]
    /\ UNCHANGED <<metaVars, voteMsgs, late, history, pauses>>

\* pause() silences a server with its memory intact; a candidate stays one.
Pause(i) ==
    /\ ~paused[i] /\ pauses < MaxPauses
    /\ pauses' = pauses + 1
    /\ paused' = [paused EXCEPT ![i] = TRUE]
    /\ state' = [state EXCEPT ![i] = IF @ = Leader THEN Follower ELSE @]
    /\ UNCHANGED <<metaVars, logVars, votes, commitIndex, leaderVars, rpc,
                   voteMsgs, late, history, restarts>>

\* Mutant: a server that resumes forgets its vote.
ResumeAnew(i) ==
    /\ paused[i]
    /\ paused' = [paused EXCEPT ![i] = FALSE]
    /\ state' = [state EXCEPT ![i] = Follower]
    /\ votes' = [votes EXCEPT ![i] = {}]
    /\ votedFor' = [votedFor EXCEPT ![i] = Nil]
    /\ UNCHANGED <<currentTerm, storedCommit, logVars, commitIndex, leaderVars,
                   rpc, voteMsgs, late, history, faults>>

Resume(i) ==
    /\ paused[i]
    /\ paused' = [paused EXCEPT ![i] = FALSE]
    /\ state' = [state EXCEPT ![i] = Follower]
    /\ votes' = [votes EXCEPT ![i] = {}]
    /\ UNCHANGED <<metaVars, logVars, commitIndex, leaderVars, rpc, voteMsgs,
                   late, history, faults>>

-----------------------------------------------------------------------------
ElectionStep ==
    \/ \E i \in Server : StartElection(i)
    \/ \E j \in Server, b \in ballots : GrantVote(j, b) \/ RefuseVote(j, b)
    \/ \E i, j \in Server, b \in ballots : LearnTerm(i, b, j)
    \/ \E i \in Server, g \in grants : CountVote(i, g)

LeaderStep ==
    \/ \E i \in Server : Heartbeat(i)
    \/ \E i \in Server, c \in Command : ClientAppend(i, c)
    \/ \E i, j \in Server : AppendDeposed(i, j) \/ AppendSucceeded(i, j)
                            \/ AppendRefused(i, j) \/ CallEnds(i, j)

FollowerStep ==
    \E q \in InFlight : RejectAppend(q.to, q) \/ MismatchAppend(q.to, q)
                        \/ AcceptAppend(q.to, q)

DiskStep == \E i \in Server : Flush(i) \/ StoreCommit(i)

FaultStep == \E i \in Server : Restart(i) \/ Pause(i) \/ Resume(i)

Next == ElectionStep \/ LeaderStep \/ FollowerStep \/ DiskStep \/ FaultStep

Spec == Init /\ [][Next]_vars

-----------------------------------------------------------------------------
\* Reads. readLinearizable notes its commit index, and answers if then a
\* quorum acknowledges its term and it still leads it. A peer acknowledges
\* after the index was noted and terms only grow, so what the reads need is
\* what a quorum's terms say at the moment the index is noted.

\* Mutant: a new leader reads before its no-op has committed.
CanReadAtOnce(i) == state[i] = Leader

\* The test on _noopIndex: the first entry of the leader's own term.
CanRead(i) ==
    /\ state[i] = Leader
    /\ \E k \in 1..commitIndex[i] : log[i][k].term = currentTerm[i]

\* _confirmLeadership: who may still acknowledge the term of i.
Confirming(i) == {j \in Server : currentTerm[j] <= currentTerm[i]}

-----------------------------------------------------------------------------
\* The variables range over what the code can store in them.
TypeOK ==
    /\ currentTerm \in [Server -> Nat]
    /\ votedFor \in [Server -> Server \cup {Nil}]
    /\ storedCommit \in [Server -> Nat]
    /\ log \in [Server -> Seq(Entry)]
    /\ durable \in [Server -> Nat]
    /\ state \in [Server -> {Follower, Candidate, Leader}]
    /\ paused \in [Server -> BOOLEAN]
    /\ votes \in [Server -> SUBSET Server]
    /\ commitIndex \in [Server -> Nat]
    /\ nextIndex \in [Server -> [Server -> Nat \ {0}]]
    /\ matchIndex \in [Server -> [Server -> Nat]]
    /\ rpc \in [Server -> [Server -> Call \cup {Nil}]]
    /\ ballots \subseteq Ballot
    /\ grants \subseteq Grant
    /\ late \subseteq Request
    /\ leaders \subseteq (Nat \X Server)
    /\ DOMAIN written \subseteq Nat
    /\ \A t \in DOMAIN written : written[t] \in Seq(Entry)
    /\ decided \subseteq [index : Nat, entry : Entry, term : Nat]
    /\ restarts \in Nat /\ pauses \in Nat

\* At most one server ever leads a term, although votes are counted from
\* replies that come late, voters crash and vote again, and a candidate may
\* be paused while its votes are under way.
ElectionSafety ==
    \A a, b \in leaders : a[1] = b[1] => a[2] = b[2]

\* checkLogConsistency of sim/cluster.js: two logs that hold an entry of the
\* same term at the same index are identical up to it.
LogMatching ==
    \A i, j \in Server :
        \A k \in 1..Smaller(Len(log[i]), Len(log[j])) :
            log[i][k].term = log[j][k].term =>
                SubSeq(log[i], 1, k) = SubSeq(log[j], 1, k)

Has(i, d) == d.index <= Len(log[i]) /\ log[i][d.index] = d.entry

\* Whoever leads a term from the one an entry was committed in onwards has
\* that entry: the vote's up-to-date test and the commit rule together.
LeaderCompleteness ==
    \A d \in decided, i \in Server :
        state[i] = Leader /\ currentTerm[i] >= d.term =>
            Has(i, d)

\* A linearizable read misses no committed entry: whoever a quorum may still
\* confirm once its own no-op is committed knows of every commit so far, its
\* successors' included.
ReadIndexCurrent ==
    \A i \in Server :
        CanRead(i) /\ Confirming(i) \in Quorum =>
            \A d \in decided : d.index <= commitIndex[i]

\* No server whose log lacks a committed entry can gather a majority, now or
\* after any further elections: no majority's logs are all behind such a log.
ElectableHasCommitted ==
    \A i \in Server :
        {j \in Server : UpToDate(LastTerm(log[i]), Len(log[i]), log[j])} \in Quorum
            => \A d \in decided : Has(i, d)

\* A committed entry is on the disks of a majority, whatever is still
\* buffered: no crash of any server can lose it.
CommittedOnDisk ==
    \A d \in decided :
        {i \in Server : d.index <= durable[i] /\ log[i][d.index] = d.entry} \in Quorum

\* What a leader counts as replicated is on the follower's disk, as long as
\* the follower has not left the leader's term: an acknowledgement is sent
\* neither before the flush that covers it nor for entries since truncated.
AcknowledgedOnDisk ==
    \A i, j \in Server :
        i # j /\ state[i] = Leader /\ currentTerm[j] = currentTerm[i] =>
            /\ matchIndex[i][j] <= durable[j]
            /\ \A k \in 1..matchIndex[i][j] : log[j][k] = log[i][k]

\* A client command, however often it is retried and at whichever leader, is
\* in a log once: the deduplication scan of clientAppend.
CommandOnce ==
    \A i \in Server : \A k, m \in 1..Len(log[i]) :
        k # m /\ log[i][k].data = log[i][m].data => log[i][k].data = Noop

\* _truncateLogFrom throws rather than discard a committed entry: it never
\* has to, and a restart finds every applied entry it still has unchanged.
CommittedNeverTruncated ==
    [][\A i \in Server : \A k \in 1..commitIndex[i] :
          IF k <= Len(log'[i]) THEN log'[i][k] = log[i][k]
          ELSE restarts' > restarts]_<<log, commitIndex, restarts>>

\* A vote, once cast in a term, is neither withdrawn nor changed in it, not
\* even by a crash; terms never go back.
VoteIsFinal ==
    [][\A i \in Server :
          /\ currentTerm'[i] >= currentTerm[i]
          /\ currentTerm'[i] = currentTerm[i] /\ votedFor[i] # Nil =>
                votedFor'[i] = votedFor[i]]_<<currentTerm, votedFor>>

=============================================================================
