------------------------------ MODULE RaftProofs ------------------------------
(***************************************************************************)
(* Theorems about Raft, for any finite set of voters, any commands and any *)
(* bounds, with group commit or without:                                   *)
(*   - the variables keep their types, a vote once cast is final, and no   *)
(*     term has two leaders;                                               *)
(*   - logs match, and hold a command once;                                *)
(*   - what a leader commits is on a majority's disks, is in the log of    *)
(*     every later leader and of everyone who can be elected, and is never *)
(*     truncated; a linearizable read misses none of it;                   *)
(*   - the engine implements ReplicatedLog.                                *)
(* The sections build the inductive invariant in that order: ElectionInv,  *)
(* then SafeLogs (what leaders have written and what logs and requests     *)
(* have of it), BallotInv, and CommitInv (what a majority has acknowledged *)
(* is in every later log).                                                 *)
(***************************************************************************)
EXTENDS RaftRefinement, RaftLogProofs, FiniteSetTheorems

-----------------------------------------------------------------------------
\* Types of what the actions compute

\* Every log entry has a term, so the lemmas on logs apply to it.
LEMMA EntryTerms == Terms(Entry)
BY DEF Terms, Entry

\* A request built from a log and a next index is a request.
LEMMA RequestToType ==
    ASSUME TypeOK, NEW i \in Server, NEW j \in Server, NEW l \in Seq(Entry),
           NEW next \in Nat \ {0}
    PROVE  RequestTo(i, j, l, next) \in Request
<1> DEFINE first == Larger(1, Smaller(next, Len(l) + 1))
<1>1. first \in 1..(Len(l) + 1)
  BY DEF Larger, Smaller
<1>2. first - 1 \in 0..Len(l)
  BY <1>1
<1>3. TermAt(l, first - 1) \in Nat
  BY <1>2, EntryTerms, TermAtType
<1>4. Batch(l, first, MaxBatch) \in Seq(Entry)
  BY <1>1, OptionAssumption, BatchType
<1>5. first - 1 = 0 => TermAt(l, first - 1) = 0
  BY DEF TermAt
<1>6. currentTerm[i] \in Nat /\ commitIndex[i] \in Nat
  BY DEF TypeOK
<1> DEFINE prev == first - 1
           prevTerm == TermAt(l, prev)
           entries == Batch(l, first, MaxBatch)
           q == [from |-> i, to |-> j, term |-> currentTerm[i], prev |-> prev,
                 prevTerm |-> prevTerm, entries |-> entries,
                 commit |-> commitIndex[i]]
<1>7. RequestTo(i, j, l, next) = q
  BY DEF RequestTo
<1>8. prev \in Nat /\ prevTerm \in Nat /\ entries \in Seq(Entry)
      /\ (prev = 0 => prevTerm = 0)
  BY <1>2, <1>3, <1>4, <1>5
<1> HIDE DEF prev, prevTerm, entries
<1>9. q \in Request
  BY <1>6, <1>8 DEF Request
<1>10. QED
  BY <1>7, <1>9

\* A request that _replicateToPeer has posted is an outstanding call.
LEMMA SentType ==
    ASSUME NEW q \in Request
    PROVE  Sent(q) \in Call
BY DEF Sent, Call

Calls == [Server -> [Server -> Call \cup {Nil}]]

\* _replicateAll leaves one well-formed call, or none, to every peer.
LEMMA BroadcastType ==
    ASSUME TypeOK, NEW i \in Server, NEW calls \in Calls,
           NEW l \in Seq(Entry), NEW next \in [Server -> Nat \ {0}]
    PROVE  Broadcast(i, calls, l, next) \in Calls
<1>1. \A j \in Server : Sent(RequestTo(i, j, l, next[j])) \in Call
  BY RequestToType, SentType
<1>2. QED
  BY <1>1 DEF Broadcast, Calls

\* The receiver's answer turns a call into a well-formed call.
LEMMA RepliedType ==
    ASSUME NEW calls \in Calls, NEW q \in Request,
           NEW status \in {"sent", "held", "acked", "refused"},
           NEW term \in Nat, NEW index \in Nat
    PROVE  Replied(calls, q, status, term, index) \in Calls
<1>1. [request |-> q, status |-> status, term |-> term, index |-> index] \in Call
  BY DEF Call
<1>2. q.from \in Server /\ q.to \in Server
  BY DEF Request
<1>3. QED
  BY <1>1, <1>2 DEF Replied, Calls

\* The refusal of what _acknowledgeWhenDurable held back leaves
\* well-formed calls.
LEMMA RevokedType ==
    ASSUME NEW calls \in Calls, NEW j \in Server, NEW term \in Nat,
           NEW index \in Nat
    PROVE  Revoked(calls, j, term, index) \in Calls
<1>1. ASSUME NEW i \in Server, NEW k \in Server, IsHeld(calls[i][k])
      PROVE  [request |-> calls[i][k].request, status |-> "refused",
              term |-> term, index |-> index] \in Call
  BY <1>1 DEF Calls, Call, IsHeld
<1>2. QED
  BY <1>1 DEF Revoked, Calls

\* What _becomeFollower revokes when it adopts a term leaves well-formed
\* calls.
LEMMA CallsInType ==
    ASSUME TypeOK, NEW calls \in Calls, NEW i \in Server, NEW T \in Nat
    PROVE  CallsIn(calls, i, T) \in Calls
BY RevokedType DEF CallsIn, TypeOK

\* Whatever handleAppendEntries may be handed is a request.
LEMMA InFlightType ==
    ASSUME TypeOK
    PROVE  InFlight \subseteq Request
<1>1. ASSUME NEW i \in Server, NEW j \in Server, rpc[i][j] # Nil
      PROVE  rpc[i][j].request \in Request
  <2>1. rpc[i][j] \in Call
    BY <1>1 DEF TypeOK
  <2>2. QED
    BY <2>1 DEF Call
<1>2. ASSUME NEW q \in InFlight, q \notin late
      PROVE  q \in Request
  <2>1. PICK ij \in Server \X Server : /\ rpc[ij[1]][ij[2]] # Nil
                                       /\ q = rpc[ij[1]][ij[2]].request
    BY <1>2 DEF InFlight
  <2>2. ij[1] \in Server /\ ij[2] \in Server
    OBVIOUS
  <2>3. QED
    BY <1>1, <2>1, <2>2
<1>3. QED
  BY <1>2 DEF TypeOK

\* The vote that counts in a term is for a server, or none.
LEMMA VoteInType ==
    ASSUME TypeOK, NEW i \in Server, NEW T \in Nat
    PROVE  VoteIn(i, T) \in Server \cup {Nil}
BY DEF TypeOK, VoteIn

\* Committing leaves the types alone.
LEMMA AdvanceCommitType ==
    ASSUME TypeOK, NEW i \in Server, NEW match \in [Server -> Nat],
           NEW flushed \in Nat, AdvanceCommit(i, match, flushed)
    PROVE  /\ commitIndex' \in [Server -> Nat]
           /\ storedCommit' \in [Server -> Nat]
           /\ decided' \subseteq [index : Nat, entry : Entry, term : Nat]
<1> DEFINE ready == Committable(i, match, flushed)
           last  == CHOOSE k \in ready : \A m \in ready : m <= k
<1>1. CASE state[i] = Leader /\ ready # {}
  <2>1. ready \in SUBSET (0..Len(log[i])) /\ Len(log[i]) \in Nat
    BY DEF Committable, TypeOK
  <2>2. last \in ready
    BY <1>1, <2>1, GreatestNatural
  <2>3. last \in 0..Len(log[i])
    BY <2>1, <2>2
  <2> DEFINE Decided(k) == [index |-> k, entry |-> log[i][k],
                            term |-> currentTerm[i]]
             new == {Decided(k) : k \in (commitIndex[i] + 1)..last}
  <2>4. new \subseteq [index : Nat, entry : Entry, term : Nat]
    <3>1. \A k \in (commitIndex[i] + 1)..last :
             k \in Nat /\ log[i][k] \in Entry /\ currentTerm[i] \in Nat
      BY <2>3 DEF TypeOK
    <3>2. \A k \in (commitIndex[i] + 1)..last :
             Decided(k) \in [index : Nat, entry : Entry, term : Nat]
      BY <3>1
    <3> HIDE DEF Decided
    <3>3. QED
      BY <3>2
  <2>5. /\ commitIndex' = [commitIndex EXCEPT ![i] = last]
        /\ storedCommit' = IF GroupCommit THEN storedCommit
                           ELSE [storedCommit EXCEPT ![i] = last]
        /\ decided' \subseteq decided \cup new
    BY <1>1 DEF AdvanceCommit
  <2> HIDE DEF last, new
  <2>6. commitIndex' \in [Server -> Nat] /\ storedCommit' \in [Server -> Nat]
    BY <2>3, <2>5 DEF TypeOK
  <2>7. decided' \subseteq [index : Nat, entry : Entry, term : Nat]
    BY <2>4, <2>5 DEF TypeOK
  <2>8. QED
    BY <2>6, <2>7
<1>2. CASE ~ (state[i] = Leader /\ ready # {})
  BY <1>2 DEF AdvanceCommit, TypeOK
<1>3. QED
  BY <1>1, <1>2

-----------------------------------------------------------------------------
\* A cluster that starts with empty logs is well typed.
LEMMA InitTypeOK == Init => TypeOK
BY DEF Init, TypeOK, Follower

\* _startElection keeps the types: the ballot has a real last term.
LEMMA StartElectionType ==
    ASSUME TypeOK, NEW i \in Server, StartElection(i)
    PROVE  TypeOK'
<1>1. [from |-> i, term |-> currentTerm[i] + 1, lastIndex |-> Len(log[i]),
       lastTerm |-> LastTerm(log[i])] \in Ballot
  <2>1. log[i] \in Seq(Entry) /\ currentTerm[i] \in Nat
    BY DEF TypeOK
  <2>2. Len(log[i]) \in Nat /\ Len(log[i]) \in 0..Len(log[i])
    BY <2>1
  <2>3. LastTerm(log[i]) \in Nat
    BY <2>1, <2>2, EntryTerms, TermAtType DEF LastTerm
  <2>4. QED
    BY <2>1, <2>2, <2>3 DEF Ballot
<1>2. /\ currentTerm' \in [Server -> Nat]
      /\ votedFor' \in [Server -> Server \cup {Nil}]
      /\ storedCommit' \in [Server -> Nat]
      /\ state' \in [Server -> {Follower, Candidate, Leader}]
      /\ votes' \in [Server -> SUBSET Server]
  BY DEF TypeOK, StartElection, Candidate
<1>3. ballots' \subseteq Ballot
  BY <1>1 DEF TypeOK, StartElection
<1>4. QED
  BY <1>2, <1>3 DEF TypeOK, StartElection, logVars, leaderVars, history, faults

\* handleRequestVote keeps the types when it grants.
LEMMA GrantVoteType ==
    ASSUME TypeOK, NEW j \in Server, NEW b \in ballots, GrantVote(j, b)
    PROVE  TypeOK'
<1>1. b.from \in Server /\ b.term \in Nat
  BY DEF TypeOK, Ballot
<1>2. rpc' \in Calls
  BY <1>1, CallsInType DEF TypeOK, Calls, GrantVote
<1>3. [from |-> j, to |-> b.from, term |-> b.term] \in Grant
  BY <1>1 DEF Grant
<1>4. QED
  BY <1>1, <1>2, <1>3
  DEF TypeOK, GrantVote, BecomeFollower, Calls, logVars, leaderVars, history,
      faults, Follower

\* Adopting a newer term keeps the types.
LEMMA StepDownType ==
    ASSUME TypeOK, NEW i \in Server, NEW T \in Nat, NEW calls \in Calls,
           StepDown(i, T, calls)
    PROVE  TypeOK'
<1>1. rpc' \in Calls
  BY CallsInType DEF StepDown
<1>2. QED
  BY <1>1
  DEF TypeOK, StepDown, BecomeFollower, Calls, logVars, leaderVars, voteMsgs,
      history, faults, Follower

\* What a leader writes is the log of its term; other terms' stay.
LEMMA WriteEffect ==
    ASSUME TypeOK, NEW i \in Server, NEW l \in Seq(Entry), Write(i, l)
    PROVE  /\ DOMAIN written' = DOMAIN written \cup {currentTerm[i]}
           /\ written'[currentTerm[i]] = l
           /\ \A t \in DOMAIN written :
                 t # currentTerm[i] => written'[t] = written[t]
           /\ DOMAIN written' \subseteq Nat
           /\ \A t \in DOMAIN written' : written'[t] \in Seq(Entry)
BY DEF TypeOK, Write

\* _becomeLeader sets well-typed indexes and appends an entry.
LEMMA LeadType ==
    ASSUME TypeOK, NEW i \in Server, Lead(i)
    PROVE  /\ log' \in [Server -> Seq(Entry)] /\ durable' \in [Server -> Nat]
           /\ state' \in [Server -> {Follower, Candidate, Leader}]
           /\ votes' \in [Server -> SUBSET Server]
           /\ nextIndex' \in [Server -> [Server -> Nat \ {0}]]
           /\ matchIndex' \in [Server -> [Server -> Nat]]
           /\ leaders' \subseteq Nat \X Server
           /\ DOMAIN written' \subseteq Nat
           /\ \A t \in DOMAIN written' : written'[t] \in Seq(Entry)
           /\ rpc' \in Calls
<1> DEFINE l    == Append(log[i], [term |-> currentTerm[i], data |-> Noop])
           next == [j \in Server |-> Len(log[i]) + 1]
           none == [rpc EXCEPT ![i] = [j \in Server |-> Nil]]
<1>1. [term |-> currentTerm[i], data |-> Noop] \in Entry
  BY DEF TypeOK, Entry
<1>2. l \in Seq(Entry) /\ Len(l) \in Nat
  BY <1>1, AppendProperties DEF TypeOK
<1>3. next \in [Server -> Nat \ {0}]
  <2>1. Len(log[i]) \in Nat
    BY DEF TypeOK
  <2>2. QED
    BY <2>1
<1>4. none \in Calls
  BY DEF TypeOK, Calls
<1> HIDE DEF l, next, none
<1>5. Broadcast(i, none, l, next) \in Calls
  BY <1>2, <1>3, <1>4, BroadcastType
<1>6. rpc' \in Calls
  BY <1>4, <1>5 DEF Lead, l, next, none
<1>7. log' \in [Server -> Seq(Entry)] /\ durable' \in [Server -> Nat]
  BY <1>2 DEF Lead, l, TypeOK
<1>8. nextIndex' \in [Server -> [Server -> Nat \ {0}]]
  BY <1>3 DEF Lead, next, TypeOK
<1>9. /\ DOMAIN written' \subseteq Nat
      /\ \A t \in DOMAIN written' : written'[t] \in Seq(Entry)
  <2>1. Write(i, l)
    BY DEF Lead, l
  <2>2. QED
    BY <1>2, <2>1, WriteEffect
<1>10. /\ state' \in [Server -> {Follower, Candidate, Leader}]
       /\ votes' \in [Server -> SUBSET Server]
       /\ matchIndex' \in [Server -> [Server -> Nat]]
       /\ leaders' \subseteq Nat \X Server
  BY DEF Lead, TypeOK, Leader
<1>11. QED
  BY <1>6, <1>7, <1>8, <1>9, <1>10

\* Counting a vote keeps the types, whether it completes a quorum or not.
LEMMA CountVoteType ==
    ASSUME TypeOK, NEW i \in Server, NEW g \in grants, CountVote(i, g)
    PROVE  TypeOK'
<1>1. g.from \in Server
  BY DEF TypeOK, Grant
<1>2. CASE votes[i] \cup {g.from} \in Quorum
  BY <1>2, LeadType
  DEF CountVote, TypeOK, Calls, metaVars, voteMsgs, faults
<1>3. CASE votes[i] \cup {g.from} \notin Quorum
  <2>1. votes' = [votes EXCEPT ![i] = @ \cup {g.from}]
    BY <1>3 DEF CountVote
  <2>2. votes' \in [Server -> SUBSET Server]
    BY <1>1, <2>1 DEF TypeOK
  <2>3. UNCHANGED <<metaVars, logVars, state, paused, commitIndex, leaderVars,
                    rpc, voteMsgs, late, leaders, written, decided, faults>>
    BY <1>3 DEF CountVote
  <2>4. QED
    BY <2>2, <2>3
    DEF TypeOK, metaVars, logVars, leaderVars, voteMsgs, faults
<1>4. QED
  BY <1>2, <1>3

\* The heartbeat keeps the types.
LEMMA HeartbeatType ==
    ASSUME TypeOK, NEW i \in Server, Heartbeat(i)
    PROVE  TypeOK'
<1>1. rpc' \in Calls
  BY BroadcastType DEF TypeOK, Heartbeat, Calls
<1>2. QED
  BY <1>1
  DEF TypeOK, Heartbeat, Calls, metaVars, logVars, leaderVars, voteMsgs,
      history, faults

\* clientAppend keeps the types.
LEMMA ClientAppendType ==
    ASSUME TypeOK, NEW i \in Server, NEW c \in Command, ClientAppend(i, c)
    PROVE  TypeOK'
<1> DEFINE l == Append(log[i], [term |-> currentTerm[i], data |-> c])
<1>1. [term |-> currentTerm[i], data |-> c] \in Entry
  BY DEF TypeOK, Entry
<1>2. l \in Seq(Entry) /\ Len(l) \in Nat
  BY <1>1, AppendProperties DEF TypeOK
<1> HIDE DEF l
<1>3. rpc' \in Calls
  BY <1>2, BroadcastType DEF TypeOK, ClientAppend, Calls, l
<1>4. log' \in [Server -> Seq(Entry)] /\ durable' \in [Server -> Nat]
  BY <1>2 DEF TypeOK, ClientAppend, l
<1>5. /\ DOMAIN written' \subseteq Nat
      /\ \A t \in DOMAIN written' : written'[t] \in Seq(Entry)
  <2>1. Write(i, l)
    BY DEF ClientAppend, l
  <2>2. QED
    BY <1>2, <2>1, WriteEffect
<1>6. QED
  BY <1>3, <1>4, <1>5
  DEF TypeOK, ClientAppend, Calls, metaVars, leaderVars, voteMsgs, history,
      faults

\* An outstanding call has a request, a term and an index.
LEMMA CallType ==
    ASSUME TypeOK, NEW i \in Server, NEW j \in Server, rpc[i][j] # Nil
    PROVE  /\ rpc[i][j].request \in Request
           /\ rpc[i][j].term \in Nat /\ rpc[i][j].index \in Nat
<1>1. rpc[i][j] \in Call
  BY DEF TypeOK
<1>2. QED
  BY <1>1 DEF Call

\* A reply with a newer term keeps the types.
LEMMA AppendDeposedType ==
    ASSUME TypeOK, NEW i \in Server, NEW j \in Server, AppendDeposed(i, j)
    PROVE  TypeOK'
<1>1. [rpc EXCEPT ![i][j] = Nil] \in Calls
  BY DEF TypeOK, Calls
<1>2. QED
  BY <1>1, CallType, StepDownType DEF AppendDeposed

\* A success moves the indexes of the peer to natural numbers.
LEMMA AppendSucceededType ==
    ASSUME TypeOK, NEW i \in Server, NEW j \in Server, AppendSucceeded(i, j)
    PROVE  TypeOK'
<1> DEFINE match == Larger(matchIndex[i][j], rpc[i][j].index)
<1>1. match \in Nat
  BY CallType DEF AppendSucceeded, TypeOK, Larger
<1>2. [matchIndex[i] EXCEPT ![j] = match] \in [Server -> Nat]
  BY <1>1 DEF TypeOK
<1> HIDE DEF match
<1>3. /\ commitIndex' \in [Server -> Nat] /\ storedCommit' \in [Server -> Nat]
      /\ decided' \subseteq [index : Nat, entry : Entry, term : Nat]
  BY <1>2, AdvanceCommitType DEF AppendSucceeded, match, TypeOK
<1>4. /\ matchIndex' = [matchIndex EXCEPT ![i][j] = match]
      /\ nextIndex' = [nextIndex EXCEPT ![i][j] = match + 1]
      /\ rpc' = [rpc EXCEPT ![i][j] = Nil]
  BY DEF AppendSucceeded, match
<1>5. /\ matchIndex' \in [Server -> [Server -> Nat]]
      /\ nextIndex' \in [Server -> [Server -> Nat \ {0}]]
      /\ rpc' \in [Server -> [Server -> Call \cup {Nil}]]
  <2>1. match + 1 \in Nat \ {0}
    BY <1>1
  <2>2. QED
    BY <1>1, <1>4, <2>1 DEF TypeOK
<1>6. QED
  BY <1>3, <1>5 DEF TypeOK, AppendSucceeded, logVars, voteMsgs, faults

\* A refusal never moves a next index below the first entry.
LEMMA AppendRefusedType ==
    ASSUME TypeOK, NEW i \in Server, NEW j \in Server, AppendRefused(i, j)
    PROVE  TypeOK'
<1> DEFINE next == Backed(rpc[i][j].request.prev, rpc[i][j].index)
<1>1. rpc[i][j].request.prev \in Nat /\ rpc[i][j].index \in Nat
  BY CallType DEF AppendRefused, Request
<1>2. next \in Nat \ {0}
  BY <1>1 DEF Backed, Larger
<1> HIDE DEF next
<1>3. Sent(RequestTo(i, j, log[i], next)) \in Call
  BY <1>2, RequestToType, SentType DEF TypeOK
<1>4. /\ nextIndex' = [nextIndex EXCEPT ![i][j] = next]
      /\ rpc' = [rpc EXCEPT ![i][j] =
                    IF paused[i] THEN Nil
                    ELSE Sent(RequestTo(i, j, log[i], next))]
  BY DEF AppendRefused, next
<1>5. nextIndex' \in [Server -> [Server -> Nat \ {0}]]
  BY <1>2, <1>4 DEF TypeOK
<1>6. rpc' \in [Server -> [Server -> Call \cup {Nil}]]
  BY <1>3, <1>4 DEF TypeOK
<1>7. QED
  BY <1>5, <1>6
  DEF TypeOK, AppendRefused, metaVars, logVars, voteMsgs, history, faults

\* A call that times out keeps the types.
LEMMA CallEndsType ==
    ASSUME TypeOK, NEW i \in Server, NEW j \in Server, CallEnds(i, j)
    PROVE  TypeOK'
<1>1. rpc' \in Calls
  BY DEF TypeOK, Calls, CallEnds
<1>2. late' \subseteq Request
  <2>1. rpc[i][j].request \in Request
    BY CallType DEF CallEnds
  <2>2. late' = late \/ late' = late \cup {rpc[i][j].request}
    BY DEF CallEnds
  <2>3. QED
    BY <2>1, <2>2 DEF TypeOK
<1>3. QED
  BY <1>1, <1>2
  DEF TypeOK, CallEnds, Calls, metaVars, logVars, leaderVars, voteMsgs,
      history, faults

\* What every handler of a request leaves in the network.
LEMMA DeliveredType ==
    ASSUME TypeOK, NEW q \in InFlight, Delivered(q)
    PROVE  late' \subseteq Request
<1>1. q \in Request
  BY InFlightType
<1>2. QED
  BY <1>1 DEF TypeOK, Delivered

\* handleAppendEntries keeps the types when it rejects a request.
LEMMA RejectAppendType ==
    ASSUME TypeOK, NEW q \in InFlight, RejectAppend(q.to, q)
    PROVE  TypeOK'
<1>1. q \in Request /\ q.to \in Server
  BY InFlightType DEF Request
<1>2. currentTerm[q.to] \in Nat /\ Len(log[q.to]) + 1 \in Nat
  BY <1>1 DEF TypeOK
<1>3. rpc' \in Calls
  BY <1>1, <1>2, RepliedType DEF TypeOK, RejectAppend, Calls
<1>4. late' \subseteq Request
  BY DeliveredType DEF RejectAppend
<1>5. QED
  BY <1>3, <1>4
  DEF TypeOK, RejectAppend, Calls, metaVars, logVars, leaderVars, voteMsgs,
      history, faults

\* handleAppendEntries keeps the types when it asks for earlier entries.
LEMMA MismatchAppendType ==
    ASSUME TypeOK, NEW q \in InFlight, MismatchAppend(q.to, q)
    PROVE  TypeOK'
<1> DEFINE j == q.to
<1>1. q \in Request /\ j \in Server /\ q.term \in Nat /\ q.prev \in Nat
  BY InFlightType DEF Request
<1>2. q.prev # 0
  BY <1>1 DEF MismatchAppend, PrevMatches, TermAt, TypeOK, Request
<1>3. ConflictHint(log[j], q.prev) \in Nat
  BY <1>1, <1>2, EntryTerms, ConflictHintType DEF TypeOK
<1>4. CallsIn(rpc, j, q.term) \in Calls
  BY <1>1, CallsInType DEF TypeOK, Calls
<1>5. rpc' \in Calls
  BY <1>1, <1>3, <1>4, RepliedType DEF MismatchAppend
<1>6. late' \subseteq Request
  BY DeliveredType DEF MismatchAppend
<1>7. VoteIn(j, q.term) \in Server \cup {Nil}
  BY <1>1, VoteInType
<1>8. StoredIn(j, q.term) \in Nat
  BY <1>1 DEF TypeOK, StoredIn
<1>9. QED
  BY <1>1, <1>5, <1>6, <1>7, <1>8
  DEF TypeOK, MismatchAppend, BecomeFollower, Calls, logVars, leaderVars,
      voteMsgs, history, faults, Follower

\* handleAppendEntries keeps the types when it merges the entries.
LEMMA AcceptAppendType ==
    ASSUME TypeOK, NEW q \in InFlight, AcceptAppend(q.to, q)
    PROVE  TypeOK'
<1> DEFINE j       == q.to
           kept    == Kept(log[j], q.prev, q.entries)
           l       == Merge(log[j], q.prev, q.entries)
           flushed == DurableAfter(j, kept, l)
           match   == q.prev + Len(q.entries)
           commit  == CommitAfter(j, q)
           calls   == IF kept < Len(log[j]) /\ q.term = currentTerm[j]
                      THEN Revoked(rpc, j, q.term, kept + 1)
                      ELSE CallsIn(rpc, j, q.term)
<1>1. /\ q \in Request /\ j \in Server /\ q.term \in Nat
      /\ q.entries \in Seq(Entry) /\ log[j] \in Seq(Entry)
  BY InFlightType DEF Request, TypeOK
<1>2. q.prev \in 0..Len(log[j]) /\ match \in Nat
  BY <1>1 DEF AcceptAppend, PrevMatches, Request
<1>3. kept \in Nat
  BY <1>1, <1>2, KeptRange
<1>4. l \in Seq(Entry)
  BY <1>1, <1>2, MergeType
<1>5. flushed \in Nat
  BY <1>1, <1>3, <1>4 DEF DurableAfter, TypeOK
<1>6. commit \in Nat
  BY <1>1, <1>2 DEF CommitAfter, Larger, Smaller, TypeOK, Request
<1>7. calls \in Calls
  <2>1. rpc \in Calls /\ kept + 1 \in Nat
    BY <1>3 DEF TypeOK, Calls
  <2> HIDE DEF kept
  <2>2. Revoked(rpc, j, q.term, kept + 1) \in Calls
    BY <1>1, <2>1, RevokedType
  <2>3. CallsIn(rpc, j, q.term) \in Calls
    BY <1>1, <2>1, CallsInType
  <2>4. QED
    BY <2>2, <2>3
<1>8. AckStatus(match, flushed) \in {"sent", "held", "acked", "refused"}
  BY DEF AckStatus
<1>9. VoteIn(j, q.term) \in Server \cup {Nil} /\ StoredIn(j, q.term) \in Nat
  BY <1>1, VoteInType DEF StoredIn, TypeOK
<1>10. late' \subseteq Request
  BY DeliveredType DEF AcceptAppend
<1>11. /\ BecomeFollower(j, q.term, VoteIn(j, q.term))
       /\ log' = [log EXCEPT ![j] = l]
       /\ durable' = [durable EXCEPT ![j] = flushed]
       /\ commitIndex' = [commitIndex EXCEPT ![j] = commit]
       /\ storedCommit' = [storedCommit EXCEPT ![j] =
             IF ~GroupCommit /\ commit > commitIndex[j] THEN commit
             ELSE StoredIn(j, q.term)]
       /\ rpc' = Replied(calls, q, AckStatus(match, flushed), q.term, match)
       /\ UNCHANGED <<paused, leaderVars, voteMsgs, history, faults>>
  BY DEF AcceptAppend
<1> HIDE DEF j, kept, l, flushed, match, commit, calls
<1>12. rpc' \in [Server -> [Server -> Call \cup {Nil}]]
  BY <1>1, <1>2, <1>7, <1>8, <1>11, RepliedType DEF Calls
<1>13. QED
  BY <1>1, <1>4, <1>5, <1>6, <1>9, <1>10, <1>11, <1>12
  DEF TypeOK, BecomeFollower, leaderVars, voteMsgs, history, faults, Follower

\* _flushLog keeps the types.
LEMMA FlushType ==
    ASSUME TypeOK, NEW i \in Server, Flush(i)
    PROVE  TypeOK'
<1>1. Len(log[i]) \in Nat /\ matchIndex[i] \in [Server -> Nat]
  BY DEF TypeOK
<1>2. /\ commitIndex' \in [Server -> Nat] /\ storedCommit' \in [Server -> Nat]
      /\ decided' \subseteq [index : Nat, entry : Entry, term : Nat]
  BY <1>1, AdvanceCommitType DEF Flush
<1>3. ASSUME NEW k \in Server, NEW j \in Server, IsHeld(rpc[k][j])
      PROVE  [rpc[k][j] EXCEPT !.status = "acked"] \in Call
  <2>1. rpc[k][j] \in Call
    BY <1>3 DEF TypeOK, IsHeld
  <2>2. QED
    BY <2>1 DEF Call
<1>4. CASE paused[i]
  <2>1. rpc' \in Calls
    <3>1. rpc \in Calls /\ currentTerm[i] \in Nat /\ Len(log[i]) + 1 \in Nat
      BY <1>1 DEF TypeOK, Calls
    <3>2. rpc' = Revoked(rpc, i, currentTerm[i], Len(log[i]) + 1)
      BY <1>4 DEF Flush
    <3>3. QED
      BY <3>1, <3>2, RevokedType
  <2>2. QED
    BY <1>1, <1>2, <2>1
    DEF TypeOK, Flush, Calls, leaderVars, voteMsgs, faults
<1>5. CASE ~paused[i]
  <2>1. rpc' \in [Server -> [Server -> Call \cup {Nil}]]
    BY <1>3, <1>5 DEF Flush, TypeOK
  <2>2. QED
    BY <1>1, <1>2, <2>1 DEF TypeOK, Flush, leaderVars, voteMsgs, faults
<1>6. QED
  BY <1>4, <1>5

\* The lazy write of the commit index keeps the types.
LEMMA StoreCommitType ==
    ASSUME TypeOK, NEW i \in Server, StoreCommit(i)
    PROVE  TypeOK'
BY DEF TypeOK, StoreCommit, logVars, leaderVars, voteMsgs, history, faults

\* A crash and restart finds a log and a commit index on disk.
LEMMA RestartType ==
    ASSUME TypeOK, NEW i \in Server, Restart(i)
    PROVE  TypeOK'
<1>1. PICK kept \in durable[i]..Len(log[i]) :
          /\ log' = [log EXCEPT ![i] = SubSeq(@, 1, kept)]
          /\ durable' = [durable EXCEPT ![i] = kept]
          /\ commitIndex' = [commitIndex EXCEPT ![i] =
                               Smaller(storedCommit[i], kept)]
          /\ nextIndex' = [nextIndex EXCEPT ![i] = [j \in Server |-> kept + 1]]
  BY DEF Restart
<1>2. kept \in 0..Len(log[i]) /\ kept + 1 \in Nat \ {0}
  BY DEF TypeOK
<1>3. SubSeq(log[i], 1, kept) \in Seq(Entry)
  BY <1>2, SubSeqProperties DEF TypeOK
<1>4. Smaller(storedCommit[i], kept) \in Nat
  BY <1>2 DEF TypeOK, Smaller
<1>5. /\ log' \in [Server -> Seq(Entry)] /\ durable' \in [Server -> Nat]
      /\ commitIndex' \in [Server -> Nat]
      /\ nextIndex' \in [Server -> [Server -> Nat \ {0}]]
  BY <1>1, <1>2, <1>3, <1>4 DEF TypeOK
<1>6. rpc' \in [Server -> [Server -> Call \cup {Nil}]]
  BY DEF Restart, TypeOK
<1>7. /\ matchIndex' \in [Server -> [Server -> Nat]]
      /\ state' \in [Server -> {Follower, Candidate, Leader}]
      /\ paused' \in [Server -> BOOLEAN]
      /\ votes' \in [Server -> SUBSET Server]
      /\ restarts' \in Nat
  BY DEF TypeOK, Restart, Follower
<1>8. UNCHANGED <<metaVars, voteMsgs, late, history, pauses>>
  BY DEF Restart
<1>9. QED
  BY <1>5, <1>6, <1>7, <1>8 DEF TypeOK, metaVars, voteMsgs, history

\* pause() keeps the types.
LEMMA PauseType ==
    ASSUME TypeOK, NEW i \in Server, Pause(i)
    PROVE  TypeOK'
<1>1. /\ paused' \in [Server -> BOOLEAN]
      /\ state' \in [Server -> {Follower, Candidate, Leader}]
      /\ pauses' \in Nat
  BY DEF TypeOK, Pause, Follower
<1>2. UNCHANGED <<metaVars, logVars, votes, commitIndex, leaderVars, rpc,
                  voteMsgs, late, history, restarts>>
  BY DEF Pause
<1>3. QED
  BY <1>1, <1>2
  DEF TypeOK, metaVars, logVars, leaderVars, voteMsgs, history

\* resume() keeps the types.
LEMMA ResumeType ==
    ASSUME TypeOK, NEW i \in Server, Resume(i)
    PROVE  TypeOK'
BY DEF TypeOK, Resume, metaVars, logVars, leaderVars, voteMsgs, history,
       faults, Follower

-----------------------------------------------------------------------------
\* Every turn of the event loop keeps the types.
LEMMA NextTypeOK == TypeOK /\ [Next]_vars => TypeOK'
<1> SUFFICES ASSUME TypeOK, [Next]_vars
             PROVE  TypeOK'
  OBVIOUS
<1>1. CASE ElectionStep
  <2>1. ASSUME NEW i \in Server, NEW b \in ballots, NEW j \in Server,
               LearnTerm(i, b, j)
        PROVE  TypeOK'
    <3>1. PICK T \in (Larger(b.term, currentTerm[i]) + 1)..currentTerm[j] :
             StepDown(i, T, rpc)
      BY <2>1 DEF LearnTerm
    <3>2. b.term \in Nat /\ rpc \in Calls /\ currentTerm[i] \in Nat
      BY DEF TypeOK, Ballot, Calls
    <3>3. T \in Nat
      BY <3>1, <3>2 DEF Larger
    <3>4. QED
      BY <3>1, <3>2, <3>3, StepDownType
  <2>2. ASSUME NEW j \in Server, NEW b \in ballots, RefuseVote(j, b)
        PROVE  TypeOK'
    <3>1. b.term \in Nat /\ rpc \in Calls
      BY DEF TypeOK, Ballot, Calls
    <3>2. QED
      BY <2>2, <3>1, StepDownType DEF RefuseVote
  <2>3. QED
    BY <1>1, <2>1, <2>2, StartElectionType, GrantVoteType, CountVoteType
    DEF ElectionStep
<1>2. CASE LeaderStep
  BY <1>2, HeartbeatType, ClientAppendType, AppendDeposedType,
     AppendSucceededType, AppendRefusedType, CallEndsType DEF LeaderStep
<1>3. CASE FollowerStep
  BY <1>3, RejectAppendType, MismatchAppendType, AcceptAppendType
  DEF FollowerStep
<1>4. CASE DiskStep
  BY <1>4, FlushType, StoreCommitType DEF DiskStep
<1>5. CASE FaultStep
  BY <1>5, RestartType, PauseType, ResumeType DEF FaultStep
<1>6. CASE UNCHANGED vars
  BY <1>6 DEF TypeOK, vars
<1>7. QED
  BY <1>1, <1>2, <1>3, <1>4, <1>5, <1>6 DEF Next

\* The variables of every server stay in their types, whatever the number of
\* voters, terms, messages and failures: in particular a leader's next index
\* never falls below the first entry, however far refusals push it back.
THEOREM TypeCorrect == Spec => []TypeOK
<1>1. QED
  BY InitTypeOK, NextTypeOK, PTL DEF Spec

-----------------------------------------------------------------------------
(***************************************************************************)
(* Election safety. A server supports a candidate in a term by asking for  *)
(* votes itself or by granting its vote. What makes the argument go        *)
(* through is that the metadata file remembers the support a server gave   *)
(* in its current term, and forgets it only for a later term.              *)
(***************************************************************************)

Supports(v, c, t) ==
    \/ v = c /\ \E b \in ballots : b.from = c /\ b.term = t
    \/ \E g \in grants : g.from = v /\ g.to = c /\ g.term = t

\* The metadata file of a supporter.
SupportRemembered ==
    \A v, c \in Server : \A t \in Nat : Supports(v, c, t) =>
        /\ t <= currentTerm[v]
        /\ t = currentTerm[v] => votedFor[v] = c

SupportsOne ==
    \A v, c, d \in Server : \A t \in Nat :
        Supports(v, c, t) /\ Supports(v, d, t) => c = d

VotesSupported ==
    \A i \in Server : state[i] = Candidate =>
        \A v \in votes[i] : Supports(v, i, currentTerm[i])

LeadersElected ==
    \A l \in leaders : \E Q \in Quorum : \A v \in Q : Supports(v, l[2], l[1])

ElectionInv ==
    /\ SupportRemembered /\ SupportsOne
    /\ VotesSupported /\ LeadersElected

-----------------------------------------------------------------------------
\* What a step may do to the term and vote of a server.
VoteKept ==
    \A i \in Server :
        /\ currentTerm'[i] >= currentTerm[i]
        /\ currentTerm'[i] = currentTerm[i] /\ votedFor[i] # Nil =>
              votedFor'[i] = votedFor[i]

\* A write of the metadata file that raises the term, or keeps the term and
\* the vote if there is one, withdraws no vote.
LEMMA ChangeKeepsVote ==
    ASSUME TypeOK, NEW i \in Server, NEW T \in Nat, NEW v,
           currentTerm' = [currentTerm EXCEPT ![i] = T],
           votedFor' = [votedFor EXCEPT ![i] = v],
           T >= currentTerm[i],
           T = currentTerm[i] /\ votedFor[i] # Nil => v = votedFor[i]
    PROVE  VoteKept
<1> SUFFICES ASSUME NEW k \in Server
             PROVE  /\ currentTerm'[k] >= currentTerm[k]
                    /\ currentTerm'[k] = currentTerm[k] /\ votedFor[k] # Nil =>
                          votedFor'[k] = votedFor[k]
  BY DEF VoteKept
<1>1. currentTerm[k] \in Nat
  BY DEF TypeOK
<1>2. CASE k = i
  BY <1>2 DEF TypeOK
<1>3. CASE k # i
  BY <1>1, <1>3 DEF TypeOK
<1>4. QED
  BY <1>2, <1>3

\* _becomeFollower withdraws no vote of the term it ends up in.
LEMMA BecomeFollowerKeepsVote ==
    ASSUME TypeOK, NEW i \in Server, NEW T \in Nat, T >= currentTerm[i],
           BecomeFollower(i, T, VoteIn(i, T))
    PROVE  VoteKept
<1>1. currentTerm[i] \in Nat
  BY DEF TypeOK
<1>2. T = currentTerm[i] => VoteIn(i, T) = votedFor[i]
  BY <1>1 DEF VoteIn
<1>3. QED
  BY <1>2, ChangeKeepsVote DEF BecomeFollower

\* Adopting a newer term withdraws no vote of that term.
LEMMA StepDownKeepsVote ==
    ASSUME TypeOK, NEW i \in Server, NEW T \in Nat, T > currentTerm[i],
           NEW calls, StepDown(i, T, calls)
    PROVE  VoteKept
<1>1. currentTerm[i] \in Nat
  BY DEF TypeOK
<1>2. T >= currentTerm[i] /\ T # currentTerm[i]
  BY <1>1
<1>3. QED
  BY <1>2, ChangeKeepsVote DEF StepDown, BecomeFollower

\* A step that does not write the metadata file withdraws no vote.
LEMMA UnchangedMetaKeepsVote ==
    ASSUME TypeOK, UNCHANGED <<currentTerm, votedFor>>
    PROVE  VoteKept
BY DEF TypeOK, VoteKept

\* No turn of the event loop, crash or pause withdraws a vote.
LEMMA NextKeepsVote == TypeOK /\ [Next]_vars => VoteKept
<1> SUFFICES ASSUME TypeOK, [Next]_vars
             PROVE  VoteKept
  OBVIOUS
<1>1. CASE ElectionStep
  <2>1. ASSUME NEW i \in Server, StartElection(i)
        PROVE  VoteKept
    <3>1. /\ currentTerm[i] \in Nat /\ currentTerm[i] + 1 \in Nat
          /\ currentTerm[i] + 1 >= currentTerm[i]
          /\ currentTerm[i] + 1 # currentTerm[i]
      BY DEF TypeOK
    <3>2. QED
      BY <2>1, <3>1, ChangeKeepsVote DEF StartElection
  <2>2. ASSUME NEW j \in Server, NEW b \in ballots, GrantVote(j, b)
        PROVE  VoteKept
    <3>1. b.term \in Nat /\ currentTerm[j] \in Nat
      BY DEF TypeOK, Ballot
    <3>2. b.term = currentTerm[j] /\ votedFor[j] # Nil => b.from = votedFor[j]
      BY <2>2, <3>1 DEF GrantVote, CanVote, VoteIn
    <3>3. QED
      BY <2>2, <3>1, <3>2, ChangeKeepsVote DEF GrantVote, BecomeFollower
  <2>3. ASSUME NEW j \in Server, NEW b \in ballots, RefuseVote(j, b)
        PROVE  VoteKept
    BY <2>3, StepDownKeepsVote DEF TypeOK, Ballot, RefuseVote
  <2>4. ASSUME NEW i \in Server, NEW b \in ballots, NEW j \in Server,
               LearnTerm(i, b, j)
        PROVE  VoteKept
    <3>1. PICK T \in (Larger(b.term, currentTerm[i]) + 1)..currentTerm[j] :
             StepDown(i, T, rpc)
      BY <2>4 DEF LearnTerm
    <3>2. b.term \in Nat /\ currentTerm[i] \in Nat
      BY DEF TypeOK, Ballot
    <3>3. T \in Nat /\ T > currentTerm[i]
      BY <3>1, <3>2 DEF Larger
    <3>4. QED
      BY <3>1, <3>3, StepDownKeepsVote
  <2>5. ASSUME NEW i \in Server, NEW g \in grants, CountVote(i, g)
        PROVE  VoteKept
    BY <2>5, UnchangedMetaKeepsVote DEF CountVote, metaVars
  <2>6. QED
    BY <1>1, <2>1, <2>2, <2>3, <2>4, <2>5 DEF ElectionStep
<1>2. CASE LeaderStep
  <2>1. ASSUME NEW i \in Server, NEW j \in Server, AppendDeposed(i, j)
        PROVE  VoteKept
    BY <2>1, CallType, StepDownKeepsVote DEF TypeOK, AppendDeposed
  <2>2. ASSUME NEW i \in Server, NEW j \in Server, NEW c \in Command,
               \/ Heartbeat(i) \/ ClientAppend(i, c) \/ AppendSucceeded(i, j)
               \/ AppendRefused(i, j) \/ CallEnds(i, j)
        PROVE  UNCHANGED <<currentTerm, votedFor>>
    BY <2>2 DEF Heartbeat, ClientAppend, AppendSucceeded, AppendRefused,
                CallEnds, metaVars
  <2>3. ASSUME NEW i \in Server, NEW j \in Server,
               \/ Heartbeat(i) \/ AppendSucceeded(i, j)
               \/ AppendRefused(i, j) \/ CallEnds(i, j)
        PROVE  UNCHANGED <<currentTerm, votedFor>>
    BY <2>3 DEF Heartbeat, AppendSucceeded, AppendRefused, CallEnds, metaVars
  <2>4. QED
    BY <1>2, <2>1, <2>2, <2>3, UnchangedMetaKeepsVote DEF LeaderStep
<1>3. CASE FollowerStep
  <2>1. PICK q \in InFlight : \/ RejectAppend(q.to, q)
                              \/ MismatchAppend(q.to, q)
                              \/ AcceptAppend(q.to, q)
    BY <1>3 DEF FollowerStep
  <2>2. q.to \in Server /\ q.term \in Nat
    BY InFlightType DEF Request
  <2>3. CASE RejectAppend(q.to, q)
    BY <2>3, UnchangedMetaKeepsVote DEF RejectAppend, metaVars
  <2>4. CASE MismatchAppend(q.to, q) \/ AcceptAppend(q.to, q)
    <3>1. /\ q.term >= currentTerm[q.to]
          /\ BecomeFollower(q.to, q.term, VoteIn(q.to, q.term))
      BY <2>4 DEF MismatchAppend, AcceptAppend
    <3>2. QED
      BY <2>2, <3>1, BecomeFollowerKeepsVote
  <2>5. QED
    BY <2>1, <2>3, <2>4
<1>4. CASE DiskStep
  BY <1>4, UnchangedMetaKeepsVote DEF DiskStep, Flush, StoreCommit
<1>5. CASE FaultStep
  BY <1>5, UnchangedMetaKeepsVote
  DEF FaultStep, Restart, Pause, Resume, metaVars
<1>6. CASE UNCHANGED vars
  BY <1>6, UnchangedMetaKeepsVote DEF vars
<1>7. QED
  BY <1>1, <1>2, <1>3, <1>4, <1>5, <1>6 DEF Next

\* No interleaving of handlers, late messages, pauses and crashes makes a
\* server withdraw or change its vote within a term, or go back to an earlier
\* term: _becomeFollower clears the vote with a new term only, and the vote is
\* on disk before handleRequestVote returns.
THEOREM VoteFinal == Spec => VoteIsFinal
<1>1. TypeOK /\ [Next]_vars
        => [\A i \in Server :
              /\ currentTerm'[i] >= currentTerm[i]
              /\ currentTerm'[i] = currentTerm[i] /\ votedFor[i] # Nil =>
                    votedFor'[i] = votedFor[i]]_<<currentTerm, votedFor>>
  BY NextKeepsVote DEF VoteKept
<1>2. QED
  BY <1>1, TypeCorrect, PTL DEF Spec, VoteIsFinal

-----------------------------------------------------------------------------
\* Most steps cast no vote, elect nobody and leave candidates alone.
NoElection ==
    /\ UNCHANGED <<ballots, grants, leaders>>
    /\ \A i \in Server : state'[i] = Candidate =>
          /\ state[i] = Candidate
          /\ votes'[i] = votes[i] /\ currentTerm'[i] = currentTerm[i]

\* _becomeFollower ends a candidacy and starts none.
LEMMA BecomeFollowerNoElection ==
    ASSUME TypeOK, NEW i \in Server, NEW T, NEW v, BecomeFollower(i, T, v),
           UNCHANGED <<ballots, grants, leaders>>
    PROVE  NoElection
BY DEF TypeOK, BecomeFollower, NoElection, Follower, Candidate

\* A step that touches no election state is no election step.
LEMMA UnchangedNoElection ==
    ASSUME UNCHANGED <<ballots, grants, leaders, state, votes, currentTerm>>
    PROVE  NoElection
BY DEF NoElection

\* Adopting a newer term is no election step.
LEMMA StepDownNoElection ==
    ASSUME TypeOK, NEW i \in Server, NEW T, NEW calls, StepDown(i, T, calls)
    PROVE  NoElection
BY BecomeFollowerNoElection DEF StepDown, voteMsgs, history

\* Nothing a leader does is an election step.
LEMMA LeaderStepNoElection ==
    ASSUME TypeOK, LeaderStep
    PROVE  NoElection
<1>1. ASSUME NEW i \in Server, NEW j \in Server, AppendDeposed(i, j)
      PROVE  NoElection
  BY <1>1, StepDownNoElection DEF AppendDeposed
<1>2. ASSUME NEW i \in Server, NEW c \in Command, ClientAppend(i, c)
      PROVE  NoElection
  BY <1>2, UnchangedNoElection DEF ClientAppend, metaVars, voteMsgs, history
<1>3. ASSUME NEW i \in Server, NEW j \in Server,
             \/ Heartbeat(i) \/ AppendSucceeded(i, j)
             \/ AppendRefused(i, j) \/ CallEnds(i, j)
      PROVE  NoElection
  BY <1>3, UnchangedNoElection
  DEF Heartbeat, AppendSucceeded, AppendRefused, CallEnds, metaVars, voteMsgs,
      history
<1>4. QED
  BY <1>1, <1>2, <1>3 DEF LeaderStep

\* Nothing handleAppendEntries does is an election step.
LEMMA FollowerStepNoElection ==
    ASSUME TypeOK, FollowerStep
    PROVE  NoElection
<1>1. PICK q \in InFlight : \/ RejectAppend(q.to, q)
                            \/ MismatchAppend(q.to, q)
                            \/ AcceptAppend(q.to, q)
  BY DEF FollowerStep
<1>2. q.to \in Server
  BY InFlightType DEF Request
<1>3. CASE RejectAppend(q.to, q)
  BY <1>3, UnchangedNoElection DEF RejectAppend, metaVars, voteMsgs, history
<1>4. CASE MismatchAppend(q.to, q) \/ AcceptAppend(q.to, q)
  BY <1>2, <1>4, BecomeFollowerNoElection
  DEF MismatchAppend, AcceptAppend, voteMsgs, history
<1>5. QED
  BY <1>1, <1>3, <1>4

\* A crash, a pause or a resumption is no election step.
LEMMA FaultStepNoElection ==
    ASSUME TypeOK, FaultStep
    PROVE  NoElection
<1>1. ASSUME NEW i \in Server, Restart(i) \/ Resume(i)
      PROVE  NoElection
  BY <1>1
  DEF TypeOK, Restart, Resume, NoElection, Follower, Candidate, metaVars,
      voteMsgs, history
<1>2. ASSUME NEW i \in Server, Pause(i)
      PROVE  NoElection
  <2>1. UNCHANGED <<ballots, grants, leaders, votes, currentTerm>>
    BY <1>2 DEF Pause, metaVars, voteMsgs, history
  <2>2. \A k \in Server : state'[k] = Candidate => state[k] = Candidate
    BY <1>2 DEF TypeOK, Pause, Follower, Candidate
  <2>3. QED
    BY <2>1, <2>2 DEF NoElection
<1>3. QED
  BY <1>1, <1>2 DEF FaultStep


\* Steps that are no election steps keep the election invariant, because no
\* vote is withdrawn.
LEMMA NoElectionInv ==
    ASSUME TypeOK, TypeOK', ElectionInv, VoteKept, NoElection
    PROVE  ElectionInv'
<1>1. \A v, c, t : Supports(v, c, t)' <=> Supports(v, c, t)
  BY DEF NoElection, Supports
<1>2. SupportRemembered'
  <2> SUFFICES ASSUME NEW v \in Server, NEW c \in Server, NEW t \in Nat,
                      Supports(v, c, t)
               PROVE  /\ t <= currentTerm'[v]
                      /\ t = currentTerm'[v] => votedFor'[v] = c
    BY <1>1 DEF SupportRemembered
  <2>1. t <= currentTerm[v] /\ (t = currentTerm[v] => votedFor[v] = c)
    BY DEF ElectionInv, SupportRemembered
  <2>2. /\ currentTerm[v] \in Nat /\ currentTerm'[v] >= currentTerm[v]
        /\ currentTerm'[v] = currentTerm[v] /\ votedFor[v] # Nil =>
              votedFor'[v] = votedFor[v]
    BY DEF TypeOK, VoteKept
  <2>3. CASE currentTerm'[v] = currentTerm[v]
    BY <2>1, <2>2, <2>3, NilAssumption
  <2>4. CASE currentTerm'[v] # currentTerm[v]
    <3>1. currentTerm'[v] \in Nat
      BY DEF TypeOK
    <3>2. t < currentTerm'[v]
      BY <2>1, <2>2, <2>4, <3>1
    <3>3. QED
      BY <3>1, <3>2
  <2>5. QED
    BY <2>3, <2>4
<1>3. SupportsOne'
  BY <1>1 DEF ElectionInv, SupportsOne
<1>4. VotesSupported'
  BY <1>1 DEF ElectionInv, VotesSupported, NoElection
<1>5. LeadersElected'
  <2>1. leaders' = leaders
    BY DEF NoElection
  <2>2. QED
    BY <1>1, <2>1 DEF ElectionInv, LeadersElected
<1>6. QED
  BY <1>2, <1>3, <1>4, <1>5 DEF ElectionInv

-----------------------------------------------------------------------------
\* _startElection keeps it: the term is new to the candidate, so no earlier
\* ballot or vote of its own is for that term.
LEMMA StartElectionInv ==
    ASSUME TypeOK, ElectionInv, NEW i \in Server, StartElection(i)
    PROVE  ElectionInv'
<1> DEFINE T == currentTerm[i] + 1
<1>1. /\ currentTerm[i] \in Nat /\ T \in Nat
      /\ currentTerm' = [currentTerm EXCEPT ![i] = T]
      /\ votedFor' = [votedFor EXCEPT ![i] = i]
      /\ state' = [state EXCEPT ![i] = Candidate]
      /\ votes' = [votes EXCEPT ![i] = {i}]
      /\ UNCHANGED <<grants, leaders>>
  BY DEF TypeOK, StartElection, history
<1>2. PICK n : n.from = i /\ n.term = T /\ ballots' = ballots \cup {n}
  BY DEF StartElection
\* The only new support is that of i for itself, in a term nobody was in.
<1>3. \A v, c, t : Supports(v, c, t)' <=>
         Supports(v, c, t) \/ (v = i /\ c = i /\ t = T)
  BY <1>1, <1>2 DEF Supports
<1>4. \A c \in Server : ~ Supports(i, c, T)
  BY <1>1 DEF ElectionInv, SupportRemembered
<1> HIDE DEF T
<1>5. SupportRemembered'
  <2> SUFFICES ASSUME NEW v \in Server, NEW c \in Server, NEW t \in Nat,
                      Supports(v, c, t)'
               PROVE  /\ t <= currentTerm'[v]
                      /\ t = currentTerm'[v] => votedFor'[v] = c
    BY DEF SupportRemembered
  <2>1. CASE v # i
    <3>1. Supports(v, c, t)
      BY <1>3, <2>1
    <3>2. QED
      BY <1>1, <2>1, <3>1 DEF TypeOK, ElectionInv, SupportRemembered
  <2>2. CASE v = i /\ Supports(v, c, t)
    <3>1. t <= currentTerm[i]
      BY <2>2 DEF ElectionInv, SupportRemembered
    <3>2. currentTerm'[i] = T /\ t < T
      BY <1>1, <3>1 DEF TypeOK, T
    <3>3. QED
      BY <1>1, <2>2, <3>2
  <2>3. CASE v = i /\ c = i /\ t = T
    BY <1>1, <2>3 DEF TypeOK
  <2>4. QED
    BY <1>3, <2>1, <2>2, <2>3
<1>6. SupportsOne'
  <2> SUFFICES ASSUME NEW v \in Server, NEW c \in Server, NEW d \in Server,
                      NEW t \in Nat, Supports(v, c, t)', Supports(v, d, t)'
               PROVE  c = d
    BY DEF SupportsOne
  <2>1. CASE v = i /\ t = T
    BY <1>3, <1>4, <2>1
  <2>2. CASE ~ (v = i /\ t = T)
    BY <1>3, <2>2 DEF ElectionInv, SupportsOne
  <2>3. QED
    BY <2>1, <2>2
<1>7. VotesSupported'
  <2> SUFFICES ASSUME NEW k \in Server, state'[k] = Candidate,
                      NEW v \in votes'[k]
               PROVE  Supports(v, k, currentTerm[k])'
    BY DEF VotesSupported
  <2>1. CASE k = i
    <3>1. v = i /\ currentTerm'[k] = T
      BY <1>1, <2>1 DEF TypeOK
    <3>2. QED
      BY <1>3, <2>1, <3>1
  <2>2. CASE k # i
    <3>1. state[k] = Candidate /\ v \in votes[k] /\ currentTerm'[k] = currentTerm[k]
      BY <1>1, <2>2 DEF TypeOK
    <3>2. Supports(v, k, currentTerm[k])
      BY <3>1 DEF ElectionInv, VotesSupported
    <3>3. QED
      BY <1>3, <3>1, <3>2
  <2>3. QED
    BY <2>1, <2>2
<1>8. LeadersElected'
  BY <1>1, <1>3 DEF ElectionInv, LeadersElected
<1>9. QED
  BY <1>5, <1>6, <1>7, <1>8 DEF ElectionInv

\* handleRequestVote keeps it: the vote is the voter's first in the term, or
\* for the same candidate.
LEMMA GrantVoteInv ==
    ASSUME TypeOK, ElectionInv, NEW j \in Server, NEW b \in ballots,
           GrantVote(j, b)
    PROVE  ElectionInv'
<1> DEFINE T == b.term
           n == [from |-> j, to |-> b.from, term |-> b.term]
<1>1. /\ T \in Nat /\ b.from \in Server /\ j # b.from
      /\ currentTerm[j] \in Nat /\ T >= currentTerm[j]
      /\ currentTerm' = [currentTerm EXCEPT ![j] = T]
      /\ votedFor' = [votedFor EXCEPT ![j] = b.from]
      /\ state' = [state EXCEPT ![j] = Follower]
      /\ votes' = [votes EXCEPT ![j] = {}]
      /\ grants' = grants \cup {n}
      /\ UNCHANGED <<ballots, leaders>>
  BY DEF TypeOK, Ballot, GrantVote, BecomeFollower, history
\* The only new support is that of j for the candidate that asked.
<1>2. \A v, c, t : Supports(v, c, t)' <=>
         Supports(v, c, t) \/ (v = j /\ c = b.from /\ t = T)
  <2>1. n.from = j /\ n.to = b.from /\ n.term = T
    OBVIOUS
  <2> HIDE DEF n, T
  <2>2. QED
    BY <1>1, <2>1 DEF Supports
\* j has given no other support in this term: it would remember.
<1>3. \A c \in Server : Supports(j, c, T) => c = b.from
  <2> SUFFICES ASSUME NEW c \in Server, Supports(j, c, T)
               PROVE  c = b.from
    OBVIOUS
  <2>1. T <= currentTerm[j] /\ (T = currentTerm[j] => votedFor[j] = c)
    BY <1>1 DEF ElectionInv, SupportRemembered
  <2>2. T = currentTerm[j] /\ votedFor[j] = c
    BY <1>1, <2>1
  <2>3. votedFor[j] \in {Nil, b.from}
    BY <1>1, <2>2 DEF GrantVote, CanVote, VoteIn
  <2>4. QED
    BY <2>2, <2>3, NilAssumption
<1> HIDE DEF T, n
<1>4. SupportRemembered'
  <2> SUFFICES ASSUME NEW v \in Server, NEW c \in Server, NEW t \in Nat,
                      Supports(v, c, t)'
               PROVE  /\ t <= currentTerm'[v]
                      /\ t = currentTerm'[v] => votedFor'[v] = c
    BY DEF SupportRemembered
  <2>1. CASE v # j
    <3>1. Supports(v, c, t)
      BY <1>2, <2>1
    <3>2. QED
      BY <1>1, <2>1, <3>1 DEF TypeOK, ElectionInv, SupportRemembered
  <2>2. CASE v = j
    <3>1. currentTerm'[j] = T /\ votedFor'[j] = b.from
      BY <1>1 DEF TypeOK
    <3>2. CASE Supports(j, c, t)
      <4>1. t <= currentTerm[j]
        BY <3>2 DEF ElectionInv, SupportRemembered
      <4>2. t = T => c = b.from
        BY <1>3, <3>2
      <4>3. QED
        BY <1>1, <2>2, <3>1, <4>1, <4>2
    <3>3. CASE c = b.from /\ t = T
      BY <1>1, <2>2, <3>1, <3>3
    <3>4. QED
      BY <1>2, <2>2, <3>2, <3>3
  <2>3. QED
    BY <2>1, <2>2
<1>5. SupportsOne'
  <2> SUFFICES ASSUME NEW v \in Server, NEW c \in Server, NEW d \in Server,
                      NEW t \in Nat, Supports(v, c, t)', Supports(v, d, t)'
               PROVE  c = d
    BY DEF SupportsOne
  <2>1. CASE v = j /\ t = T
    BY <1>2, <1>3, <2>1
  <2>2. CASE ~ (v = j /\ t = T)
    BY <1>2, <2>2 DEF ElectionInv, SupportsOne
  <2>3. QED
    BY <2>1, <2>2
<1>6. VotesSupported'
  <2> SUFFICES ASSUME NEW k \in Server, state'[k] = Candidate,
                      NEW v \in votes'[k]
               PROVE  Supports(v, k, currentTerm[k])'
    BY DEF VotesSupported
  <2>1. k # j
    BY <1>1 DEF TypeOK, Follower, Candidate
  <2>2. state[k] = Candidate /\ v \in votes[k] /\ currentTerm'[k] = currentTerm[k]
    BY <1>1, <2>1 DEF TypeOK
  <2>3. Supports(v, k, currentTerm[k])
    BY <2>2 DEF ElectionInv, VotesSupported
  <2>4. QED
    BY <1>2, <2>2, <2>3
<1>7. LeadersElected'
  BY <1>1, <1>2 DEF ElectionInv, LeadersElected
<1>8. QED
  BY <1>4, <1>5, <1>6, <1>7 DEF ElectionInv

\* Counting a vote keeps it, and so does the leadership a quorum makes.
LEMMA CountVoteInv ==
    ASSUME TypeOK, ElectionInv, NEW i \in Server, NEW g \in grants,
           CountVote(i, g)
    PROVE  ElectionInv'
<1> DEFINE Q == votes[i] \cup {g.from}
<1>1. /\ UNCHANGED <<ballots, grants, currentTerm, votedFor>>
      /\ state[i] = Candidate /\ g.to = i /\ g.term = currentTerm[i]
  BY DEF CountVote, metaVars, voteMsgs
<1>2. \A v, c, t : Supports(v, c, t)' <=> Supports(v, c, t)
  BY <1>1 DEF Supports
<1>3. \A v \in Q : Supports(v, i, currentTerm[i])
  <2>1. Supports(g.from, i, currentTerm[i])
    BY <1>1 DEF Supports
  <2>2. \A v \in votes[i] : Supports(v, i, currentTerm[i])
    BY <1>1 DEF ElectionInv, VotesSupported
  <2>3. QED
    BY <2>1, <2>2
<1>4. SupportRemembered' /\ SupportsOne'
  BY <1>1, <1>2 DEF ElectionInv, SupportRemembered, SupportsOne
<1>5. CASE Q \in Quorum
  <2>1. /\ state' = [state EXCEPT ![i] = Leader]
        /\ votes' = [votes EXCEPT ![i] = {}]
        /\ leaders' = leaders \cup {<<currentTerm[i], i>>}
    BY <1>5 DEF CountVote, Lead
  <2>2. VotesSupported'
    BY <1>1, <1>2, <2>1
    DEF TypeOK, ElectionInv, VotesSupported, Leader, Candidate
  <2>3. LeadersElected'
    <3> SUFFICES ASSUME NEW l \in leaders'
                 PROVE  \E P \in Quorum : \A v \in P : Supports(v, l[2], l[1])
      BY <1>2 DEF LeadersElected
    <3>1. CASE l \in leaders
      BY <3>1 DEF ElectionInv, LeadersElected
    <3>2. CASE l = <<currentTerm[i], i>>
      BY <1>3, <1>5, <3>2
    <3>3. QED
      BY <2>1, <3>1, <3>2
  <2>4. QED
    BY <1>4, <2>2, <2>3 DEF ElectionInv
<1>6. CASE Q \notin Quorum
  <2>1. /\ votes' = [votes EXCEPT ![i] = Q]
        /\ UNCHANGED <<state, leaders>>
    BY <1>6 DEF CountVote
  <2>2. VotesSupported'
    <3> SUFFICES ASSUME NEW k \in Server, state[k] = Candidate,
                        NEW v \in votes'[k]
                 PROVE  Supports(v, k, currentTerm[k])
      BY <1>1, <1>2, <2>1 DEF VotesSupported
    <3>1. CASE k = i
      BY <1>3, <2>1, <3>1 DEF TypeOK
    <3>2. CASE k # i
      BY <2>1, <3>2 DEF TypeOK, ElectionInv, VotesSupported
    <3>3. QED
      BY <3>1, <3>2
  <2>3. LeadersElected'
    BY <1>2, <2>1 DEF ElectionInv, LeadersElected
  <2>4. QED
    BY <1>4, <2>2, <2>3 DEF ElectionInv
<1>7. QED
  BY <1>5, <1>6

-----------------------------------------------------------------------------
\* The election invariant holds before any election.
LEMMA InitElectionInv == Init => ElectionInv
BY DEF Init, ElectionInv, SupportRemembered, SupportsOne, VotesSupported,
       LeadersElected, Supports, Follower, Candidate

\* Every turn of the event loop keeps the election invariant.
LEMMA NextElectionInv ==
    TypeOK /\ TypeOK' /\ ElectionInv /\ [Next]_vars => ElectionInv'
<1> SUFFICES ASSUME TypeOK, TypeOK', ElectionInv, [Next]_vars
             PROVE  ElectionInv'
  OBVIOUS
<1>1. VoteKept
  BY NextKeepsVote
<1>2. CASE ElectionStep
  <2>1. ASSUME NEW j \in Server, NEW b \in ballots, RefuseVote(j, b)
        PROVE  NoElection
    BY <2>1, StepDownNoElection DEF RefuseVote
  <2>2. ASSUME NEW i \in Server, NEW b \in ballots, NEW j \in Server,
               LearnTerm(i, b, j)
        PROVE  NoElection
    BY <2>2, StepDownNoElection DEF LearnTerm
  <2>3. QED
    BY <1>1, <1>2, <2>1, <2>2, StartElectionInv, GrantVoteInv, CountVoteInv,
       NoElectionInv DEF ElectionStep
<1>3. CASE ~ ElectionStep
  <2>1. ASSUME DiskStep
        PROVE  NoElection
    BY <2>1, UnchangedNoElection
    DEF DiskStep, Flush, StoreCommit, voteMsgs, history
  <2>2. ASSUME UNCHANGED vars
        PROVE  NoElection
    BY <2>2, UnchangedNoElection DEF vars
  <2>3. NoElection
    BY <1>3, <2>1, <2>2, LeaderStepNoElection, FollowerStepNoElection,
       FaultStepNoElection DEF Next
  <2>4. QED
    BY <1>1, <2>3, NoElectionInv
<1>4. QED
  BY <1>2, <1>3

\* Two majorities, of quorumSize each, have a voter in common.
LEMMA QuorumsMeet ==
    ASSUME NEW P \in Quorum, NEW Q \in Quorum
    PROVE  \E v \in P : v \in Q /\ v \in Server
<1>1. P \subseteq Server /\ Q \subseteq Server
  BY DEF Quorum
<1>2. /\ Cardinality(P) \in Nat /\ Cardinality(Q) \in Nat
      /\ Cardinality(Server) \in Nat
  BY <1>1, ServerAssumption, FS_Subset, FS_CardinalityType
<1>3. Cardinality(P) + Cardinality(Q) > Cardinality(Server)
  BY <1>2 DEF Quorum
<1>4. P \cap Q # {}
  BY <1>1, <1>3, ServerAssumption, FS_MajoritiesIntersect
<1>5. QED
  BY <1>1, <1>4

\* The voter two leaders of a term have in common supports both: they are one.
LEMMA ElectionInvSafe == TypeOK /\ ElectionInv => ElectionSafety
<1> SUFFICES ASSUME TypeOK, ElectionInv, NEW a \in leaders, NEW b \in leaders,
                    a[1] = b[1]
             PROVE  a[2] = b[2]
  BY DEF ElectionSafety
<1>1. a[1] \in Nat /\ a[2] \in Server /\ b[2] \in Server
  BY DEF TypeOK
<1>2. PICK P \in Quorum : \A v \in P : Supports(v, a[2], a[1])
  BY DEF ElectionInv, LeadersElected
<1>3. PICK Q \in Quorum : \A v \in Q : Supports(v, b[2], b[1])
  BY DEF ElectionInv, LeadersElected
<1>4. PICK v \in P : v \in Q /\ v \in Server
  BY QuorumsMeet
<1>5. Supports(v, a[2], a[1]) /\ Supports(v, b[2], a[1])
  BY <1>2, <1>3, <1>4
<1>6. QED
  BY <1>1, <1>4, <1>5 DEF ElectionInv, SupportsOne

\* No term ever has two leaders, for any number of voters: replies may be
\* counted late, a candidate may become leader while it is paused, and voters
\* may crash between a vote and the next.
THEOREM ElectionSafe == Spec => []ElectionSafety
<1>1. Spec => []ElectionInv
  BY InitElectionInv, NextElectionInv, TypeCorrect, PTL DEF Spec
<1>2. QED
  BY <1>1, TypeCorrect, ElectionInvSafe, PTL

-----------------------------------------------------------------------------
-----------------------------------------------------------------------------
\* The terms that have been led are those with a written log.
TermsLed ==
    /\ \A a \in leaders : a[1] \in DOMAIN written
    /\ \A t \in DOMAIN written : t > 0 /\ \E i \in Server : <<t, i>> \in leaders

\* A leader's log is what it has written.
LeadersWrite ==
    \A i \in Server : state[i] = Leader =>
        <<currentTerm[i], i>> \in leaders /\ log[i] = written[currentTerm[i]]

\* Who has led a term does not stand in it again.
LeadersMoveOn ==
    \A t \in Nat, i \in Server : <<t, i>> \in leaders =>
        t <= currentTerm[i] /\ (t = currentTerm[i] => state[i] # Candidate)

CandidatesMovedOn ==
    \A i \in Server : state[i] = Candidate => currentTerm[i] > 0

LogsSourced == \A i \in Server : Sourced(written, log[i], currentTerm[i])

WrittenSourced == \A t \in DOMAIN written : Sourced(written, written[t], t)

LogInv ==
    /\ TermsLed /\ LeadersWrite /\ LeadersMoveOn /\ CandidatesMovedOn
    /\ LogsSourced /\ WrittenSourced

-----------------------------------------------------------------------------
(***************************************************************************)
(* What a step does to logs and leaderships is one of three things.        *)
(***************************************************************************)

\* Nothing: leaders may go, candidates may come, terms may rise.
Quiet ==
    /\ UNCHANGED <<log, written, leaders>>
    /\ \A i \in Server : currentTerm'[i] >= currentTerm[i]
    /\ \A i \in Server : state'[i] = Leader =>
          state[i] = Leader /\ currentTerm'[i] = currentTerm[i]
    /\ \A i \in Server : state'[i] = Candidate =>
          currentTerm'[i] > currentTerm[i] \/ state[i] = Candidate

\* The log of j becomes r, and j a follower in term T.
Rewrites(j, r, T) ==
    /\ log' = [log EXCEPT ![j] = r]
    /\ state' = [state EXCEPT ![j] = Follower]
    /\ currentTerm' = [currentTerm EXCEPT ![j] = T]
    /\ T >= currentTerm[j]
    /\ UNCHANGED <<written, leaders>>

\* i, which leads or begins to, appends e to its log.
Appends(i, e) ==
    /\ e.term = currentTerm[i]
    /\ log' = [log EXCEPT ![i] = Append(log[i], e)]
    /\ Write(i, Append(log[i], e))
    /\ UNCHANGED currentTerm
    /\ \/ state[i] = Leader /\ UNCHANGED <<state, leaders>>
       \/ /\ state[i] = Candidate
          /\ state' = [state EXCEPT ![i] = Leader]
          /\ leaders' = leaders \cup {<<currentTerm[i], i>>}

\* A server that crashes finds a prefix of its log.
LEMMA RestartRewrites ==
    ASSUME TypeOK, NEW i \in Server, Restart(i)
    PROVE  \E kept \in durable[i]..Len(log[i]) :
              /\ durable' = [durable EXCEPT ![i] = kept]
              /\ Rewrites(i, SubSeq(log[i], 1, kept), currentTerm[i])
<1>1. PICK kept \in durable[i]..Len(log[i]) :
         /\ log' = [log EXCEPT ![i] = SubSeq(@, 1, kept)]
         /\ durable' = [durable EXCEPT ![i] = kept]
  BY DEF Restart
<1>2. /\ state' = [state EXCEPT ![i] = Follower]
      /\ UNCHANGED <<written, leaders, currentTerm>>
  BY DEF Restart, metaVars, history
<1>3. /\ currentTerm' = [currentTerm EXCEPT ![i] = currentTerm[i]]
      /\ currentTerm[i] >= currentTerm[i]
  BY <1>2 DEF TypeOK
<1>4. QED
  BY <1>1, <1>2, <1>3 DEF Rewrites

\* A server that accepts an AppendEntries request merges it into its log.
LEMMA AcceptRewrites ==
    ASSUME NEW q \in InFlight, AcceptAppend(q.to, q)
    PROVE  Rewrites(q.to, Merge(log[q.to], q.prev, q.entries), q.term)
BY DEF AcceptAppend, Rewrites, BecomeFollower, history

LEMMA LeadAppends ==
    ASSUME TypeOK, NEW i \in Server, NEW g \in grants, CountVote(i, g), Lead(i)
    PROVE  Appends(i, [term |-> currentTerm[i], data |-> Noop])
BY DEF CountVote, Lead, Appends, metaVars

LEMMA ClientAppends ==
    ASSUME TypeOK, NEW i \in Server, NEW c \in Command, ClientAppend(i, c)
    PROVE  Appends(i, [term |-> currentTerm[i], data |-> c])
BY DEF ClientAppend, Appends, metaVars

\* A write of the metadata file that ends a leadership or candidacy is quiet.
LEMMA BecomeFollowerQuiet ==
    ASSUME TypeOK, NEW i \in Server, NEW T \in Nat, NEW v, T >= currentTerm[i],
           BecomeFollower(i, T, v), UNCHANGED <<log, written, leaders>>
    PROVE  Quiet
<1>1. \A k \in Server : currentTerm[k] \in Nat
  BY DEF TypeOK
<1>2. \A k \in Server : currentTerm'[k] >= currentTerm[k]
  <2>1. currentTerm'[i] = T /\ \A k \in Server : k # i => currentTerm'[k] = currentTerm[k]
    BY DEF BecomeFollower, TypeOK
  <2>2. QED
    BY <1>1, <2>1
<1>3. \A k \in Server : state'[k] # Follower =>
         k # i /\ state'[k] = state[k] /\ currentTerm'[k] = currentTerm[k]
  BY DEF BecomeFollower, TypeOK
<1>4. QED
  BY <1>2, <1>3 DEF Quiet, Follower, Leader, Candidate

LEMMA StepDownQuiet ==
    ASSUME TypeOK, NEW i \in Server, NEW T \in Nat, T >= currentTerm[i],
           NEW calls, StepDown(i, T, calls)
    PROVE  Quiet
BY BecomeFollowerQuiet DEF StepDown, logVars, history

\* A step that keeps terms and roles, and logs, is quiet.
LEMMA UnchangedQuiet ==
    ASSUME TypeOK, UNCHANGED <<log, written, leaders, currentTerm, state>>
    PROVE  Quiet
<1>1. \A k \in Server : currentTerm[k] \in Nat
  BY DEF TypeOK
<1>2. QED
  BY <1>1 DEF Quiet

\* Every turn of the event loop is quiet, or rewrites a log, or appends.
LEMMA StepKinds ==
    ASSUME TypeOK, [Next]_vars
    PROVE  \/ Quiet
           \/ \E i \in Server : Restart(i)
           \/ \E q \in InFlight : AcceptAppend(q.to, q)
           \/ \E i \in Server, g \in grants : CountVote(i, g) /\ Lead(i)
           \/ \E i \in Server, c \in Command : ClientAppend(i, c)
<1>1. CASE ElectionStep
  <2>1. ASSUME NEW i \in Server, StartElection(i)
        PROVE  Quiet
    <3>1. /\ currentTerm' = [currentTerm EXCEPT ![i] = @ + 1]
          /\ state' = [state EXCEPT ![i] = Candidate]
          /\ UNCHANGED <<log, written, leaders>>
      BY <2>1 DEF StartElection, logVars, history
    <3>2. \A k \in Server : currentTerm[k] \in Nat
      BY DEF TypeOK
    <3>3. \A k \in Server : k # i =>
             state'[k] = state[k] /\ currentTerm'[k] = currentTerm[k]
      BY <3>1 DEF TypeOK
    <3>4. state'[i] = Candidate /\ currentTerm'[i] = currentTerm[i] + 1
      BY <3>1 DEF TypeOK
    <3>5. QED
      BY <3>1, <3>2, <3>3, <3>4 DEF Quiet, Candidate, Leader
  <2>2. ASSUME NEW j \in Server, NEW b \in ballots, GrantVote(j, b)
        PROVE  Quiet
    BY <2>2, BecomeFollowerQuiet DEF GrantVote, TypeOK, Ballot, logVars, history
  <2>3. ASSUME NEW j \in Server, NEW b \in ballots, RefuseVote(j, b)
        PROVE  Quiet
    <3>1. b.term \in Nat /\ currentTerm[j] \in Nat
      BY DEF TypeOK, Ballot
    <3>2. b.term >= currentTerm[j] /\ StepDown(j, b.term, rpc)
      BY <2>3, <3>1 DEF RefuseVote
    <3>3. QED
      BY <3>1, <3>2, StepDownQuiet
  <2>4. ASSUME NEW i \in Server, NEW b \in ballots, NEW j \in Server,
               LearnTerm(i, b, j)
        PROVE  Quiet
    <3>1. PICK T \in (Larger(b.term, currentTerm[i]) + 1)..currentTerm[j] :
             StepDown(i, T, rpc)
      BY <2>4 DEF LearnTerm
    <3>2. b.term \in Nat /\ currentTerm[i] \in Nat
      BY DEF TypeOK, Ballot
    <3>3. T \in Nat /\ T >= currentTerm[i]
      BY <3>1, <3>2 DEF Larger
    <3>4. QED
      BY <3>1, <3>3, StepDownQuiet
  <2>5. ASSUME NEW i \in Server, NEW g \in grants, CountVote(i, g)
        PROVE  Lead(i) \/ Quiet
    <3>1. CASE votes[i] \cup {g.from} \in Quorum
      BY <2>5, <3>1 DEF CountVote
    <3>2. CASE votes[i] \cup {g.from} \notin Quorum
      BY <2>5, <3>2, UnchangedQuiet DEF CountVote, logVars, metaVars
    <3>3. QED
      BY <3>1, <3>2
  <2>6. QED
    BY <1>1, <2>1, <2>2, <2>3, <2>4, <2>5 DEF ElectionStep
<1>2. CASE LeaderStep
  <2>1. ASSUME NEW i \in Server, NEW j \in Server, AppendDeposed(i, j)
        PROVE  Quiet
    <3>1. rpc[i][j].term \in Nat /\ currentTerm[i] \in Nat
      BY <2>1, CallType DEF AppendDeposed, TypeOK
    <3>2. rpc[i][j].term >= currentTerm[i]
      BY <2>1, <3>1 DEF AppendDeposed
    <3>3. QED
      BY <2>1, <3>1, <3>2, StepDownQuiet DEF AppendDeposed
  <2>2. ASSUME NEW i \in Server, NEW j \in Server,
               \/ Heartbeat(i) \/ AppendSucceeded(i, j)
               \/ AppendRefused(i, j) \/ CallEnds(i, j)
        PROVE  Quiet
    BY <2>2, UnchangedQuiet
    DEF Heartbeat, AppendSucceeded, AppendRefused, CallEnds, metaVars, logVars,
        history
  <2>3. QED
    BY <1>2, <2>1, <2>2 DEF LeaderStep
<1>3. CASE FollowerStep
  <2>1. PICK q \in InFlight : \/ RejectAppend(q.to, q)
                              \/ MismatchAppend(q.to, q)
                              \/ AcceptAppend(q.to, q)
    BY <1>3 DEF FollowerStep
  <2>2. q.to \in Server /\ q.term \in Nat
    BY InFlightType DEF Request
  <2>3. CASE RejectAppend(q.to, q)
    BY <2>3, UnchangedQuiet DEF RejectAppend, metaVars, logVars, history
  <2>4. CASE MismatchAppend(q.to, q)
    BY <2>2, <2>4, BecomeFollowerQuiet DEF MismatchAppend, logVars, history
  <2>5. QED
    BY <2>1, <2>3, <2>4
<1>4. CASE DiskStep
  BY <1>4, UnchangedQuiet DEF DiskStep, Flush, StoreCommit, logVars, history
<1>5. CASE FaultStep
  <2>1. ASSUME NEW i \in Server, Pause(i) \/ Resume(i)
        PROVE  Quiet
    <3>1. UNCHANGED <<log, written, leaders, currentTerm>>
      BY <2>1 DEF Pause, Resume, metaVars, logVars, history
    <3>2. \A k \in Server : state'[k] # Follower => state'[k] = state[k]
      BY <2>1 DEF Pause, Resume, TypeOK
    <3>3. \A k \in Server : currentTerm[k] \in Nat
      BY DEF TypeOK
    <3>4. QED
      BY <3>1, <3>2, <3>3 DEF Quiet, Follower, Leader, Candidate
  <2>2. QED
    BY <1>5, <2>1 DEF FaultStep
<1>6. CASE UNCHANGED vars
  BY <1>6, UnchangedQuiet DEF vars
<1>7. QED
  BY <1>1, <1>2, <1>3, <1>4, <1>5, <1>6 DEF Next

-----------------------------------------------------------------------------
\* Quiet steps keep the log invariant.
LEMMA QuietLogInv ==
    ASSUME TypeOK, TypeOK', LogInv, Quiet
    PROVE  LogInv'
<1>1. TermsLed' /\ WrittenSourced'
  BY DEF LogInv, TermsLed, WrittenSourced, Quiet
<1>2. LeadersWrite'
  BY DEF LogInv, LeadersWrite, Quiet
<1>3. \A i \in Server : /\ currentTerm[i] \in Nat /\ currentTerm'[i] \in Nat
                        /\ currentTerm'[i] >= currentTerm[i]
  BY DEF TypeOK, Quiet
<1>4. LeadersMoveOn'
  <2> SUFFICES ASSUME NEW t \in Nat, NEW i \in Server, <<t, i>> \in leaders'
               PROVE  t <= currentTerm'[i] /\ (t = currentTerm'[i] => state'[i] # Candidate)
    BY DEF LeadersMoveOn
  <2>1. t <= currentTerm[i] /\ (t = currentTerm[i] => state[i] # Candidate)
    BY DEF Quiet, LogInv, LeadersMoveOn
  <2>2. state'[i] = Candidate => currentTerm'[i] > currentTerm[i] \/ state[i] = Candidate
    BY DEF Quiet
  <2>3. QED
    BY <1>3, <2>1, <2>2
<1>5. CandidatesMovedOn'
  <2> SUFFICES ASSUME NEW i \in Server, state'[i] = Candidate
               PROVE  currentTerm'[i] > 0
    BY DEF CandidatesMovedOn
  <2>1. currentTerm'[i] > currentTerm[i] \/ currentTerm[i] > 0
    BY DEF Quiet, LogInv, CandidatesMovedOn
  <2>2. QED
    BY <1>3, <2>1
<1>6. LogsSourced'
  <2> SUFFICES ASSUME NEW i \in Server
               PROVE  Sourced(written, log[i], currentTerm'[i])
    BY DEF LogsSourced, Quiet
  <2>1. \A k \in 1..Len(log[i]) : log[i][k].term \in Nat
    BY EntryTerms, EntryTerm DEF TypeOK
  <2>2. QED
    BY <1>3, <2>1 DEF LogInv, LogsSourced, Sourced
<1>7. QED
  BY <1>1, <1>2, <1>4, <1>5, <1>6 DEF LogInv

\* So do steps that leave a log with its sources.
LEMMA RewriteLogInv ==
    ASSUME TypeOK, TypeOK', LogInv, NEW j \in Server, NEW r \in Seq(Entry),
           NEW T \in Nat, Rewrites(j, r, T), Sourced(written, r, T)
    PROVE  LogInv'
<1>1. /\ log'[j] = r /\ state'[j] = Follower /\ currentTerm'[j] = T
      /\ currentTerm[j] \in Nat /\ T >= currentTerm[j]
      /\ UNCHANGED <<written, leaders>>
      /\ \A k \in Server : k # j =>
            /\ log'[k] = log[k] /\ state'[k] = state[k]
            /\ currentTerm'[k] = currentTerm[k]
  BY DEF TypeOK, Rewrites
<1>2. TermsLed' /\ WrittenSourced'
  BY <1>1 DEF LogInv, TermsLed, WrittenSourced
<1>3. LeadersWrite' /\ CandidatesMovedOn'
  BY <1>1
  DEF LogInv, LeadersWrite, CandidatesMovedOn, Follower, Leader, Candidate
<1>4. LeadersMoveOn'
  <2> SUFFICES ASSUME NEW t \in Nat, NEW i \in Server, <<t, i>> \in leaders
               PROVE  t <= currentTerm'[i] /\ (t = currentTerm'[i] => state'[i] # Candidate)
    BY <1>1 DEF LeadersMoveOn
  <2>1. t <= currentTerm[i] /\ (t = currentTerm[i] => state[i] # Candidate)
    BY DEF LogInv, LeadersMoveOn
  <2>2. QED
    BY <1>1, <2>1 DEF Follower, Candidate
<1>5. LogsSourced'
  BY <1>1 DEF LogInv, LogsSourced
<1>6. QED
  BY <1>2, <1>3, <1>4, <1>5 DEF LogInv

\* An append adds to the log of a term: if its server begins to lead, no one
\* has led the term before.
LEMMA AppendExtends ==
    ASSUME TypeOK, TypeOK', LogInv, ElectionSafety',
           NEW i \in Server, NEW e \in Entry, Appends(i, e)
    PROVE  /\ Extends(written, written')
           /\ state[i] = Candidate => currentTerm[i] \notin DOMAIN written
           /\ currentTerm[i] \in DOMAIN written' /\ currentTerm[i] > 0
           /\ written'[currentTerm[i]] = Append(log[i], e)
           /\ DOMAIN written' = DOMAIN written \cup {currentTerm[i]}
           /\ \A t \in DOMAIN written :
                 t # currentTerm[i] => written'[t] = written[t]
<1> DEFINE T == currentTerm[i]
<1>1. T \in Nat /\ log[i] \in Seq(Entry)
  BY DEF TypeOK
<1>2. Append(log[i], e) \in Seq(Entry) /\ Agree(Append(log[i], e), log[i], Len(log[i]))
  BY <1>1, AppendAgrees
<1>3. /\ DOMAIN written' = DOMAIN written \cup {T}
      /\ written'[T] = Append(log[i], e)
      /\ \A t \in DOMAIN written : t # T => written'[t] = written[t]
  BY <1>2, WriteEffect DEF Appends
<1>4. ASSUME state[i] = Candidate
      PROVE  T \notin DOMAIN written
  <2>1. SUFFICES ASSUME T \in DOMAIN written
                 PROVE  FALSE
    OBVIOUS
  <2>2. PICK s \in Server : <<T, s>> \in leaders
    BY <2>1 DEF LogInv, TermsLed
  <2>3. <<T, s>> \in leaders' /\ <<T, i>> \in leaders'
    BY <1>4, <2>2 DEF Appends, Leader, Candidate
  <2>4. s = i
    <3>1. <<T, s>>[2] = <<T, i>>[2]
      BY <2>3 DEF ElectionSafety
    <3>2. QED
      BY <3>1
  <2>5. QED
    BY <1>1, <1>4, <2>2, <2>4 DEF LogInv, LeadersMoveOn
<1>5. T > 0
  <2>1. CASE state[i] = Candidate
    BY <2>1 DEF LogInv, CandidatesMovedOn
  <2>2. CASE state[i] = Leader
    <3>1. <<T, i>>[1] \in DOMAIN written
      BY <2>2 DEF LogInv, LeadersWrite, TermsLed
    <3>2. QED
      BY <3>1 DEF LogInv, TermsLed
  <2>3. QED
    BY <2>1, <2>2 DEF Appends
<1>6. Extends(written, written')
  <2> SUFFICES ASSUME NEW t \in DOMAIN written
               PROVE  Agree(written'[t], written[t], Len(written[t]))
    BY <1>3 DEF Extends
  <2>1. written[t] \in Seq(Entry)
    BY DEF TypeOK
  <2>2. CASE t = T
    <3>1. written[T] = log[i]
      BY <1>4, <2>2 DEF Appends, LogInv, LeadersWrite
    <3>2. QED
      BY <1>2, <1>3, <2>2, <3>1
  <2>3. CASE t # T
    <3>1. Agree(written[t], written[t], Len(written[t]))
      BY <2>1, AgreeSelf
    <3>2. QED
      BY <1>3, <2>3, <3>1
  <2>4. QED
    BY <2>2, <2>3
<1>7. QED
  BY <1>3, <1>4, <1>5, <1>6

\* Appends keep the log invariant.
LEMMA AppendLogInv ==
    ASSUME TypeOK, TypeOK', LogInv, ElectionSafety',
           NEW i \in Server, NEW e \in Entry, Appends(i, e)
    PROVE  LogInv'
<1> DEFINE T == currentTerm[i]
           l == Append(log[i], e)
<1>1. /\ Extends(written, written')
      /\ state[i] = Candidate => T \notin DOMAIN written
      /\ T \in DOMAIN written' /\ T > 0 /\ written'[T] = l
      /\ DOMAIN written' = DOMAIN written \cup {T}
      /\ \A t \in DOMAIN written : t # T => written'[t] = written[t]
  BY AppendExtends
<1>2. /\ T \in Nat /\ log[i] \in Seq(Entry) /\ Logs(Entry, written) /\ Logs(Entry, written')
      /\ e.term = T /\ UNCHANGED currentTerm
  BY EntryTerms DEF TypeOK, Logs, Appends
<1>3. /\ log'[i] = l /\ state'[i] = Leader /\ <<T, i>> \in leaders'
      /\ leaders' \subseteq leaders \cup {<<T, i>>} /\ leaders \subseteq leaders'
      /\ \A k \in Server : k # i => log'[k] = log[k] /\ state'[k] = state[k]
  BY ZenonT(40) DEF Appends, TypeOK, LogInv, LeadersWrite
<1>4. TermsLed'
  <2>1. ASSUME NEW a \in leaders'
        PROVE  a[1] \in DOMAIN written'
    BY <1>1, <1>3 DEF LogInv, TermsLed
  <2>2. ASSUME NEW t \in DOMAIN written'
        PROVE  t > 0 /\ \E k \in Server : <<t, k>> \in leaders'
    BY <1>1, <1>3 DEF LogInv, TermsLed
  <2>3. QED
    BY <2>1, <2>2 DEF TermsLed
<1>5. LeadersWrite'
  <2> SUFFICES ASSUME NEW k \in Server, state'[k] = Leader
               PROVE  /\ <<currentTerm[k], k>> \in leaders'
                      /\ log'[k] = written'[currentTerm[k]]
    BY <1>2 DEF LeadersWrite
  <2>1. CASE k = i
    BY <1>1, <1>3, <2>1
  <2>2. CASE k # i
    <3>1. /\ <<currentTerm[k], k>> \in leaders
          /\ log[k] = written[currentTerm[k]]
      BY <1>3, <2>2 DEF LogInv, LeadersWrite
    <3>2. currentTerm[k] \in DOMAIN written
      <4>1. <<currentTerm[k], k>>[1] \in DOMAIN written
        BY <3>1 DEF LogInv, TermsLed
      <4>2. QED
        BY <4>1
    <3>3. currentTerm[k] # T
      <4>1. SUFFICES ASSUME currentTerm[k] = T
                     PROVE  FALSE
        OBVIOUS
      <4>2. <<T, k>> \in leaders' /\ <<T, i>> \in leaders'
        BY <1>3, <3>1, <4>1
      <4>3. <<T, k>>[2] = <<T, i>>[2]
        BY <4>2 DEF ElectionSafety
      <4>4. QED
        BY <2>2, <4>3
    <3>4. QED
      BY <1>1, <1>3, <2>2, <3>1, <3>2, <3>3
  <2>3. QED
    BY <2>1, <2>2
<1>6. LeadersMoveOn'
  <2> SUFFICES ASSUME NEW t \in Nat, NEW k \in Server, <<t, k>> \in leaders'
               PROVE  t <= currentTerm[k] /\ (t = currentTerm[k] => state'[k] # Candidate)
    BY <1>2 DEF LeadersMoveOn
  <2>1. CASE <<t, k>> = <<T, i>>
    BY <1>2, <1>3, <2>1 DEF Leader, Candidate
  <2>2. CASE <<t, k>> \in leaders
    BY <1>3, <2>2 DEF LogInv, LeadersMoveOn, Leader, Candidate
  <2>3. QED
    BY <1>3, <2>1, <2>2
<1>7. CandidatesMovedOn'
  BY <1>2, <1>3 DEF LogInv, CandidatesMovedOn, Leader, Candidate
<1>8. Sourced(written', l, T)
  <2>1. Sourced(written, log[i], T)
    BY DEF LogInv, LogsSourced
  <2> HIDE DEF T
  <2>2. QED
    BY <1>1, <1>2, <2>1, SourcedAppend
<1>9. LogsSourced'
  <2> SUFFICES ASSUME NEW k \in Server
               PROVE  Sourced(written', log'[k], currentTerm[k])
    BY <1>2 DEF LogsSourced
  <2>1. CASE k = i
    BY <1>3, <1>8, <2>1
  <2>2. CASE k # i
    <3>1. /\ Sourced(written, log[k], currentTerm[k]) /\ log'[k] = log[k]
          /\ log[k] \in Seq(Entry)
          /\ currentTerm[k] \in Nat /\ currentTerm[k] <= currentTerm[k]
      BY <1>3, <2>2 DEF LogInv, LogsSourced, TypeOK
    <3>2. QED
      BY <1>1, <1>2, <3>1, SourcedExtends
  <2>3. QED
    BY <2>1, <2>2
<1>10. WrittenSourced'
  <2> SUFFICES ASSUME NEW t \in DOMAIN written'
               PROVE  Sourced(written', written'[t], t)
    BY DEF WrittenSourced
  <2>1. CASE t = T
    BY <1>1, <1>8, <2>1
  <2>2. CASE t # T
    <3>1. /\ t \in DOMAIN written /\ written'[t] = written[t]
          /\ written[t] \in Seq(Entry) /\ t \in Nat /\ t <= t
      BY <1>1, <1>2, <2>2 DEF Logs
    <3>2. Sourced(written, written[t], t)
      BY <3>1 DEF LogInv, WrittenSourced
    <3>3. QED
      BY <1>1, <1>2, <3>1, <3>2, SourcedExtends
  <2>3. QED
    BY <2>1, <2>2
<1>11. QED
  BY <1>4, <1>5, <1>6, <1>7, <1>9, <1>10 DEF LogInv

-----------------------------------------------------------------------------
(***************************************************************************)
(* What a step does to the outstanding calls: it posts new ones, for the   *)
(* log it leaves, and answers old ones.                                    *)
(***************************************************************************)
Posts(i, j) ==
    /\ state'[i] = Leader /\ currentTerm'[i] = currentTerm[i]
    /\ \E next \in Nat \ {0} : rpc'[i][j] = Sent(RequestTo(i, j, log'[i], next))

\* A call is still there, for the same leadership if its caller leads.
Outlives(i, j) ==
    /\ rpc[i][j] # Nil /\ rpc'[i][j].request = rpc[i][j].request
    /\ state'[i] = Leader => state[i] = Leader /\ currentTerm'[i] = currentTerm[i]

\* Nothing has happened to it; what its receiver holds back is in its log.
Keeps(i, j) ==
    /\ rpc'[i][j] = rpc[i][j]
    /\ IsHeld(rpc[i][j]) => restarts' = restarts \/ log'[j] = log[j]

Refuses(i, j) == rpc'[i][j].status = "refused"

Flushes(i, j) ==
    /\ IsHeld(rpc[i][j]) /\ rpc'[i][j] = [rpc[i][j] EXCEPT !.status = "acked"]
    /\ log'[j] = log[j] /\ durable'[j] = Len(log[j])
    /\ currentTerm'[j] = currentTerm[j]

Answers(i, j) ==
    \E q \in InFlight :
        /\ q.from = i /\ q.to = j /\ rpc[i][j] = Sent(q)
        /\ AcceptAppend(j, q)
        /\ LET match == q.prev + Len(q.entries)
           IN  rpc'[i][j] = [request |-> q, status |-> AckStatus(match, durable'[j]),
                             term |-> q.term, index |-> match]

CallStep(i, j) ==
    \/ rpc'[i][j] = Nil
    \/ Posts(i, j)
    \/ /\ Outlives(i, j)
       /\ Keeps(i, j) \/ Refuses(i, j) \/ Flushes(i, j) \/ Answers(i, j)

\* d is what is left of the call c: c itself, or its refusal.
SameOrRefused(c, d) ==
    d = c \/ (c # Nil /\ d.request = c.request /\ d.status = "refused")

LEMMA RevokedCall ==
    ASSUME NEW calls \in Calls, NEW j \in Server, NEW term, NEW index,
           NEW i \in Server, NEW k \in Server
    PROVE  SameOrRefused(calls[i][k], Revoked(calls, j, term, index)[i][k])
BY DEF Revoked, SameOrRefused, IsHeld

LEMMA CallsInCall ==
    ASSUME NEW calls \in Calls, NEW j \in Server, NEW T,
           NEW i \in Server, NEW k \in Server
    PROVE  SameOrRefused(calls[i][k], CallsIn(calls, j, T)[i][k])
BY RevokedCall DEF CallsIn, SameOrRefused

LEMMA RepliedCall ==
    ASSUME NEW calls \in Calls, NEW q \in Request, NEW status, NEW term,
           NEW index, NEW i \in Server, NEW k \in Server
    PROVE  LET d == Replied(calls, q, status, term, index)[i][k]
           IN  \/ d = calls[i][k]
               \/ /\ q.from = i /\ q.to = k /\ calls[i][k] = Sent(q)
                  /\ d = [request |-> q, status |-> status, term |-> term,
                          index |-> index]
<1>1. q.from \in Server /\ q.to \in Server
  BY DEF Request
<1> DEFINE r == [request |-> q, status |-> status, term |-> term, index |-> index]
<1>2. Replied(calls, q, status, term, index) =
         IF calls[q.from][q.to] = Sent(q)
         THEN [calls EXCEPT ![q.from][q.to] = r] ELSE calls
  BY DEF Replied
<1> HIDE DEF r
<1>3. \/ Replied(calls, q, status, term, index)[i][k] = calls[i][k]
      \/ /\ q.from = i /\ q.to = k /\ calls[i][k] = Sent(q)
         /\ Replied(calls, q, status, term, index)[i][k] = r
  BY <1>1, <1>2 DEF Calls
<1>4. QED
  BY <1>3 DEF r

LEMMA BroadcastCall ==
    ASSUME NEW i \in Server, NEW calls \in Calls, NEW l,
           NEW next, NEW k \in Server, NEW j \in Server
    PROVE  \/ Broadcast(i, calls, l, next)[k][j] = calls[k][j]
           \/ k = i /\ Broadcast(i, calls, l, next)[k][j] =
                          Sent(RequestTo(i, j, l, next[j]))
BY DEF Broadcast, Calls

\* The leader's own calls that a step leaves alone, or refuses.
LEMMA SameCallStep ==
    ASSUME TypeOK, NEW i \in Server, NEW j \in Server,
           SameOrRefused(rpc[i][j], rpc'[i][j]),
           state'[i] = Leader => state[i] = Leader /\ currentTerm'[i] = currentTerm[i],
           restarts' = restarts \/ log'[j] = log[j]
    PROVE  CallStep(i, j)
BY DEF SameOrRefused, CallStep, Outlives, Keeps, Refuses

\* Who leads after a step has led before it, but for the one that begins.
LEMMA NextLeads ==
    ASSUME TypeOK, [Next]_vars, NEW i \in Server, state'[i] = Leader
    PROVE  \/ state[i] = Leader /\ currentTerm'[i] = currentTerm[i]
           \/ /\ state[i] = Candidate /\ Lead(i) /\ UNCHANGED currentTerm
              /\ \E g \in grants : CountVote(i, g)
<1>1. CASE Quiet
  BY <1>1 DEF Quiet
<1>2. ASSUME NEW k \in Server, Restart(k)
      PROVE  state[i] = Leader /\ currentTerm'[i] = currentTerm[i]
  BY <1>2, RestartRewrites DEF Rewrites, TypeOK, Follower, Leader
<1>3. ASSUME NEW q \in InFlight, AcceptAppend(q.to, q)
      PROVE  state[i] = Leader /\ currentTerm'[i] = currentTerm[i]
  <2>1. q.to \in Server
    BY InFlightType DEF Request
  <2>2. QED
    BY <1>3, <2>1, AcceptRewrites DEF Rewrites, TypeOK, Follower, Leader
<1>4. ASSUME NEW k \in Server, NEW g \in grants, CountVote(k, g), Lead(k)
      PROVE  \/ state[i] = Leader /\ currentTerm'[i] = currentTerm[i]
             \/ /\ state[i] = Candidate /\ Lead(i) /\ UNCHANGED currentTerm
                /\ \E h \in grants : CountVote(i, h)
  <2>1. state[k] = Candidate /\ UNCHANGED currentTerm
    BY <1>4 DEF CountVote, metaVars
  <2>2. i # k => state[i] = Leader
    BY <1>4 DEF Lead, TypeOK
  <2>3. QED
    BY <1>4, <2>1, <2>2
<1>5. ASSUME NEW k \in Server, NEW c \in Command, ClientAppend(k, c)
      PROVE  state[i] = Leader /\ currentTerm'[i] = currentTerm[i]
  BY <1>5 DEF ClientAppend, metaVars
<1>6. QED
  BY <1>1, <1>2, <1>3, <1>4, <1>5, StepKinds

\* A new leader's calls are those it has posted, for the log with its no-op.
LEMMA LeadCallStep ==
    ASSUME TypeOK, NEW k \in Server, NEW g \in grants, CountVote(k, g), Lead(k),
           NEW i \in Server, NEW j \in Server
    PROVE  CallStep(i, j)
<1> DEFINE l    == Append(log[k], [term |-> currentTerm[k], data |-> Noop])
           next == [m \in Server |-> Len(log[k]) + 1]
           none == [rpc EXCEPT ![k] = [m \in Server |-> Nil]]
<1>1. /\ log' = [log EXCEPT ![k] = l] /\ state' = [state EXCEPT ![k] = Leader]
      /\ rpc' = IF paused[k] THEN none ELSE Broadcast(k, none, l, next)
      /\ UNCHANGED <<currentTerm, restarts>>
  BY DEF CountVote, Lead, metaVars, faults
<1>2. none \in Calls /\ none[i][j] = IF i = k THEN Nil ELSE rpc[i][j]
  BY DEF TypeOK, Calls
<1>3. next[j] \in Nat \ {0}
  <2>1. log[k] \in Seq(Entry)
    BY DEF TypeOK
  <2>2. Len(log[k]) + 1 \in Nat \ {0}
    BY <2>1
  <2>3. QED
    BY <2>2
<1>4. log'[k] = l /\ state'[k] = Leader
  BY <1>1 DEF TypeOK
<1> HIDE DEF l, next, none
<1>5. \/ rpc'[i][j] = none[i][j]
      \/ i = k /\ rpc'[i][j] = Sent(RequestTo(i, j, l, next[j]))
  BY <1>1, <1>2, BroadcastCall
<1>6. CASE i = k /\ rpc'[i][j] = Sent(RequestTo(i, j, l, next[j]))
  BY <1>1, <1>3, <1>4, <1>6 DEF CallStep, Posts
<1>7. CASE rpc'[i][j] = none[i][j] /\ i = k
  BY <1>2, <1>7 DEF CallStep
<1>8. CASE rpc'[i][j] = none[i][j] /\ i # k
  <2>1. state'[i] = state[i] /\ currentTerm'[i] = currentTerm[i]
    BY <1>1, <1>8 DEF TypeOK
  <2>2. SameOrRefused(rpc[i][j], rpc'[i][j])
    BY <1>2, <1>8 DEF SameOrRefused
  <2>3. QED
    BY <1>1, <2>1, <2>2, SameCallStep
<1>9. QED
  BY <1>5, <1>6, <1>7, <1>8

\* A broadcast posts calls for the log its leader has after the step.
LEMMA BroadcastCallStep ==
    ASSUME TypeOK, NEW k \in Server, NEW l, l = log'[k],
           state[k] = Leader, state'[k] = Leader, UNCHANGED <<currentTerm, restarts>>,
           rpc' = Broadcast(k, rpc, l, nextIndex[k]),
           NEW i \in Server, NEW j \in Server,
           state'[i] = Leader => state[i] = Leader /\ currentTerm'[i] = currentTerm[i]
    PROVE  CallStep(i, j)
<1>1. rpc \in Calls /\ nextIndex[k][j] \in Nat \ {0}
  BY DEF TypeOK, Calls
<1>2. CASE rpc'[i][j] = rpc[i][j]
  BY <1>2, SameCallStep DEF SameOrRefused
<1>3. CASE i = k /\ rpc'[i][j] = Sent(RequestTo(i, j, l, nextIndex[k][j]))
  BY <1>1, <1>3 DEF CallStep, Posts
<1>4. QED
  BY <1>1, <1>2, <1>3, BroadcastCall

\* A reply to the caller of q.
LEMMA RepliedCallStep ==
    ASSUME TypeOK, NEW q \in Request, NEW calls \in Calls,
           NEW status, NEW term, NEW index,
           rpc' = Replied(calls, q, status, term, index),
           NEW i \in Server, NEW j \in Server,
           SameOrRefused(rpc[i][j], calls[i][j]),
           state'[i] = Leader => state[i] = Leader /\ currentTerm'[i] = currentTerm[i],
           restarts' = restarts
    PROVE  \/ CallStep(i, j)
           \/ /\ Outlives(i, j) /\ q.from = i /\ q.to = j /\ rpc[i][j] = Sent(q)
              /\ rpc'[i][j] = [request |-> q, status |-> status, term |-> term,
                               index |-> index]
<1>1. CASE rpc'[i][j] = calls[i][j]
  BY <1>1, SameCallStep
<1>2. CASE /\ q.from = i /\ q.to = j /\ calls[i][j] = Sent(q)
           /\ rpc'[i][j] = [request |-> q, status |-> status, term |-> term,
                            index |-> index]
  <2>1. rpc[i][j] = Sent(q)
    BY <1>2 DEF SameOrRefused, Sent
  <2>2. Sent(q) # Nil
    BY SentType, CallAssumption
  <2>3. rpc[i][j].request = q /\ rpc'[i][j].request = q
    BY <1>2, <2>1 DEF Sent
  <2>4. QED
    BY <1>2, <2>1, <2>2, <2>3 DEF Outlives
<1>3. QED
  BY <1>1, <1>2, RepliedCall

\* handleAppendEntries answers the call it deals with, if it is one.
LEMMA AcceptCallStep ==
    ASSUME TypeOK, NEW q \in InFlight, AcceptAppend(q.to, q),
           NEW i \in Server, NEW j \in Server,
           state'[i] = Leader => state[i] = Leader /\ currentTerm'[i] = currentTerm[i]
    PROVE  CallStep(i, j)
<1> DEFINE k       == q.to
           kept    == Kept(log[k], q.prev, q.entries)
           l       == Merge(log[k], q.prev, q.entries)
           flushed == DurableAfter(k, kept, l)
           match   == q.prev + Len(q.entries)
           calls   == IF kept < Len(log[k]) /\ q.term = currentTerm[k]
                      THEN Revoked(rpc, k, q.term, kept + 1)
                      ELSE CallsIn(rpc, k, q.term)
<1>1. q \in Request /\ k \in Server /\ q.term \in Nat /\ rpc \in Calls
  BY InFlightType DEF Request, TypeOK, Calls
<1>2. /\ rpc' = Replied(calls, q, AckStatus(match, flushed), q.term, match)
      /\ durable' = [durable EXCEPT ![k] = flushed] /\ restarts' = restarts
  BY DEF AcceptAppend, faults
<1>3. durable'[k] = flushed
  BY <1>1, <1>2 DEF TypeOK
<1>4. kept + 1 \in Nat
  <2>1. log[k] \in Seq(Entry) /\ q.prev \in 0..Len(log[k]) /\ q.entries \in Seq(Entry)
    BY <1>1 DEF AcceptAppend, PrevMatches, TypeOK, Request
  <2>2. QED
    BY <2>1, KeptRange
<1> HIDE DEF k, kept, l, flushed, match
<1>5. calls \in Calls
  BY <1>1, <1>4, RevokedType, CallsInType
<1>6. SameOrRefused(rpc[i][j], calls[i][j])
  BY <1>1, RevokedCall, CallsInCall
<1> HIDE DEF calls
<1>7. CASE /\ Outlives(i, j) /\ q.from = i /\ q.to = j /\ rpc[i][j] = Sent(q)
           /\ rpc'[i][j] = [request |-> q, status |-> AckStatus(match, flushed),
                            term |-> q.term, index |-> match]
  <2>1. Answers(i, j)
    BY <1>3, <1>7 DEF Answers, k, match
  <2>2. QED
    BY <1>7, <2>1 DEF CallStep
<1>8. CASE CallStep(i, j)
  BY <1>8
<1>9. QED
  BY <1>1, <1>2, <1>5, <1>6, <1>7, <1>8, RepliedCallStep

\* So does its refusal.
LEMMA RefuseCallStep ==
    ASSUME TypeOK, NEW q \in InFlight,
           RejectAppend(q.to, q) \/ MismatchAppend(q.to, q),
           NEW i \in Server, NEW j \in Server,
           state'[i] = Leader => state[i] = Leader /\ currentTerm'[i] = currentTerm[i]
    PROVE  CallStep(i, j)
<1>1. q \in Request /\ q.to \in Server /\ q.term \in Nat /\ rpc \in Calls
  BY InFlightType DEF Request, TypeOK, Calls
<1>2. \E calls \in Calls : \E term, index :
         /\ rpc' = Replied(calls, q, "refused", term, index)
         /\ SameOrRefused(rpc[i][j], calls[i][j])
  <2>1. CASE RejectAppend(q.to, q)
    BY <1>1, <2>1 DEF RejectAppend, SameOrRefused
  <2>2. CASE MismatchAppend(q.to, q)
    BY <1>1, <2>2, CallsInType, CallsInCall DEF MismatchAppend
  <2>3. QED
    BY <2>1, <2>2
<1>3. restarts' = restarts
  BY DEF RejectAppend, MismatchAppend, faults
<1>4. PICK calls, term, index :
         /\ calls \in Calls
         /\ rpc' = Replied(calls, q, "refused", term, index)
         /\ SameOrRefused(rpc[i][j], calls[i][j])
  BY <1>2
<1>5. CASE /\ Outlives(i, j)
           /\ rpc'[i][j] = [request |-> q, status |-> "refused", term |-> term,
                            index |-> index]
  BY <1>5 DEF CallStep, Refuses
<1>6. CASE CallStep(i, j)
  BY <1>6
<1>7. QED
  BY <1>1, <1>3, <1>4, <1>5, <1>6, RepliedCallStep

\* _flushLog sends the acknowledgements out, or refuses them when paused.
LEMMA FlushCallStep ==
    ASSUME TypeOK, NEW k \in Server, Flush(k),
           NEW i \in Server, NEW j \in Server,
           state'[i] = Leader => state[i] = Leader /\ currentTerm'[i] = currentTerm[i]
    PROVE  CallStep(i, j)
<1>1. /\ UNCHANGED <<log, currentTerm, restarts>> /\ rpc \in Calls
      /\ durable' = [durable EXCEPT ![k] = Len(log[k])]
  BY DEF Flush, faults, TypeOK, Calls
<1>2. CASE paused[k]
  <2>1. rpc' = Revoked(rpc, k, currentTerm[k], Len(log[k]) + 1)
    BY <1>2 DEF Flush
  <2>2. SameOrRefused(rpc[i][j], rpc'[i][j])
    BY <1>1, <2>1, RevokedCall
  <2>3. QED
    BY <1>1, <2>2, SameCallStep
<1>3. CASE ~paused[k]
  <2>1. rpc'[i][j] = IF j = k /\ IsHeld(rpc[i][j])
                     THEN [rpc[i][j] EXCEPT !.status = "acked"]
                     ELSE rpc[i][j]
    BY <1>3 DEF Flush
  <2>2. CASE j = k /\ IsHeld(rpc[i][j])
    <3>1. rpc'[i][j] = [rpc[i][j] EXCEPT !.status = "acked"] /\ rpc[i][j] # Nil
      BY <2>1, <2>2 DEF IsHeld
    <3>2. rpc[i][j] \in Call
      BY <3>1 DEF TypeOK
    <3>3. rpc'[i][j].request = rpc[i][j].request
      BY <3>1, <3>2 DEF Call
    <3>4. durable'[j] = Len(log[j])
      BY <1>1, <2>2 DEF TypeOK
    <3>5. Outlives(i, j) /\ Flushes(i, j)
      BY <1>1, <2>2, <3>1, <3>3, <3>4 DEF Outlives, Flushes
    <3>6. QED
      BY <3>5 DEF CallStep
  <2>3. CASE ~ (j = k /\ IsHeld(rpc[i][j]))
    <3>1. SameOrRefused(rpc[i][j], rpc'[i][j])
      BY <2>1, <2>3 DEF SameOrRefused
    <3>2. QED
      BY <1>1, <3>1, SameCallStep
  <2>4. QED
    BY <2>2, <2>3
<1>4. QED
  BY <1>2, <1>3

\* Whatever a turn of the event loop does to a call is a step of the call.
LEMMA NextCalls ==
    ASSUME TypeOK, [Next]_vars, NEW i \in Server, NEW j \in Server
    PROVE  CallStep(i, j)
<1> DEFINE Stays == state'[i] = Leader =>
                        state[i] = Leader /\ currentTerm'[i] = currentTerm[i]
<1>1. CASE ~ Stays
  <2>1. Lead(i) /\ \E g \in grants : CountVote(i, g)
    BY <1>1, NextLeads
  <2>2. QED
    BY <2>1, LeadCallStep
<1>2. ASSUME Stays, restarts' = restarts, SameOrRefused(rpc[i][j], rpc'[i][j])
      PROVE  CallStep(i, j)
  BY <1>2, SameCallStep
<1>3. ASSUME Stays, restarts' = restarts, NEW k \in Server, NEW T,
             NEW calls \in Calls, rpc' = CallsIn(calls, k, T),
             calls[i][j] \in {rpc[i][j], Nil}
      PROVE  CallStep(i, j)
  <2>1. SameOrRefused(calls[i][j], rpc'[i][j])
    BY <1>3, CallsInCall
  <2>2. rpc'[i][j] = Nil \/ SameOrRefused(rpc[i][j], rpc'[i][j])
    BY <1>3, <2>1 DEF SameOrRefused
  <2>3. QED
    BY <1>2, <1>3, <2>2 DEF CallStep
<1>4. ASSUME Stays, restarts' = restarts, UNCHANGED rpc
      PROVE  CallStep(i, j)
  BY <1>2, <1>4 DEF SameOrRefused
<1>5. rpc \in Calls
  BY DEF TypeOK, Calls
<1>6. CASE Stays /\ ElectionStep
  <2>1. restarts' = restarts
    BY <1>6
    DEF ElectionStep, StartElection, GrantVote, RefuseVote, LearnTerm, StepDown,
        CountVote, faults
  <2>2. ASSUME NEW k \in Server, StartElection(k)
        PROVE  UNCHANGED rpc
    BY <2>2 DEF StartElection
  <2>3. ASSUME NEW k \in Server, NEW b \in ballots, GrantVote(k, b)
        PROVE  CallStep(i, j)
    BY <1>3, <1>5, <1>6, <2>1, <2>3 DEF GrantVote
  <2>4. ASSUME NEW k \in Server, NEW T, StepDown(k, T, rpc)
        PROVE  CallStep(i, j)
    BY <1>3, <1>5, <1>6, <2>1, <2>4 DEF StepDown
  <2>5. ASSUME NEW k \in Server, NEW g \in grants, CountVote(k, g)
        PROVE  Lead(k) \/ UNCHANGED rpc
    BY <2>5 DEF CountVote
  <2>6. ASSUME NEW k \in Server, NEW b \in ballots, RefuseVote(k, b)
        PROVE  CallStep(i, j)
    BY <2>4, <2>6 DEF RefuseVote
  <2>7. ASSUME NEW k \in Server, NEW b \in ballots, NEW v \in Server,
               LearnTerm(k, b, v)
        PROVE  CallStep(i, j)
    BY <2>4, <2>7 DEF LearnTerm
  <2>8. QED
    BY <1>4, <1>6, <2>1, <2>2, <2>3, <2>5, <2>6, <2>7, LeadCallStep
    DEF ElectionStep
<1>7. CASE Stays /\ LeaderStep
  <2>1. restarts' = restarts
    <3>1. ASSUME NEW k \in Server,
                 Heartbeat(k) \/ \E c \in Command : ClientAppend(k, c)
          PROVE  restarts' = restarts
      BY <3>1 DEF Heartbeat, ClientAppend, faults
    <3>2. ASSUME NEW k \in Server, NEW m \in Server,
                 \/ AppendDeposed(k, m) \/ AppendSucceeded(k, m)
                 \/ AppendRefused(k, m) \/ CallEnds(k, m)
          PROVE  restarts' = restarts
      BY <3>2
      DEF AppendDeposed, StepDown, AppendSucceeded, AppendRefused, CallEnds, faults
    <3>3. QED
      BY <1>7, <3>1, <3>2 DEF LeaderStep
  <2>2. ASSUME NEW k \in Server, Heartbeat(k)
        PROVE  CallStep(i, j)
    <3>1. /\ UNCHANGED <<log, state, currentTerm>> /\ state[k] = Leader
          /\ rpc' = Broadcast(k, rpc, log[k], nextIndex[k])
      BY <2>2 DEF Heartbeat, logVars, metaVars
    <3>2. log[k] = log'[k] /\ state'[k] = Leader
      BY <3>1
    <3>3. QED
      BY <1>7, <2>1, <3>1, <3>2, BroadcastCallStep
  <2>3. ASSUME NEW k \in Server, NEW c \in Command, ClientAppend(k, c)
        PROVE  CallStep(i, j)
    <3> DEFINE l == Append(log[k], [term |-> currentTerm[k], data |-> c])
    <3>1. /\ log' = [log EXCEPT ![k] = l] /\ UNCHANGED <<state, currentTerm>>
          /\ state[k] = Leader
          /\ rpc' = IF paused[k] THEN rpc ELSE Broadcast(k, rpc, l, nextIndex[k])
      BY <2>3 DEF ClientAppend, metaVars
    <3>2. l = log'[k] /\ state'[k] = Leader
      BY <3>1 DEF TypeOK
    <3> HIDE DEF l
    <3>3. CASE paused[k]
      BY <1>4, <1>7, <2>1, <3>1, <3>3
    <3>4. CASE ~paused[k]
      BY <1>7, <2>1, <3>1, <3>2, <3>4, BroadcastCallStep
    <3>5. QED
      BY <3>3, <3>4
  <2>4. ASSUME NEW k \in Server, NEW m \in Server, AppendDeposed(k, m)
        PROVE  CallStep(i, j)
    <3> DEFINE calls == [rpc EXCEPT ![k][m] = Nil]
    <3>1. rpc' = CallsIn(calls, k, rpc[k][m].term)
      BY <2>4 DEF AppendDeposed, StepDown
    <3>2. calls \in Calls /\ calls[i][j] \in {rpc[i][j], Nil}
      BY <1>5 DEF Calls
    <3> HIDE DEF calls
    <3>3. QED
      BY <1>3, <1>7, <2>1, <3>1, <3>2
  <2>5. ASSUME NEW k \in Server, NEW m \in Server,
               rpc' = [rpc EXCEPT ![k][m] = Nil]
        PROVE  CallStep(i, j)
    <3>1. rpc'[i][j] \in {rpc[i][j], Nil}
      BY <1>5, <2>5 DEF Calls
    <3>2. QED
      BY <1>2, <1>7, <2>1, <3>1 DEF CallStep, SameOrRefused
  <2>6. ASSUME NEW k \in Server, NEW m \in Server, AppendRefused(k, m)
        PROVE  CallStep(i, j)
    <3> DEFINE next == Backed(rpc[k][m].request.prev, rpc[k][m].index)
    <3>1. /\ UNCHANGED <<log, state, currentTerm>> /\ state[k] = Leader
          /\ rpc[k][m] # Nil
          /\ rpc' = [rpc EXCEPT ![k][m] = IF paused[k] THEN Nil
                                    ELSE Sent(RequestTo(k, m, log[k], next))]
      BY <2>6 DEF AppendRefused, logVars, metaVars
    <3>2. next \in Nat \ {0}
      <4>1. rpc[k][m].request.prev \in Nat /\ rpc[k][m].index \in Nat
        BY <3>1, CallType DEF Request
      <4>2. QED
        BY <4>1 DEF Backed, Larger
    <3> HIDE DEF next
    <3>3. \/ rpc'[i][j] \in {rpc[i][j], Nil}
          \/ i = k /\ j = m /\ rpc'[i][j] = Sent(RequestTo(i, j, log'[i], next))
      BY <1>5, <3>1 DEF Calls
    <3>4. CASE rpc'[i][j] \in {rpc[i][j], Nil}
      BY <1>2, <1>7, <2>1, <3>4 DEF CallStep, SameOrRefused
    <3>5. CASE i = k /\ rpc'[i][j] = Sent(RequestTo(i, j, log'[i], next))
      BY <3>1, <3>2, <3>5 DEF CallStep, Posts
    <3>6. QED
      BY <3>3, <3>4, <3>5
  <2>7. ASSUME NEW k \in Server, NEW m \in Server,
               AppendSucceeded(k, m) \/ CallEnds(k, m)
        PROVE  rpc' = [rpc EXCEPT ![k][m] = Nil]
    BY <2>7 DEF AppendSucceeded, CallEnds
  <2>8. QED
    BY <1>7, <2>2, <2>3, <2>4, <2>5, <2>6, <2>7 DEF LeaderStep
<1>8. CASE Stays /\ FollowerStep
  BY <1>8, AcceptCallStep, RefuseCallStep DEF FollowerStep
<1>9. CASE Stays /\ DiskStep
  <2>1. ASSUME NEW k \in Server, StoreCommit(k)
        PROVE  UNCHANGED <<rpc, restarts>>
    BY <2>1 DEF StoreCommit, faults
  <2>2. QED
    BY <1>4, <1>9, <2>1, FlushCallStep DEF DiskStep
<1>10. CASE Stays /\ FaultStep
  <2>1. ASSUME NEW k \in Server, Pause(k) \/ Resume(k)
        PROVE  UNCHANGED <<rpc, restarts>>
    BY <2>1 DEF Pause, Resume, faults
  <2>2. ASSUME NEW k \in Server, Restart(k)
        PROVE  CallStep(i, j)
    <3>1. rpc'[i][j] = IF i = k \/ (j = k /\ IsHeld(rpc[i][j])) THEN Nil
                       ELSE rpc[i][j]
      BY <2>2 DEF Restart
    <3>2. j # k => log'[j] = log[j]
      BY <2>2 DEF Restart, TypeOK
    <3>3. CASE rpc'[i][j] = Nil
      BY <3>3 DEF CallStep
    <3>4. CASE rpc'[i][j] # Nil
      <4>1. rpc'[i][j] = rpc[i][j] /\ (IsHeld(rpc[i][j]) => j # k)
        BY <3>1, <3>4
      <4>2. Keeps(i, j) /\ Outlives(i, j)
        BY <1>10, <3>2, <3>4, <4>1 DEF Keeps, Outlives
      <4>3. QED
        BY <4>2 DEF CallStep
    <3>5. QED
      BY <3>3, <3>4
  <2>3. QED
    BY <1>4, <1>10, <2>1, <2>2 DEF FaultStep
<1>11. CASE Stays /\ UNCHANGED vars
  BY <1>4, <1>11 DEF vars
<1>12. QED
  BY <1>1, <1>6, <1>7, <1>8, <1>9, <1>10, <1>11 DEF Next

-----------------------------------------------------------------------------
(***************************************************************************)
(* The requests. Each AppendEntries request there is, called or late,      *)
(* carries a piece of what the leader of its term has written.             *)
(***************************************************************************)
Carried == late \cup
    {q \in Request : \E i, j \in Server : rpc[i][j] # Nil /\ rpc[i][j].request = q}

\* Calls are their caller's, and of its present leadership if it leads.
CallsOwned ==
    \A i, j \in Server : rpc[i][j] # Nil =>
        /\ rpc[i][j].request.from = i /\ rpc[i][j].request.to = j
        /\ state[i] = Leader => rpc[i][j].request.term = currentTerm[i]

RequestInv == CallsOwned /\ \A q \in Carried : Piece(written, q)

LEMMA CallCarried ==
    ASSUME TypeOK, NEW i \in Server, NEW j \in Server, rpc[i][j] # Nil
    PROVE  rpc[i][j].request \in Carried
BY CallType DEF Carried

LEMMA CarriedType ==
    ASSUME TypeOK
    PROVE  Carried \subseteq Request
BY DEF Carried, TypeOK

LEMMA InFlightCarried ==
    ASSUME TypeOK
    PROVE  InFlight \subseteq Carried
<1> SUFFICES ASSUME NEW q \in InFlight, q \notin late
             PROVE  q \in Carried
  BY DEF Carried
<1>1. PICK ij \in Server \X Server : /\ rpc[ij[1]][ij[2]] # Nil
                                     /\ q = rpc[ij[1]][ij[2]].request
  BY DEF InFlight
<1>2. ij[1] \in Server /\ ij[2] \in Server
  OBVIOUS
<1>3. QED
  BY <1>1, <1>2, CallCarried

\* A request is late only if it was one before.
LEMMA NextLate ==
    ASSUME TypeOK, [Next]_vars
    PROVE  late' \subseteq Carried
<1>1. late \subseteq Carried
  BY DEF Carried
<1>2. CASE UNCHANGED late
  BY <1>1, <1>2
<1>3. ASSUME NEW q \in InFlight, Delivered(q)
      PROVE  late' \subseteq Carried
  BY <1>1, <1>3, InFlightCarried DEF Delivered
<1>4. ASSUME NEW i \in Server, NEW j \in Server, CallEnds(i, j)
      PROVE  late' \subseteq Carried
  BY <1>1, <1>4, CallCarried DEF CallEnds
<1>5. CASE ElectionStep
  BY <1>2, <1>5
  DEF ElectionStep, StartElection, GrantVote, RefuseVote, LearnTerm, StepDown,
      CountVote
<1>6. CASE LeaderStep
  <2>1. ASSUME NEW k \in Server,
               Heartbeat(k) \/ \E c \in Command : ClientAppend(k, c)
        PROVE  UNCHANGED late
    BY <2>1 DEF Heartbeat, ClientAppend
  <2>2. ASSUME NEW k \in Server, NEW m \in Server,
               AppendDeposed(k, m) \/ AppendSucceeded(k, m) \/ AppendRefused(k, m)
        PROVE  UNCHANGED late
    BY <2>2 DEF AppendDeposed, StepDown, AppendSucceeded, AppendRefused
  <2>3. QED
    BY <1>2, <1>4, <1>6, <2>1, <2>2 DEF LeaderStep
<1>7. CASE FollowerStep
  BY <1>3, <1>7 DEF FollowerStep, RejectAppend, MismatchAppend, AcceptAppend
<1>8. CASE DiskStep
  BY <1>2, <1>8 DEF DiskStep, Flush, StoreCommit
<1>9. CASE FaultStep
  BY <1>2, <1>9 DEF FaultStep, Restart, Pause, Resume
<1>10. QED
  BY <1>2, <1>5, <1>6, <1>7, <1>8, <1>9 DEF Next, vars

\* What leaders post is all that is new.
LEMMA NextCarried ==
    ASSUME TypeOK, TypeOK', [Next]_vars, NEW q \in Carried', q \notin Carried
    PROVE  \E i, j \in Server : /\ q = rpc'[i][j].request /\ rpc'[i][j] # Nil
                                /\ Posts(i, j)
<1>1. PICK i, j \in Server : rpc'[i][j] # Nil /\ rpc'[i][j].request = q
  BY NextLate DEF Carried
<1>2. CallStep(i, j)
  BY NextCalls
<1>3. ~ Outlives(i, j)
  BY <1>1, CallCarried DEF Outlives
<1>4. QED
  BY <1>1, <1>2, <1>3 DEF CallStep

\* A request built from the log a leader writes is a piece of it.
LEMMA RequestToPiece ==
    ASSUME TypeOK, NEW w, NEW i \in Server, NEW j \in Server,
           NEW l \in Seq(Entry), NEW next \in Nat \ {0},
           currentTerm[i] \in DOMAIN w, w[currentTerm[i]] = l
    PROVE  LET q == RequestTo(i, j, l, next)
           IN  /\ Piece(w, q) /\ q.from = i /\ q.to = j
               /\ q.term = currentTerm[i] /\ q.commit = commitIndex[i]
<1> DEFINE first == Larger(1, Smaller(next, Len(l) + 1))
           q == RequestTo(i, j, l, next)
           es == Batch(l, first, MaxBatch)
<1>1. first \in 1..(Len(l) + 1)
  BY DEF Larger, Smaller
<1>2. /\ q.from = i /\ q.to = j /\ q.term = currentTerm[i]
      /\ q.commit = commitIndex[i] /\ q.prev = first - 1
      /\ q.prevTerm = TermAt(l, first - 1) /\ q.entries = es
  BY DEF RequestTo
<1> HIDE DEF first, q
<1>3. /\ first - 1 + Len(es) <= Len(l)
      /\ \A k \in 1..Len(es) : es[k] = l[first - 1 + k]
  BY <1>1, OptionAssumption, BatchPiece
<1>4. Piece(w, q)
  BY <1>2, <1>3 DEF Piece
<1>5. QED
  BY <1>2, <1>4 DEF q

-----------------------------------------------------------------------------
\* Logs and requests together.
SafeLogs == ElectionInv /\ LogInv /\ RequestInv

\* What has been written stays.
LEMMA NextExtends ==
    ASSUME TypeOK, TypeOK', LogInv, ElectionSafety', [Next]_vars
    PROVE  Extends(written, written')
<1>1. CASE UNCHANGED written
  <2>1. \A t \in DOMAIN written : Agree(written[t], written[t], Len(written[t]))
    BY AgreeSelf DEF TypeOK
  <2>2. QED
    BY <1>1, <2>1 DEF Extends
<1>2. ASSUME NEW i \in Server, NEW e \in Entry, Appends(i, e)
      PROVE  Extends(written, written')
  BY <1>2, AppendExtends
<1>3. \A i \in Server : [term |-> currentTerm[i], data |-> Noop] \in Entry
  BY DEF TypeOK, Entry
<1>4. \A i \in Server, c \in Command :
         [term |-> currentTerm[i], data |-> c] \in Entry
  BY DEF TypeOK, Entry
<1>5. ASSUME NEW i \in Server, Restart(i)
      PROVE  UNCHANGED written
  BY <1>5 DEF Restart, history
<1>6. ASSUME NEW q \in InFlight, AcceptAppend(q.to, q)
      PROVE  UNCHANGED written
  BY <1>6 DEF AcceptAppend, history
<1>7. ASSUME NEW i \in Server, NEW g \in grants, CountVote(i, g), Lead(i)
      PROVE  Extends(written, written')
  BY <1>2, <1>3, <1>7, LeadAppends
<1>8. ASSUME NEW i \in Server, NEW c \in Command, ClientAppend(i, c)
      PROVE  Extends(written, written')
  BY <1>2, <1>4, <1>8, ClientAppends
<1>9. Quiet => UNCHANGED written
  BY DEF Quiet
<1>10. QED
  BY <1>1, <1>5, <1>6, <1>7, <1>8, <1>9, StepKinds

LEMMA WrittenLogs ==
    ASSUME TypeOK
    PROVE  Logs(Entry, written)
BY EntryTerms DEF TypeOK, Logs

\* A follower that accepts a request leaves a log with its sources.
LEMMA AcceptMerges ==
    ASSUME TypeOK, LogInv, RequestInv, NEW q \in InFlight, AcceptAppend(q.to, q)
    PROVE  LET j    == q.to
               u    == q.term
               n    == q.prev + Len(q.entries)
               kept == Kept(log[j], q.prev, q.entries)
               r    == Merge(log[j], q.prev, q.entries)
           IN  /\ j \in Server /\ u \in DOMAIN written /\ u >= currentTerm[j]
               /\ Rewrites(j, r, u)
               /\ Sourced(written, r, u) /\ r \in Seq(Entry)
               /\ n \in Nat /\ n <= Len(r) /\ Agree(r, written[u], n)
               /\ kept \in 0..Len(log[j]) /\ Agree(r, log[j], kept)
               /\ \A m \in Nat :
                     Agree(log[j], written[u], m) => Agree(r, written[u], m)
               /\ kept < Len(log[j]) =>
                     \A m \in Nat : Agree(log[j], written[u], m) => m <= kept
               /\ Len(r) > n => r = log[j]
<1> DEFINE j    == q.to
           u    == q.term
           l    == log[j]
           t    == currentTerm[j]
           n    == q.prev + Len(q.entries)
           kept == Kept(l, q.prev, q.entries)
           r    == Merge(l, q.prev, q.entries)
<1>1. /\ q \in Request /\ q \in Carried /\ Piece(written, q)
      /\ q.prev \in Nat /\ q.entries \in Seq(Entry)
  BY InFlightType, InFlightCarried DEF RequestInv, Request
<1>2. /\ j \in Server /\ u \in DOMAIN written /\ u \in Nat /\ u >= t
      /\ PrevMatches(l, q.prev, q.prevTerm)
  BY <1>1 DEF Request, Piece, AcceptAppend
<1>3. /\ l \in Seq(Entry) /\ t \in Nat /\ Logs(Entry, written)
      /\ Sourced(written, l, t) /\ Sourced(written, written[u], u)
  BY <1>2, WrittenLogs DEF TypeOK, LogInv, LogsSourced, WrittenSourced
<1>4. Rewrites(j, r, u)
  BY AcceptRewrites
<1> HIDE DEF j, l, t
<1>5. t <= u /\ q.term = u
  BY <1>2, <1>3
<1> HIDE DEF u
<1>6. Sourced(written, r, u) /\ r \in Seq(Entry)
  BY <1>1, <1>2, <1>3, <1>5, SourcedMerge
<1>7. n \in Nat /\ n <= Len(r) /\ Agree(r, written[u], n)
  BY <1>1, <1>2, <1>3, <1>5, SourcedMerge
<1>8. kept \in 0..Len(l) /\ Agree(r, l, kept)
  BY <1>1, <1>2, <1>3, <1>5, SourcedMerge
<1>9. \A m \in Nat : Agree(l, written[u], m) => Agree(r, written[u], m)
  BY <1>1, <1>2, <1>3, <1>5, SourcedMerge
<1>10. kept < Len(l) => \A m \in Nat : Agree(l, written[u], m) => m <= kept
  BY <1>1, <1>2, <1>3, <1>5, SourcedMerge
<1>11. Len(r) > n => r = l
  BY <1>1, <1>2, <1>3, <1>5, SourcedMerge
<1> HIDE DEF n, kept, r
<1>12. QED
  BY <1>2, <1>4, <1>6, <1>7, <1>8, <1>9, <1>10, <1>11 DEF j, l, t, u, n, kept, r

\* Every step leaves the logs made of pieces of what leaders write.
LEMMA NextLogInv ==
    ASSUME TypeOK, TypeOK', LogInv, RequestInv, ElectionSafety', [Next]_vars
    PROVE  LogInv'
<1>1. CASE Quiet
  BY <1>1, QuietLogInv
<1>2. ASSUME NEW i \in Server, Restart(i)
      PROVE  LogInv'
  <2>1. PICK kept \in durable[i]..Len(log[i]) :
           Rewrites(i, SubSeq(log[i], 1, kept), currentTerm[i])
    BY <1>2, RestartRewrites
  <2> DEFINE r == SubSeq(log[i], 1, kept)
  <2>2. /\ log[i] \in Seq(Entry) /\ durable[i] \in Nat /\ currentTerm[i] \in Nat
        /\ Sourced(written, log[i], currentTerm[i]) /\ Logs(Entry, written)
    BY WrittenLogs DEF TypeOK, LogInv, LogsSourced
  <2>3. kept \in 0..Len(log[i])
    BY <2>2
  <2>4. r \in Seq(Entry) /\ Agree(r, log[i], Len(r))
    BY <2>2, <2>3, PrefixAgrees
  <2> HIDE DEF r
  <2>5. Sourced(written, r, currentTerm[i])
    BY <2>2, <2>4, SourcedPrefix
  <2>6. Rewrites(i, r, currentTerm[i])
    BY <2>1 DEF r
  <2>7. QED
    BY <2>2, <2>4, <2>5, <2>6, RewriteLogInv
<1>3. ASSUME NEW q \in InFlight, AcceptAppend(q.to, q)
      PROVE  LogInv'
  <2> DEFINE r == Merge(log[q.to], q.prev, q.entries)
  <2>1. /\ q.to \in Server /\ q.term \in DOMAIN written
        /\ Rewrites(q.to, r, q.term)
    BY <1>3, AcceptMerges
  <2>2. Sourced(written, r, q.term) /\ r \in Seq(Entry)
    BY <1>3, AcceptMerges
  <2> HIDE DEF r
  <2>3. q.term \in Nat
    BY <2>1 DEF TypeOK
  <2>4. QED
    BY <2>1, <2>2, <2>3, RewriteLogInv
<1>4. \A i \in Server, c \in Command \cup {Noop} :
         [term |-> currentTerm[i], data |-> c] \in Entry
  BY DEF TypeOK, Entry
<1>5. ASSUME NEW i \in Server, NEW g \in grants, CountVote(i, g), Lead(i)
      PROVE  LogInv'
  BY <1>4, <1>5, LeadAppends, AppendLogInv
<1>6. ASSUME NEW i \in Server, NEW c \in Command, ClientAppend(i, c)
      PROVE  LogInv'
  BY <1>4, <1>6, ClientAppends, AppendLogInv
<1>7. QED
  BY <1>1, <1>2, <1>3, <1>5, <1>6, StepKinds

\* Every step leaves the requests pieces of what leaders write.
LEMMA NextRequestInv ==
    ASSUME TypeOK, TypeOK', LogInv, LogInv', RequestInv, ElectionSafety',
           [Next]_vars
    PROVE  RequestInv'
<1>1. Extends(written, written') /\ Logs(Entry, written) /\ Logs(Entry, written')
  <2>1. Logs(Entry, written) /\ Logs(Entry, written')
    BY EntryTerms DEF TypeOK, Logs
  <2>2. QED
    BY <2>1, NextExtends
<1>2. ASSUME NEW i \in Server, NEW j \in Server, Posts(i, j)
      PROVE  LET q == rpc'[i][j].request
             IN  /\ Piece(written', q) /\ q.from = i /\ q.to = j
                 /\ q.term = currentTerm[i] /\ currentTerm'[i] = currentTerm[i]
  <2>1. PICK next \in Nat \ {0} :
           rpc'[i][j] = Sent(RequestTo(i, j, log'[i], next))
    BY <1>2 DEF Posts
  <2>2. log'[i] \in Seq(Entry)
    BY DEF TypeOK
  <2>3. currentTerm'[i] = currentTerm[i] /\ state'[i] = Leader
    BY <1>2 DEF Posts
  <2>4. <<currentTerm[i], i>> \in leaders' /\ written'[currentTerm[i]] = log'[i]
    BY <2>3 DEF LogInv, LeadersWrite
  <2>5. currentTerm[i] \in DOMAIN written'
    <3>1. <<currentTerm[i], i>>[1] \in DOMAIN written'
      BY <2>4 DEF LogInv, TermsLed
    <3>2. QED
      BY <3>1
  <2>6. rpc'[i][j].request = RequestTo(i, j, log'[i], next)
    BY <2>1 DEF Sent
  <2> DEFINE q == RequestTo(i, j, log'[i], next)
  <2>7. /\ Piece(written', q) /\ q.from = i /\ q.to = j
        /\ q.term = currentTerm[i]
    BY <2>2, <2>4, <2>5, RequestToPiece
  <2> HIDE DEF q
  <2>8. QED
    BY <2>3, <2>6, <2>7 DEF q
<1>3. ASSUME NEW q \in Carried'
      PROVE  Piece(written', q)
  <2>1. CASE q \in Carried
    BY <1>1, <2>1, CarriedType, PieceExtends DEF RequestInv, Request
  <2>2. CASE q \notin Carried
    BY <1>2, <2>2, NextCarried
  <2>3. QED
    BY <2>1, <2>2
<1>4. CallsOwned'
  <2> SUFFICES ASSUME NEW i \in Server, NEW j \in Server, rpc'[i][j] # Nil
               PROVE  /\ rpc'[i][j].request.from = i
                      /\ rpc'[i][j].request.to = j
                      /\ state'[i] = Leader =>
                            rpc'[i][j].request.term = currentTerm'[i]
    BY DEF CallsOwned
  <2>1. CallStep(i, j)
    BY NextCalls
  <2>2. CASE Posts(i, j)
    BY <1>2, <2>2
  <2>3. CASE Outlives(i, j)
    BY <2>3 DEF Outlives, RequestInv, CallsOwned
  <2>4. QED
    BY <2>1, <2>2, <2>3 DEF CallStep
<1>5. QED
  BY <1>3, <1>4 DEF RequestInv

LEMMA InitSafeLogs == Init => SafeLogs
<1> SUFFICES ASSUME Init
             PROVE  SafeLogs
  OBVIOUS
<1>1. ElectionInv
  BY InitElectionInv
<1>2. TermsLed /\ LeadersWrite /\ LeadersMoveOn /\ CandidatesMovedOn
  BY DEF Init, TermsLed, LeadersWrite, LeadersMoveOn, CandidatesMovedOn,
         Follower, Leader, Candidate
<1>3. LogsSourced /\ WrittenSourced
  BY DEF Init, LogsSourced, WrittenSourced, Sourced
<1>4. RequestInv
  BY DEF Init, RequestInv, CallsOwned, Carried
<1>5. QED
  BY <1>1, <1>2, <1>3, <1>4 DEF SafeLogs, LogInv

LEMMA NextSafeLogs == TypeOK /\ TypeOK' /\ SafeLogs /\ [Next]_vars => SafeLogs'
<1> SUFFICES ASSUME TypeOK, TypeOK', SafeLogs, [Next]_vars
             PROVE  SafeLogs'
  OBVIOUS
<1>1. ElectionInv'
  BY NextElectionInv DEF SafeLogs
<1>2. ElectionSafety'
  <2>1. ElectionInv' /\ TypeOK' => ElectionSafety'
    BY ElectionInvSafe, PTL
  <2>2. QED
    BY <1>1, <2>1
<1>3. LogInv'
  BY <1>2, NextLogInv DEF SafeLogs
<1>4. RequestInv'
  BY <1>2, <1>3, NextRequestInv DEF SafeLogs
<1>5. QED
  BY <1>1, <1>3, <1>4 DEF SafeLogs

LEMMA LogsSafe == Spec => []SafeLogs
BY InitSafeLogs, NextSafeLogs, TypeCorrect, PTL DEF Spec

\* checkLogConsistency of the simulator, for every cluster and every log: two
\* entries of one index and term have the same entries before them, although
\* requests are cut into batches, duplicated, late and overtaken.
THEOREM LogsMatch == Spec => []LogMatching
<1>1. TypeOK /\ SafeLogs => LogMatching
  <2> SUFFICES ASSUME TypeOK, SafeLogs, NEW i \in Server, NEW j \in Server,
                      NEW k \in 1..Smaller(Len(log[i]), Len(log[j])),
                      log[i][k].term = log[j][k].term
               PROVE  SubSeq(log[i], 1, k) = SubSeq(log[j], 1, k)
    BY DEF LogMatching
  <2>1. log[i] \in Seq(Entry) /\ log[j] \in Seq(Entry)
    BY DEF TypeOK
  <2>2. k \in 1..Len(log[i]) /\ k \in 1..Len(log[j])
    BY <2>1 DEF Smaller
  <2>3. /\ Sourced(written, log[i], currentTerm[i])
        /\ Sourced(written, log[j], currentTerm[j])
    BY DEF SafeLogs, LogInv, LogsSourced
  <2>4. k <= Len(log[j])
    BY <2>2
  <2> DEFINE l == log[i]
             c == log[j]
  <2> HIDE DEF l, c
  <2>5. Agree(l, c, k)
    BY <2>1, <2>2, <2>3, <2>4, SourcedMatch DEF l, c
  <2>6. SubSeq(l, 1, k) = SubSeq(c, 1, k)
    BY <2>1, <2>2, <2>5, AgreePrefix, SMTT(30) DEF l, c
  <2>7. QED
    BY <2>6 DEF l, c
<1>2. QED
  BY <1>1, LogsSafe, TypeCorrect, PTL

-----------------------------------------------------------------------------
(***************************************************************************)
(* Commands once. What a leader has written holds no command twice, so no  *)
(* log does; clientAppend's scan of the leader's log is enough.            *)
(***************************************************************************)
Once(l) ==
    \A k, m \in 1..Len(l) :
        k # m /\ l[k].data = l[m].data => l[k].data = Noop

WrittenOnce == \A t \in DOMAIN written : Once(written[t])

LEMMA OncePrefix ==
    ASSUME NEW l \in Seq(Entry), NEW r \in Seq(Entry), Agree(r, l, Len(r)),
           Once(l)
    PROVE  Once(r)
BY DEF Once, Agree

LEMMA OnceAppend ==
    ASSUME NEW l \in Seq(Entry), NEW e \in Entry, Once(l),
           e.data = Noop \/ ~Duplicate(l, e.data)
    PROVE  Once(Append(l, e))
<1> DEFINE r == Append(l, e)
<1>1. /\ r \in Seq(Entry) /\ Len(r) = Len(l) + 1 /\ r[Len(l) + 1] = e
      /\ Agree(r, l, Len(l))
  BY AppendAgrees
<1> HIDE DEF r
<1>2. \A k \in 1..Len(l) : r[k] = l[k]
  BY <1>1 DEF Agree
<1>3. ASSUME NEW k \in 1..Len(r), NEW m \in 1..Len(r), k # m,
             r[k].data = r[m].data
      PROVE  r[k].data = Noop
  <2>1. CASE k \in 1..Len(l) /\ m \in 1..Len(l)
    BY <1>2, <1>3, <2>1 DEF Once
  <2>2. CASE k \in 1..Len(l) /\ m = Len(l) + 1
    BY <1>1, <1>2, <1>3, <2>2 DEF Duplicate
  <2>3. CASE k = Len(l) + 1 /\ m \in 1..Len(l)
    BY <1>1, <1>2, <1>3, <2>3 DEF Duplicate
  <2>4. QED
    BY <1>1, <1>3, <2>1, <2>2, <2>3
<1>4. QED
  BY <1>3 DEF Once, r

LEMMA SourcedOnce ==
    ASSUME TypeOK, WrittenOnce, NEW l \in Seq(Entry), NEW t,
           Sourced(written, l, t)
    PROVE  Once(l)
<1>1. CASE Len(l) = 0
  BY <1>1 DEF Once
<1>2. CASE Len(l) # 0
  <2> DEFINE u == l[Len(l)].term
  <2>1. Len(l) \in 1..Len(l)
    BY <1>2
  <2>2. u \in DOMAIN written /\ Agree(l, written[u], Len(l))
    BY <2>1 DEF Sourced
  <2>3. written[u] \in Seq(Entry) /\ Once(written[u])
    BY <2>2 DEF TypeOK, WrittenOnce
  <2> HIDE DEF u
  <2>4. QED
    BY <2>2, <2>3, OncePrefix
<1>3. QED
  BY <1>1, <1>2

LEMMA AppendWrittenOnce ==
    ASSUME TypeOK, TypeOK', LogInv, ElectionSafety', WrittenOnce,
           NEW i \in Server, NEW e \in Entry, Appends(i, e),
           e.data = Noop \/ ~Duplicate(log[i], e.data)
    PROVE  WrittenOnce'
<1>1. /\ written'[currentTerm[i]] = Append(log[i], e)
      /\ DOMAIN written' = DOMAIN written \cup {currentTerm[i]}
      /\ \A t \in DOMAIN written :
            t # currentTerm[i] => written'[t] = written[t]
  BY AppendExtends
<1>2. log[i] \in Seq(Entry) /\ Sourced(written, log[i], currentTerm[i])
  BY DEF TypeOK, LogInv, LogsSourced
<1>3. Once(log[i])
  BY <1>2, SourcedOnce
<1>4. Once(Append(log[i], e))
  BY <1>2, <1>3, OnceAppend
<1>5. QED
  BY <1>1, <1>4 DEF WrittenOnce

LEMMA NextWrittenOnce ==
    TypeOK /\ TypeOK' /\ LogInv /\ ElectionSafety' /\ WrittenOnce /\ [Next]_vars
        => WrittenOnce'
<1> SUFFICES ASSUME TypeOK, TypeOK', LogInv, ElectionSafety', WrittenOnce,
                    [Next]_vars
             PROVE  WrittenOnce'
  OBVIOUS
<1>1. CASE UNCHANGED written
  BY <1>1 DEF WrittenOnce
<1>2. Quiet => UNCHANGED written
  BY DEF Quiet
<1>3. ASSUME NEW i \in Server, Restart(i)
      PROVE  UNCHANGED written
  BY <1>3 DEF Restart, history
<1>4. ASSUME NEW q \in InFlight, AcceptAppend(q.to, q)
      PROVE  UNCHANGED written
  BY <1>4 DEF AcceptAppend, history
<1>5. ASSUME NEW i \in Server, NEW g \in grants, CountVote(i, g), Lead(i)
      PROVE  WrittenOnce'
  <2> DEFINE e == [term |-> currentTerm[i], data |-> Noop]
  <2>1. e \in Entry /\ e.data = Noop
    BY DEF TypeOK, Entry
  <2>2. Appends(i, e)
    BY <1>5, LeadAppends
  <2> HIDE DEF e
  <2>3. QED
    BY <2>1, <2>2, AppendWrittenOnce
<1>6. ASSUME NEW i \in Server, NEW c \in Command, ClientAppend(i, c)
      PROVE  WrittenOnce'
  <2> DEFINE e == [term |-> currentTerm[i], data |-> c]
  <2>1. e \in Entry /\ ~Duplicate(log[i], e.data)
    BY <1>6 DEF TypeOK, Entry, ClientAppend
  <2>2. Appends(i, e)
    BY <1>6, ClientAppends
  <2> HIDE DEF e
  <2>3. QED
    BY <2>1, <2>2, AppendWrittenOnce
<1>7. QED
  BY <1>1, <1>2, <1>3, <1>4, <1>5, <1>6, StepKinds

\* A client command is in a log at most once, however often and at whichever
\* leader it is retried: clientAppend scans only the leader's own log.
THEOREM CommandsOnce == Spec => []CommandOnce
<1>1. Init => WrittenOnce
  BY DEF Init, WrittenOnce
<1>2. Spec => []WrittenOnce
  <2>1. SafeLogs => LogInv
    BY DEF SafeLogs
  <2>2. QED
    BY <1>1, <2>1, NextWrittenOnce, LogsSafe, ElectionSafe, TypeCorrect, PTL
    DEF Spec
<1>3. TypeOK /\ SafeLogs /\ WrittenOnce => CommandOnce
  <2> SUFFICES ASSUME TypeOK, SafeLogs, WrittenOnce, NEW i \in Server
               PROVE  Once(log[i])
    BY DEF CommandOnce, Once
  <2>1. log[i] \in Seq(Entry) /\ Sourced(written, log[i], currentTerm[i])
    BY DEF TypeOK, SafeLogs, LogInv, LogsSourced
  <2>2. QED
    BY <2>1, SourcedOnce
<1>4. QED
  BY <1>2, <1>3, LogsSafe, TypeCorrect, PTL

-----------------------------------------------------------------------------
(***************************************************************************)
(* The ballots. A server asks for votes once in a term, and as long as it  *)
(* is a candidate its ballot describes its log.                            *)
(***************************************************************************)
GrantsAsked == \A g \in grants : \E b \in ballots : b.from = g.to /\ b.term = g.term

BallotsOne == \A a, b \in ballots : a.from = b.from /\ a.term = b.term => a = b

CandidatesAsk ==
    \A i \in Server : state[i] = Candidate =>
        \A b \in ballots : b.from = i /\ b.term = currentTerm[i] =>
            b.lastIndex = Len(log[i]) /\ b.lastTerm = LastTerm(log[i])

BallotInv == GrantsAsked /\ BallotsOne /\ CandidatesAsk

\* A candidate's log stays as it is.
LEMMA CandidatesKeepLog ==
    ASSUME TypeOK, [Next]_vars, NEW i \in Server, state'[i] = Candidate
    PROVE  log'[i] = log[i]
<1>1. Quiet => log'[i] = log[i]
  BY DEF Quiet
<1>2. ASSUME NEW k \in Server, NEW r, NEW T, Rewrites(k, r, T)
      PROVE  log'[i] = log[i]
  BY <1>2 DEF Rewrites, TypeOK, Follower, Candidate
<1>3. ASSUME NEW k \in Server, Restart(k)
      PROVE  log'[i] = log[i]
  BY <1>2, <1>3, RestartRewrites
<1>4. ASSUME NEW q \in InFlight, AcceptAppend(q.to, q)
      PROVE  log'[i] = log[i]
  <2>1. q.to \in Server
    BY InFlightType DEF Request
  <2>2. QED
    BY <1>2, <1>4, <2>1, AcceptRewrites
<1>5. ASSUME NEW k \in Server, NEW g \in grants, CountVote(k, g), Lead(k)
      PROVE  log'[i] = log[i]
  BY <1>5 DEF Lead, TypeOK, Leader, Candidate
<1>6. ASSUME NEW k \in Server, NEW c \in Command, ClientAppend(k, c)
      PROVE  log'[i] = log[i]
  BY <1>6 DEF ClientAppend, TypeOK, Leader, Candidate
<1>7. QED
  BY <1>1, <1>3, <1>4, <1>5, <1>6, StepKinds

\* Only three steps touch ballots, grants or leaderships.
LEMMA NextElections ==
    ASSUME TypeOK, [Next]_vars
    PROVE  \/ NoElection
           \/ \E i \in Server : StartElection(i)
           \/ \E j \in Server, b \in ballots : GrantVote(j, b)
           \/ \E i \in Server, g \in grants : CountVote(i, g)
<1>1. CASE ElectionStep
  <2>1. ASSUME NEW j \in Server, NEW b \in ballots, RefuseVote(j, b)
        PROVE  NoElection
    BY <2>1, StepDownNoElection DEF RefuseVote
  <2>2. ASSUME NEW i \in Server, NEW b \in ballots, NEW j \in Server,
               LearnTerm(i, b, j)
        PROVE  NoElection
    BY <2>2, StepDownNoElection DEF LearnTerm
  <2>3. QED
    BY <1>1, <2>1, <2>2 DEF ElectionStep
<1>2. ASSUME DiskStep
      PROVE  NoElection
  BY <1>2, UnchangedNoElection
  DEF DiskStep, Flush, StoreCommit, voteMsgs, history
<1>3. ASSUME UNCHANGED vars
      PROVE  NoElection
  BY <1>3, UnchangedNoElection DEF vars
<1>4. QED
  BY <1>1, <1>2, <1>3, LeaderStepNoElection, FollowerStepNoElection,
     FaultStepNoElection DEF Next

LEMMA NextBallotInv ==
    TypeOK /\ TypeOK' /\ ElectionInv /\ BallotInv /\ [Next]_vars => BallotInv'
<1> SUFFICES ASSUME TypeOK, TypeOK', ElectionInv, BallotInv, [Next]_vars
             PROVE  BallotInv'
  OBVIOUS
<1>1. CASE NoElection
  BY <1>1, CandidatesKeepLog
  DEF NoElection, BallotInv, GrantsAsked, BallotsOne, CandidatesAsk
<1>2. ASSUME NEW i \in Server, StartElection(i)
      PROVE  BallotInv'
  <2> DEFINE T == currentTerm[i] + 1
             n == [from |-> i, term |-> T, lastIndex |-> Len(log[i]),
                   lastTerm |-> LastTerm(log[i])]
  <2>1. /\ currentTerm' = [currentTerm EXCEPT ![i] = T]
        /\ state' = [state EXCEPT ![i] = Candidate]
        /\ ballots' = ballots \cup {n} /\ grants' = grants /\ log' = log
    BY <1>2 DEF StartElection, logVars
  <2>2. /\ n.from = i /\ n.term = T /\ n.lastIndex = Len(log[i])
        /\ n.lastTerm = LastTerm(log[i])
    OBVIOUS
  <2>3. ASSUME NEW b \in ballots, b.from = i
        PROVE  b.term # T
    <3>1. b.term \in Nat /\ currentTerm[i] \in Nat
      BY DEF TypeOK, Ballot
    <3>2. Supports(i, i, b.term)
      BY <2>3 DEF Supports
    <3>3. b.term <= currentTerm[i]
      BY <3>1, <3>2 DEF ElectionInv, SupportRemembered
    <3>4. QED
      BY <3>1, <3>3
  <2> HIDE DEF n
  <2>4. GrantsAsked'
    BY <2>1 DEF BallotInv, GrantsAsked
  <2>5. BallotsOne'
    BY <2>1, <2>2, <2>3 DEF BallotInv, BallotsOne
  <2>6. ASSUME NEW k \in Server, state'[k] = Candidate, NEW b \in ballots',
               b.from = k, b.term = currentTerm'[k]
        PROVE  b.lastIndex = Len(log[k]) /\ b.lastTerm = LastTerm(log[k])
    <3>1. CASE k = i
      <4>1. b.term = T
        BY <2>1, <2>6, <3>1 DEF TypeOK
      <4>2. QED
        BY <2>1, <2>2, <2>3, <2>6, <3>1, <4>1
    <3>2. CASE k # i
      <4>1. /\ state[k] = Candidate /\ b.term = currentTerm[k] /\ b \in ballots
        BY <2>1, <2>2, <2>6, <3>2 DEF TypeOK
      <4>2. QED
        BY <2>6, <4>1 DEF BallotInv, CandidatesAsk
    <3>3. QED
      BY <3>1, <3>2
  <2>7. QED
    BY <2>1, <2>4, <2>5, <2>6 DEF BallotInv, CandidatesAsk
<1>3. ASSUME NEW j \in Server, NEW b \in ballots, GrantVote(j, b)
      PROVE  BallotInv'
  <2> DEFINE n == [from |-> j, to |-> b.from, term |-> b.term]
  <2>1. /\ grants' = grants \cup {n} /\ UNCHANGED <<ballots, log>>
        /\ BecomeFollower(j, b.term, b.from)
    BY <1>3 DEF GrantVote, logVars
  <2>2. \A k \in Server : state'[k] = Candidate =>
           state[k] = Candidate /\ currentTerm'[k] = currentTerm[k]
    BY <2>1 DEF BecomeFollower, TypeOK, Follower, Candidate
  <2>3. n.to = b.from /\ n.term = b.term
    OBVIOUS
  <2> HIDE DEF n
  <2>4. QED
    BY <2>1, <2>2, <2>3 DEF BallotInv, GrantsAsked, BallotsOne, CandidatesAsk
<1>4. ASSUME NEW i \in Server, NEW g \in grants, CountVote(i, g)
      PROVE  BallotInv'
  <2>1. UNCHANGED <<ballots, grants, currentTerm>>
    BY <1>4 DEF CountVote, voteMsgs, metaVars
  <2>2. \A k \in Server : state'[k] = Candidate => state[k] = Candidate
    <3>1. state' = state \/ state' = [state EXCEPT ![i] = Leader]
      BY <1>4 DEF CountVote, Lead
    <3>2. QED
      BY <3>1 DEF TypeOK, Leader, Candidate
  <2>3. QED
    BY <2>1, <2>2, CandidatesKeepLog
    DEF BallotInv, GrantsAsked, BallotsOne, CandidatesAsk
<1>5. QED
  BY <1>1, <1>2, <1>3, <1>4, NextElections

LEMMA InitBallotInv == Init => BallotInv
BY DEF Init, BallotInv, GrantsAsked, BallotsOne, CandidatesAsk, Follower, Candidate

-----------------------------------------------------------------------------
(***************************************************************************)
(* Commit. Entry m of the log of term T is one of that term's own. A set A *)
(* of servers holds it, those in D on their disks; whoever is not behind T *)
(* any more and not in A may have voted for anyone. As long as the others  *)
(* are a majority, the entry is in every later log.                        *)
(***************************************************************************)
Own(T, m) ==
    T \in DOMAIN written /\ m \in 1..Len(written[T]) /\ written[T][m].term = T

\* A ballot that can only come from a log that holds the entry.
AsGood(b, T, m) == b.lastTerm > T \/ (b.lastTerm = T /\ b.lastIndex >= m)

Behind(T) == {j \in Server : currentTerm[j] <= T}

InLaterLogs(T, m) ==
    \A t \in DOMAIN written : t > T => Agree(written[t], written[T], m)

Safe(T, m, A, D) ==
    Behind(T) \cup A \in Quorum =>
        /\ InLaterLogs(T, m)
        /\ \A j \in A : currentTerm[j] >= T /\ Agree(log[j], written[T], m)
        /\ \A j \in D : m <= durable[j]
        /\ \A j \in A, b \in ballots :
              b.term > T /\ Supports(j, b.from, b.term) => AsGood(b, T, m)

Core == TypeOK /\ SafeLogs /\ BallotInv

LEMMA QuorumGrows ==
    ASSUME NEW Q \in Quorum, NEW R \in SUBSET Server, Q \subseteq R
    PROVE  R \in Quorum
<1>1. IsFiniteSet(R) /\ IsFiniteSet(Q)
  BY ServerAssumption, FS_Subset
<1>2. /\ Cardinality(Q) \in Nat /\ Cardinality(R) \in Nat
      /\ Cardinality(Server) \in Nat /\ Cardinality(Q) <= Cardinality(R)
  BY <1>1, ServerAssumption, FS_Subset, FS_CardinalityType
<1>3. 2 * Cardinality(Q) > Cardinality(Server)
  BY DEF Quorum
<1>4. 2 * Cardinality(R) > Cardinality(Server)
  BY <1>2, <1>3
<1>5. QED
  BY <1>4 DEF Quorum

-----------------------------------------------------------------------------
\* What a step does to the log of a server and to what of it is on disk.
LogStep(j) ==
    \/ log'[j] = log[j] /\ durable'[j] \in {durable[j], Len(log[j])}
    \/ /\ \E e \in Entry : log'[j] = Append(log[j], e)
       /\ durable'[j] \in {durable[j], Len(log[j]) + 1}
       /\ state'[j] = Leader
    \/ Restart(j)
    \/ \E q \in InFlight : q.to = j /\ AcceptAppend(j, q)

LEMMA NextLogStep ==
    ASSUME TypeOK, [Next]_vars, NEW j \in Server
    PROVE  LogStep(j)
<1>1. CASE UNCHANGED <<log, durable>>
  BY <1>1 DEF LogStep
<1>2. ASSUME NEW i \in Server, NEW e \in Entry,
             log' = [log EXCEPT ![i] = Append(log[i], e)],
             state'[i] = Leader,
             durable' = [durable EXCEPT ![i] =
                           IF GroupCommit THEN @ ELSE Len(Append(log[i], e))]
      PROVE  LogStep(j)
  <2>1. Len(Append(log[i], e)) = Len(log[i]) + 1
    BY AppendAgrees DEF TypeOK
  <2>2. CASE i = j
    BY <1>2, <2>1, <2>2 DEF LogStep, TypeOK
  <2>3. CASE i # j
    BY <1>2, <2>3 DEF LogStep, TypeOK
  <2>4. QED
    BY <2>2, <2>3
<1>3. \A i \in Server, c \in Command \cup {Noop} :
         [term |-> currentTerm[i], data |-> c] \in Entry
  BY DEF TypeOK, Entry
<1>4. CASE ElectionStep
  <2>1. ASSUME NEW i \in Server, NEW g \in grants, CountVote(i, g)
        PROVE  LogStep(j)
    <3>1. CASE Lead(i)
      <4> DEFINE e == [term |-> currentTerm[i], data |-> Noop]
      <4>1. e \in Entry
        BY <1>3
      <4>2. /\ log' = [log EXCEPT ![i] = Append(log[i], e)]
            /\ state'[i] = Leader
            /\ durable' = [durable EXCEPT ![i] =
                  IF GroupCommit THEN @ ELSE Len(Append(log[i], e))]
        BY <3>1 DEF Lead, TypeOK
      <4> HIDE DEF e
      <4>3. QED
        BY <1>2, <4>1, <4>2
    <3>2. CASE ~Lead(i)
      BY <1>1, <2>1, <3>2 DEF CountVote, logVars
    <3>3. QED
      BY <3>1, <3>2
  <2>2. ASSUME NEW i \in Server, NEW b \in ballots, NEW k \in Server,
               GrantVote(i, b) \/ RefuseVote(i, b) \/ LearnTerm(i, b, k)
        PROVE  UNCHANGED <<log, durable>>
    BY <2>2 DEF GrantVote, RefuseVote, LearnTerm, StepDown, logVars
  <2>3. ASSUME NEW i \in Server, StartElection(i)
        PROVE  UNCHANGED <<log, durable>>
    BY <2>3 DEF StartElection, logVars
  <2>4. QED
    BY <1>1, <1>4, <2>1, <2>2, <2>3 DEF ElectionStep
<1>5. CASE LeaderStep
  <2>1. ASSUME NEW i \in Server, NEW c \in Command, ClientAppend(i, c)
        PROVE  LogStep(j)
    <3> DEFINE e == [term |-> currentTerm[i], data |-> c]
    <3>1. e \in Entry
      BY <1>3
    <3>2. /\ log' = [log EXCEPT ![i] = Append(log[i], e)]
          /\ state'[i] = Leader
          /\ durable' = [durable EXCEPT ![i] =
                IF GroupCommit THEN @ ELSE Len(Append(log[i], e))]
      BY <2>1 DEF ClientAppend
    <3> HIDE DEF e
    <3>3. QED
      BY <1>2, <3>1, <3>2
  <2>2. ASSUME NEW i \in Server, Heartbeat(i)
        PROVE  UNCHANGED <<log, durable>>
    BY <2>2 DEF Heartbeat, logVars
  <2>3. ASSUME NEW i \in Server, NEW k \in Server,
               \/ AppendDeposed(i, k) \/ AppendSucceeded(i, k)
               \/ AppendRefused(i, k) \/ CallEnds(i, k)
        PROVE  UNCHANGED <<log, durable>>
    BY <2>3
    DEF AppendDeposed, StepDown, AppendSucceeded, AppendRefused, CallEnds,
        logVars
  <2>4. QED
    BY <1>1, <1>5, <2>1, <2>2, <2>3 DEF LeaderStep
<1>6. CASE FollowerStep
  <2>1. PICK q \in InFlight : \/ RejectAppend(q.to, q)
                              \/ MismatchAppend(q.to, q)
                              \/ AcceptAppend(q.to, q)
    BY <1>6 DEF FollowerStep
  <2>2. CASE RejectAppend(q.to, q) \/ MismatchAppend(q.to, q)
    BY <1>1, <2>2 DEF RejectAppend, MismatchAppend, logVars
  <2>3. CASE AcceptAppend(q.to, q) /\ q.to = j
    BY <2>3 DEF LogStep
  <2>4. CASE AcceptAppend(q.to, q) /\ q.to # j
    <3>1. log'[j] = log[j] /\ durable'[j] = durable[j]
      BY <2>4 DEF AcceptAppend, TypeOK
    <3>2. QED
      BY <3>1 DEF LogStep
  <2>5. QED
    BY <2>1, <2>2, <2>3, <2>4
<1>7. CASE DiskStep
  <2>1. ASSUME NEW i \in Server, Flush(i)
        PROVE  LogStep(j)
    BY <2>1 DEF Flush, LogStep, TypeOK
  <2>2. ASSUME NEW i \in Server, StoreCommit(i)
        PROVE  UNCHANGED <<log, durable>>
    BY <2>2 DEF StoreCommit, logVars
  <2>3. QED
    BY <1>1, <1>7, <2>1, <2>2 DEF DiskStep
<1>8. CASE FaultStep
  <2>1. ASSUME NEW i \in Server, Restart(i)
        PROVE  LogStep(j)
    <3>1. CASE i = j
      BY <2>1, <3>1 DEF LogStep
    <3>2. CASE i # j
      <4>1. PICK kept : /\ log' = [log EXCEPT ![i] = SubSeq(@, 1, kept)]
                        /\ durable' = [durable EXCEPT ![i] = kept]
        BY <2>1 DEF Restart
      <4>2. log'[j] = log[j] /\ durable'[j] = durable[j]
        BY <3>2, <4>1 DEF TypeOK
      <4>3. QED
        BY <4>2 DEF LogStep
    <3>3. QED
      BY <3>1, <3>2
  <2>2. ASSUME NEW i \in Server, Pause(i) \/ Resume(i)
        PROVE  UNCHANGED <<log, durable>>
    BY <2>2 DEF Pause, Resume, logVars
  <2>3. QED
    BY <1>1, <1>8, <2>1, <2>2 DEF FaultStep
<1>9. QED
  BY <1>1, <1>4, <1>5, <1>6, <1>7, <1>8 DEF Next, vars

\* Terms never fall.
LEMMA TermsRise ==
    ASSUME TypeOK, [Next]_vars, NEW j \in Server
    PROVE  currentTerm'[j] >= currentTerm[j]
BY NextKeepsVote DEF VoteKept

\* A server that holds the first m entries of the log of term T keeps them,
\* if the logs of the terms it may adopt have them and, when it crashes, they
\* are on its disk; and what of them is on its disk stays there.
LEMMA HoldsOn ==
    ASSUME Core, [Next]_vars, NEW j \in Server, NEW T \in DOMAIN written,
           NEW m \in Nat, Agree(log[j], written[T], m),
           \A u \in DOMAIN written :
              u >= currentTerm[j] /\ u <= currentTerm'[j] =>
                  Agree(written[u], written[T], m),
           Restart(j) => m <= durable[j]
    PROVE  /\ Agree(log'[j], written[T], m)
           /\ m <= durable[j] => m <= durable'[j]
<1>1. /\ log[j] \in Seq(Entry) /\ durable[j] \in Nat /\ written[T] \in Seq(Entry)
      /\ m <= Len(log[j]) /\ Len(log[j]) \in Nat
  BY DEF Core, TypeOK, Agree
<1>2. CASE log'[j] = log[j] /\ durable'[j] \in {durable[j], Len(log[j])}
  BY <1>1, <1>2
<1>3. CASE /\ \E e \in Entry : log'[j] = Append(log[j], e)
           /\ durable'[j] \in {durable[j], Len(log[j]) + 1}
  <2>1. PICK e \in Entry : log'[j] = Append(log[j], e)
    BY <1>3
  <2> DEFINE r == Append(log[j], e)
  <2>2. r \in Seq(Entry) /\ Agree(r, log[j], Len(log[j]))
    BY <1>1, AppendAgrees
  <2> HIDE DEF r
  <2>3. Agree(r, log[j], m)
    BY <1>1, <2>2, AgreeLess
  <2>4. Agree(r, written[T], m)
    BY <2>3, AgreeTrans
  <2>5. QED
    BY <1>1, <1>3, <2>1, <2>4 DEF r
<1>4. CASE Restart(j)
  <2>1. PICK kept \in durable[j]..Len(log[j]) :
           /\ durable' = [durable EXCEPT ![j] = kept]
           /\ Rewrites(j, SubSeq(log[j], 1, kept), currentTerm[j])
    BY <1>4, RestartRewrites DEF Core
  <2> DEFINE r == SubSeq(log[j], 1, kept)
  <2>2. log'[j] = r /\ durable'[j] = kept
    BY <2>1 DEF Rewrites, Core, TypeOK
  <2>3. kept \in 0..Len(log[j]) /\ m <= kept
    BY <1>1, <1>4
  <2>4. r \in Seq(Entry) /\ Agree(r, log[j], kept)
    BY <1>1, <2>3, PrefixAgrees
  <2> HIDE DEF r
  <2>5. Agree(r, log[j], m)
    BY <1>1, <2>3, <2>4, AgreeLess
  <2>6. Agree(r, written[T], m)
    BY <2>5, AgreeTrans
  <2>7. QED
    BY <2>2, <2>3, <2>6
<1>5. ASSUME NEW q \in InFlight, q.to = j, AcceptAppend(j, q)
      PROVE  /\ Agree(log'[j], written[T], m)
             /\ m <= durable[j] => m <= durable'[j]
  <2> DEFINE u    == q.term
             kept == Kept(log[j], q.prev, q.entries)
             r    == Merge(log[j], q.prev, q.entries)
  <2>1. TypeOK /\ LogInv /\ RequestInv /\ AcceptAppend(q.to, q)
    BY <1>5 DEF Core, SafeLogs
  <2>2. /\ u \in DOMAIN written /\ u >= currentTerm[j] /\ Rewrites(j, r, u)
        /\ r \in Seq(Entry)
    BY <1>5, <2>1, AcceptMerges
  <2>3. \A n \in Nat : Agree(log[j], written[u], n) => Agree(r, written[u], n)
    BY <1>5, <2>1, AcceptMerges
  <2>4. /\ kept \in 0..Len(log[j])
        /\ kept < Len(log[j]) =>
              \A n \in Nat : Agree(log[j], written[u], n) => n <= kept
    BY <1>5, <2>1, AcceptMerges
  <2>5. durable'[j] = DurableAfter(j, kept, r)
    BY <1>5, <2>1 DEF AcceptAppend, TypeOK
  <2>6. log'[j] = r /\ currentTerm'[j] = u
    BY <2>1, <2>2 DEF Rewrites, TypeOK
  <2> HIDE DEF u, kept, r
  <2>7. u \in Nat
    BY <2>1, <2>2 DEF TypeOK
  <2>8. Agree(written[u], written[T], m)
    BY <2>2, <2>6, <2>7
  <2>9. Agree(log[j], written[u], m)
    BY <2>8, AgreeSym, AgreeTrans
  <2>10. Agree(r, written[u], m)
    BY <2>3, <2>9
  <2>11. Agree(r, written[T], m)
    BY <2>8, <2>10, AgreeTrans
  <2>12. m <= Len(r)
    BY <2>11 DEF Agree
  <2>13. kept < Len(log[j]) => m <= kept
    BY <2>4, <2>9
  <2>14. m <= durable[j] => m <= durable'[j]
    BY <2>5, <2>12, <2>13 DEF DurableAfter
  <2>15. QED
    BY <2>6, <2>11, <2>14
<1>6. LogStep(j)
  BY NextLogStep DEF Core
<1>7. QED
  BY <1>2, <1>3, <1>4, <1>5, <1>6 DEF LogStep

-----------------------------------------------------------------------------
\* The invariants behind Core, one by one.
LEMMA CoreFacts ==
    ASSUME Core
    PROVE  /\ Logs(Entry, written) /\ LogInv /\ ElectionInv /\ RequestInv /\ TypeOK
           /\ \A t \in DOMAIN written : Sourced(written, written[t], t)
           /\ \A j \in Server : /\ log[j] \in Seq(Entry) /\ durable[j] \in Nat
                                /\ currentTerm[j] \in Nat
                                /\ Sourced(written, log[j], currentTerm[j])
BY WrittenLogs DEF Core, SafeLogs, LogInv, WrittenSourced, LogsSourced, TypeOK

LEMMA OwnType ==
    ASSUME Core, NEW T, NEW m, Own(T, m)
    PROVE  /\ T \in Nat /\ T > 0 /\ m \in Nat /\ m > 0
           /\ written[T] \in Seq(Entry) /\ m <= Len(written[T])
<1>1. T \in DOMAIN written /\ m \in 1..Len(written[T])
  BY DEF Own
<1>2. Logs(Entry, written) /\ TermsLed
  BY CoreFacts DEF LogInv
<1>3. QED
  BY <1>1, <1>2 DEF Logs, TermsLed

\* What leaders write is not taken back.
LEMMA CoreExtends ==
    ASSUME Core, Core', [Next]_vars
    PROVE  /\ Extends(written, written') /\ Logs(Entry, written) /\ Logs(Entry, written')
<1>1. ElectionSafety'
  <2>1. ElectionInv' /\ TypeOK'
    BY DEF Core, SafeLogs
  <2>2. QED
    BY <2>1, ElectionInvSafe, PTL
<1>2. Logs(Entry, written) /\ Logs(Entry, written')
  BY EntryTerms DEF Core, TypeOK, Logs
<1>3. Extends(written, written')
  BY <1>1, NextExtends DEF Core, SafeLogs
<1>4. QED
  BY <1>2, <1>3

LEMMA WrittenStays ==
    ASSUME Core, Core', [Next]_vars, NEW t \in DOMAIN written, NEW m \in Nat,
           m <= Len(written[t])
    PROVE  t \in DOMAIN written' /\ Agree(written'[t], written[t], m)
<1>1. /\ t \in DOMAIN written' /\ Agree(written'[t], written[t], Len(written[t]))
      /\ written'[t] \in Seq(Entry) /\ written[t] \in Seq(Entry)
  BY CoreExtends DEF Extends, Logs
<1>2. QED
  BY <1>1, AgreeLess

LEMMA OwnStays ==
    ASSUME Core, Core', [Next]_vars, NEW T, NEW m, Own(T, m)
    PROVE  Own(T, m)' /\ Agree(written'[T], written[T], m)
<1>1. T \in DOMAIN written /\ m \in Nat /\ m > 0 /\ m <= Len(written[T])
  BY OwnType DEF Own
<1>2. T \in DOMAIN written' /\ Agree(written'[T], written[T], m)
  BY <1>1, WrittenStays
<1>3. m \in 1..Len(written'[T]) /\ written'[T][m] = written[T][m]
  <2>1. written'[T] \in Seq(Entry)
    BY <1>2, CoreExtends DEF Logs
  <2>2. QED
    BY <1>1, <1>2, <2>1 DEF Agree
<1>4. QED
  BY <1>2, <1>3 DEF Own

\* Those who may still vote for T or earlier become fewer.
LEMMA BehindShrinks ==
    ASSUME Core, Core', [Next]_vars, NEW T \in Nat
    PROVE  Behind(T)' \subseteq Behind(T)
<1>1. \A j \in Server : /\ currentTerm[j] \in Nat /\ currentTerm'[j] \in Nat
                        /\ currentTerm'[j] >= currentTerm[j]
  BY TermsRise DEF Core, TypeOK
<1>2. QED
  BY <1>1 DEF Behind

\* A later leader has been elected by someone who is not behind.
LEMMA LaterLeaderElected ==
    ASSUME Core, NEW T \in Nat, NEW A \in SUBSET Server, NEW t, NEW i \in Server,
           Behind(T) \cup A \in Quorum, t > T, <<t, i>> \in leaders
    PROVE  \E v \in A : Supports(v, i, t) /\ currentTerm[v] >= t
<1>1. t \in Nat /\ ElectionInv
  BY CoreFacts DEF Core, TypeOK
<1>2. PICK Q \in Quorum : \A v \in Q : Supports(v, <<t, i>>[2], <<t, i>>[1])
  BY <1>1 DEF ElectionInv, LeadersElected
<1>3. \A v \in Q : Supports(v, i, t)
  BY <1>2
<1>4. PICK v \in Q : v \in Behind(T) \cup A /\ v \in Server
  BY QuorumsMeet
<1>5. Supports(v, i, t) /\ t <= currentTerm[v] /\ currentTerm[v] \in Nat
  BY <1>1, <1>3, <1>4, CoreFacts DEF ElectionInv, SupportRemembered
<1>6. v \notin Behind(T)
  BY <1>1, <1>5 DEF Behind
<1>7. QED
  BY <1>4, <1>5, <1>6

\* The log of a server that is elected in a later term has the entry.
LEMMA LeadHasEntry ==
    ASSUME Core, Core', [Next]_vars, NEW T, NEW m, Own(T, m),
           NEW A \in SUBSET Server, NEW D,
           Safe(T, m, A, D), Behind(T) \cup A \in Quorum,
           NEW i \in Server, NEW g \in grants, CountVote(i, g), Lead(i),
           NEW t, t = currentTerm[i], t > T
    PROVE  Agree(log[i], written[T], m)
<1>1. /\ UNCHANGED <<currentTerm, ballots, grants>> /\ <<t, i>> \in leaders'
      /\ state[i] = Candidate
  BY DEF CountVote, Lead, metaVars, voteMsgs
<1>2. T \in Nat /\ T > 0 /\ t \in Nat
  BY OwnType, CoreFacts
<1>3. \E v \in A : Supports(v, i, t)
  <2>1. Behind(T)' = Behind(T) /\ \A v \in A : Supports(v, i, t)' => Supports(v, i, t)
    BY <1>1 DEF Behind, Supports
  <2>2. \E v \in A : Supports(v, i, t)'
    <3>1. ElectionInv' /\ t \in Nat
      BY <1>2 DEF Core, SafeLogs
    <3>2. PICK Q \in Quorum : \A v \in Q : Supports(v, <<t, i>>[2], <<t, i>>[1])'
      BY <1>1, <3>1 DEF ElectionInv, LeadersElected
    <3>3. \A v \in Q : Supports(v, i, t)'
      BY <3>2
    <3>4. PICK v \in Q : v \in Behind(T) \cup A /\ v \in Server
      BY QuorumsMeet
    <3>5. t <= currentTerm'[v]
      BY <1>2, <3>1, <3>3, <3>4 DEF ElectionInv, SupportRemembered
    <3>6. v \notin Behind(T)
      BY <1>1, <1>2, <3>4, <3>5, CoreFacts DEF Behind
    <3>7. QED
      BY <3>3, <3>4, <3>6
  <2>3. QED
    BY <2>1, <2>2
<1>4. PICK v \in A : Supports(v, i, t)
  BY <1>3
<1>5. PICK b \in ballots : b.from = i /\ b.term = t
  BY <1>4 DEF Supports, Core, BallotInv, GrantsAsked
<1>6. AsGood(b, T, m)
  BY <1>2, <1>4, <1>5 DEF Safe
<1>7. b.lastIndex = Len(log[i]) /\ b.lastTerm = LastTerm(log[i])
  BY <1>1, <1>5 DEF Core, BallotInv, CandidatesAsk
<1>8. /\ Logs(Entry, written) /\ \A x \in DOMAIN written : Sourced(written, written[x], x)
      /\ log[i] \in Seq(Entry) /\ Sourced(written, log[i], t)
  BY CoreFacts
<1>9. \A x \in DOMAIN written : x > T => Agree(written[x], written[T], m)
  BY DEF Safe, InLaterLogs
<1>10. LastTerm(log[i]) > T \/ (LastTerm(log[i]) = T /\ Len(log[i]) >= m)
  BY <1>6, <1>7 DEF AsGood
<1>11. T \in DOMAIN written /\ m \in 1..Len(written[T]) /\ written[T][m].term = T
  BY DEF Own
<1>12. QED
  BY <1>2, <1>8, <1>9, <1>10, <1>11, GoodHasEntry

\* A step that writes the log of a new term is an election.
LEMMA NewTermLed ==
    ASSUME Core, Core', [Next]_vars, NEW t \in DOMAIN written',
           t \notin DOMAIN written
    PROVE  \E i \in Server, g \in grants :
              /\ CountVote(i, g) /\ Lead(i) /\ t = currentTerm[i]
              /\ written'[t] =
                    Append(log[i], [term |-> currentTerm[i], data |-> Noop])
<1>1. Quiet => UNCHANGED written
  BY DEF Quiet
<1>2. ASSUME NEW i \in Server, Restart(i)
      PROVE  UNCHANGED written
  BY <1>2 DEF Restart, history
<1>3. ASSUME NEW q \in InFlight, AcceptAppend(q.to, q)
      PROVE  UNCHANGED written
  BY <1>3 DEF AcceptAppend, history
<1>4. ASSUME NEW i \in Server, NEW c \in Command, ClientAppend(i, c)
      PROVE  FALSE
  <2>1. state[i] = Leader /\ DOMAIN written' = DOMAIN written \cup {currentTerm[i]}
    BY <1>4 DEF ClientAppend, Write
  <2>2. <<currentTerm[i], i>> \in leaders /\ TermsLed
    BY <2>1, CoreFacts DEF LogInv, LeadersWrite
  <2>3. <<currentTerm[i], i>>[1] \in DOMAIN written
    BY <2>2 DEF TermsLed
  <2>4. QED
    BY <2>1, <2>3
<1>5. ASSUME NEW i \in Server, NEW g \in grants, CountVote(i, g), Lead(i)
      PROVE  /\ t = currentTerm[i]
             /\ written'[t] = Append(log[i], [term |-> currentTerm[i], data |-> Noop])
  BY <1>5 DEF Lead, Write
<1>6. QED
  BY <1>1, <1>2, <1>3, <1>4, <1>5, StepKinds DEF Core

\* The logs of later terms keep having the entry.
LEMMA LaterLogsKept ==
    ASSUME Core, Core', [Next]_vars, NEW T, NEW m, Own(T, m),
           NEW A \in SUBSET Server, NEW D,
           Safe(T, m, A, D), Behind(T) \cup A \in Quorum
    PROVE  InLaterLogs(T, m)'
<1>1. Agree(written'[T], written[T], m) /\ Own(T, m)'
  BY OwnStays
<1>2. /\ T \in Nat /\ m \in Nat /\ written[T] \in Seq(Entry)
      /\ written'[T] \in Seq(Entry)
  BY <1>1, OwnType, CoreExtends DEF Own, Logs
<1>3. InLaterLogs(T, m)
  BY DEF Safe
<1> SUFFICES ASSUME NEW t \in DOMAIN written', t > T
             PROVE  Agree(written'[t], written[T], m)
  BY <1>1, AgreeSym, AgreeTrans DEF InLaterLogs
<1>4. CASE t \in DOMAIN written
  <2>1. Agree(written[t], written[T], m)
    BY <1>3, <1>4 DEF InLaterLogs
  <2>2. m <= Len(written[t])
    BY <2>1 DEF Agree
  <2>3. Agree(written'[t], written[t], m)
    BY <1>2, <1>4, <2>2, WrittenStays
  <2>4. QED
    BY <2>1, <2>3, AgreeTrans
<1>5. CASE t \notin DOMAIN written
  <2>1. PICK i \in Server, g \in grants :
           /\ CountVote(i, g) /\ Lead(i) /\ t = currentTerm[i]
           /\ written'[t] = Append(log[i], [term |-> currentTerm[i], data |-> Noop])
    BY <1>5, NewTermLed
  <2>2. Agree(log[i], written[T], m)
    BY <2>1, LeadHasEntry
  <2> DEFINE e == [term |-> currentTerm[i], data |-> Noop]
             r == Append(log[i], e)
  <2>3. e \in Entry /\ log[i] \in Seq(Entry)
    BY CoreFacts DEF Entry
  <2> HIDE DEF e
  <2>4. r \in Seq(Entry) /\ Agree(r, log[i], Len(log[i]))
    BY <2>3, AppendAgrees
  <2>5. m <= Len(log[i]) /\ Len(log[i]) \in Nat
    BY <2>2, <2>3 DEF Agree
  <2> HIDE DEF r
  <2>6. Agree(r, log[i], m)
    BY <1>2, <2>3, <2>4, <2>5, AgreeLess
  <2>7. Agree(r, written[T], m)
    BY <2>2, <2>6, AgreeTrans
  <2>8. QED
    BY <2>1, <2>7 DEF r, e
<1>6. QED
  BY <1>4, <1>5

\* A server that holds the entry supports only candidates whose logs are as
\* good as that.
LEMMA SupportsGood ==
    ASSUME Core, Core', [Next]_vars, NEW T, NEW m, Own(T, m),
           NEW j \in Server, Agree(log[j], written[T], m),
           \A b \in ballots :
              b.term > T /\ Supports(j, b.from, b.term) => AsGood(b, T, m),
           NEW c \in ballots', c.term > T, Supports(j, c.from, c.term)'
    PROVE  AsGood(c, T, m)
<1>1. /\ Len(log[j]) >= m /\ LastTerm(log[j]) >= T /\ LastTerm(log[j]) \in Nat
      /\ Len(log[j]) \in Nat /\ T \in Nat /\ m \in Nat
  <2>1. /\ Logs(Entry, written)
        /\ \A t \in DOMAIN written : Sourced(written, written[t], t)
        /\ log[j] \in Seq(Entry) /\ Sourced(written, log[j], currentTerm[j])
    BY CoreFacts
  <2>2. T \in DOMAIN written /\ m \in 1..Len(written[T]) /\ written[T][m].term = T
    BY DEF Own
  <2>3. Len(log[j]) >= m /\ LastTerm(log[j]) >= T /\ LastTerm(log[j]) \in Nat
    BY <2>1, <2>2, EntryIsGood
  <2>4. QED
    BY <2>1, <2>3, OwnType
<1>2. /\ TypeOK /\ TypeOK' /\ ElectionInv /\ BallotInv /\ BallotInv'
      /\ \A b \in ballots : b \in Ballot
  BY DEF Core, SafeLogs, TypeOK
<1>3. CASE c \in ballots /\ Supports(j, c.from, c.term)
  BY <1>3
<1>4. CASE NoElection
  BY <1>3, <1>4 DEF NoElection, Supports
<1>5. ASSUME NEW i \in Server, StartElection(i)
      PROVE  AsGood(c, T, m)
  <2> DEFINE n == [from |-> i, term |-> currentTerm[i] + 1,
                   lastIndex |-> Len(log[i]), lastTerm |-> LastTerm(log[i])]
  <2>1. ballots' = ballots \cup {n} /\ grants' = grants
    BY <1>5 DEF StartElection
  <2>2. /\ n.from = i /\ n.term = currentTerm[i] + 1
        /\ n.lastIndex = Len(log[i]) /\ n.lastTerm = LastTerm(log[i])
    OBVIOUS
  <2> HIDE DEF n
  <2>3. CASE c # n
    <3>1. c \in ballots /\ Supports(j, c.from, c.term)
      BY <2>1, <2>3 DEF Supports
    <3>2. QED
      BY <1>3, <3>1
  <2>4. CASE c = n /\ j = i
    BY <1>1, <2>2, <2>4 DEF AsGood
  <2>5. CASE c = n /\ j # i
    <3>1. PICK g \in grants : g.to = i /\ g.term = n.term
      BY <2>1, <2>2, <2>5 DEF Supports
    <3>2. Supports(i, i, n.term)
      BY <1>2, <3>1 DEF BallotInv, GrantsAsked, Supports
    <3>3. n.term \in Nat /\ currentTerm[i] \in Nat
      BY <2>2, CoreFacts
    <3>4. n.term <= currentTerm[i]
      BY <1>2, <3>2, <3>3 DEF ElectionInv, SupportRemembered
    <3>5. QED
      BY <2>2, <3>3, <3>4
  <2>6. QED
    BY <2>3, <2>4, <2>5
<1>6. ASSUME NEW k \in Server, NEW b \in ballots, GrantVote(k, b)
      PROVE  AsGood(c, T, m)
  <2> DEFINE n == [from |-> k, to |-> b.from, term |-> b.term]
  <2>1. /\ ballots' = ballots /\ grants' = grants \cup {n}
        /\ UpToDate(b.lastTerm, b.lastIndex, log[k])
    BY <1>6 DEF GrantVote
  <2>2. n.from = k /\ n.to = b.from /\ n.term = b.term
    OBVIOUS
  <2> HIDE DEF n
  <2>3. \/ Supports(j, c.from, c.term)
        \/ j = k /\ c.from = b.from /\ c.term = b.term
    BY <2>1, <2>2 DEF Supports
  <2>4. ASSUME j = k, c.from = b.from, c.term = b.term
        PROVE  AsGood(c, T, m)
    <3>1. c = b
      BY <1>2, <2>1, <2>4 DEF BallotInv, BallotsOne
    <3>2. b.lastTerm \in Nat /\ b.lastIndex \in Nat
      BY <1>2 DEF Ballot
    <3>3. QED
      BY <1>1, <2>1, <2>4, <3>1, <3>2 DEF UpToDate, AsGood
  <2>5. QED
    BY <1>3, <2>1, <2>3, <2>4
<1>7. ASSUME NEW i \in Server, NEW g \in grants, CountVote(i, g)
      PROVE  AsGood(c, T, m)
  BY <1>3, <1>7 DEF CountVote, voteMsgs, Supports
<1>8. QED
  BY <1>2, <1>4, <1>5, <1>6, <1>7, NextElections

\* What is safe stays safe for those that keep the entry: a server that
\* crashes does if it had the entry on its disk.
LEMMA SafeStays ==
    ASSUME Core, Core', [Next]_vars, NEW T, NEW m, Own(T, m),
           NEW A \in SUBSET Server, NEW B \in SUBSET A, NEW D \in SUBSET B,
           Safe(T, m, A, D), \A j \in B : Restart(j) => j \in D
    PROVE  Safe(T, m, B, D)'
<1> SUFFICES ASSUME (Behind(T) \cup B \in Quorum)'
             PROVE  /\ InLaterLogs(T, m)'
                    /\ \A j \in B : /\ currentTerm'[j] >= T
                                     /\ Agree(log'[j], written'[T], m)
                    /\ \A j \in D : m <= durable'[j]
                    /\ \A j \in B, b \in ballots' :
                          b.term > T /\ Supports(j, b.from, b.term)' =>
                              AsGood(b, T, m)
  BY DEF Safe, AsGood
<1>1. /\ T \in Nat /\ m \in Nat /\ T \in DOMAIN written
      /\ written[T] \in Seq(Entry) /\ m <= Len(written[T])
  BY OwnType DEF Own
<1>2. Behind(T) \cup A \in Quorum
  <2>1. Behind(T)' \subseteq Behind(T)
    BY <1>1, BehindShrinks
  <2>2. Behind(T)' \cup B \in Quorum
    BY DEF Quorum
  <2>3. Behind(T) \cup A \in SUBSET Server
    BY DEF Behind
  <2>4. QED
    BY <2>1, <2>2, <2>3, QuorumGrows
<1>3. /\ InLaterLogs(T, m)
      /\ \A j \in A : currentTerm[j] >= T /\ Agree(log[j], written[T], m)
      /\ \A j \in D : m <= durable[j]
      /\ \A j \in A, b \in ballots :
            b.term > T /\ Supports(j, b.from, b.term) => AsGood(b, T, m)
  BY <1>2 DEF Safe
<1>4. InLaterLogs(T, m)'
  BY <1>2, LaterLogsKept
<1>5. Agree(written'[T], written[T], m)
  BY OwnStays
<1>6. ASSUME NEW j \in B
      PROVE  /\ currentTerm'[j] >= T /\ Agree(log'[j], written[T], m)
             /\ j \in D => m <= durable'[j]
  <2>1. /\ j \in Server /\ currentTerm[j] >= T /\ Agree(log[j], written[T], m)
        /\ currentTerm[j] \in Nat /\ currentTerm'[j] \in Nat
        /\ currentTerm'[j] >= currentTerm[j]
    BY <1>3, TermsRise DEF Core, TypeOK
  <2>2. Restart(j) => m <= durable[j]
    BY <1>3
  <2>3. ASSUME NEW u \in DOMAIN written, u >= currentTerm[j]
        PROVE  Agree(written[u], written[T], m)
    <3>1. u \in Nat
      BY CoreFacts DEF Logs
    <3>2. CASE u = T
      BY <1>1, <3>2, AgreeSelf
    <3>3. CASE u > T
      BY <1>3, <3>3 DEF InLaterLogs
    <3>4. QED
      BY <1>1, <2>1, <2>3, <3>1, <3>2, <3>3
  <2>4. /\ Agree(log'[j], written[T], m)
        /\ m <= durable[j] => m <= durable'[j]
    BY <1>1, <2>1, <2>2, <2>3, HoldsOn
  <2>5. QED
    BY <1>1, <1>3, <2>1, <2>4
<1>7. \A j \in B : Agree(log'[j], written'[T], m)
  BY <1>5, <1>6, AgreeSym, AgreeTrans
<1>8. ASSUME NEW j \in B, NEW b \in ballots', b.term > T,
             Supports(j, b.from, b.term)'
      PROVE  AsGood(b, T, m)
  <2>1. /\ j \in Server /\ Agree(log[j], written[T], m)
        /\ \A c \in ballots :
              c.term > T /\ Supports(j, c.from, c.term) => AsGood(c, T, m)
    BY <1>3
  <2>2. QED
    BY <1>8, <2>1, SupportsGood
<1>9. QED
  BY <1>4, <1>6, <1>7, <1>8

\* Nobody who is still in term T has voted in a later one.
LEMMA StandingSupport ==
    ASSUME Core, NEW T \in Nat, NEW j \in Server, currentTerm[j] = T,
           NEW b \in ballots, b.term > T
    PROVE  ~ Supports(j, b.from, b.term)
<1>1. b.term \in Nat /\ b.from \in Server /\ ElectionInv
  BY CoreFacts DEF Core, TypeOK, Ballot
<1>2. QED
  BY <1>1 DEF ElectionInv, SupportRemembered

\* Servers that are still in term T and hold the entry may be counted too.
LEMMA SafeGrows ==
    ASSUME Core, NEW T, NEW m, Own(T, m),
           NEW A \in SUBSET Server, NEW D, NEW B \in SUBSET Server, NEW E,
           Safe(T, m, A, D), E \subseteq D \cup A \cup B,
           \A j \in B : currentTerm[j] = T /\ Agree(log[j], written[T], m),
           \A j \in E : j \in D \/ m <= durable[j] \/ durable[j] = Len(log[j])
    PROVE  Safe(T, m, A \cup B, E)
<1>1. T \in Nat /\ m \in Nat
  BY OwnType
<1>2. Behind(T) \cup (A \cup B) = Behind(T) \cup A
  BY <1>1 DEF Behind
<1> SUFFICES ASSUME Behind(T) \cup A \in Quorum
             PROVE  /\ InLaterLogs(T, m)
                    /\ \A j \in A \cup B : /\ currentTerm[j] >= T
                                           /\ Agree(log[j], written[T], m)
                    /\ \A j \in E : m <= durable[j]
                    /\ \A j \in A \cup B, b \in ballots :
                          b.term > T /\ Supports(j, b.from, b.term) =>
                              AsGood(b, T, m)
  BY <1>2 DEF Safe
<1>3. /\ InLaterLogs(T, m)
      /\ \A j \in A : currentTerm[j] >= T /\ Agree(log[j], written[T], m)
      /\ \A j \in D : m <= durable[j]
      /\ \A j \in A, b \in ballots :
            b.term > T /\ Supports(j, b.from, b.term) => AsGood(b, T, m)
  BY DEF Safe
<1>4. \A j \in A \cup B : currentTerm[j] >= T /\ Agree(log[j], written[T], m)
  BY <1>1, <1>3
<1>5. \A j \in E : m <= durable[j]
  BY <1>3, <1>4 DEF Agree
<1>6. \A j \in B, b \in ballots : b.term > T => ~ Supports(j, b.from, b.term)
  BY <1>1, StandingSupport
<1>7. QED
  BY <1>3, <1>4, <1>5, <1>6

\* To begin with nobody needs to hold it: a majority that is not past term T
\* has not elected anyone later.
LEMMA SafeAtFirst ==
    ASSUME Core, NEW T \in Nat, NEW m
    PROVE  Safe(T, m, {}, {})
<1> SUFFICES ASSUME Behind(T) \cup {} \in Quorum, NEW t \in DOMAIN written, t > T
             PROVE  FALSE
  BY DEF Safe, InLaterLogs
<1>1. PICK i \in Server : <<t, i>> \in leaders
  BY CoreFacts DEF LogInv, TermsLed
<1>2. {} \in SUBSET Server
  OBVIOUS
<1>3. QED
  BY <1>1, <1>2, LaterLeaderElected

\* Fewer may be counted.
LEMMA SafeShrinks ==
    ASSUME NEW T, NEW m, NEW A \in SUBSET Server, NEW D,
           NEW B \in SUBSET A, NEW E \in SUBSET D, Safe(T, m, A, D)
    PROVE  Safe(T, m, B, E)
<1> SUFFICES ASSUME Behind(T) \cup B \in Quorum
             PROVE  Behind(T) \cup A \in Quorum
  BY DEF Safe
<1>1. QED
  BY QuorumGrows DEF Behind

\* An entry that is committed for good: it is safe with a majority.
Fixed(T, m) == Own(T, m) /\ \E Q \in Quorum : Safe(T, m, Q, Q)

LEMMA FixedStays ==
    ASSUME Core, Core', [Next]_vars, NEW T, NEW m, Fixed(T, m)
    PROVE  Fixed(T, m)'
<1>1. PICK Q \in Quorum : Safe(T, m, Q, Q)
  BY DEF Fixed
<1>2. Q \in SUBSET Server /\ Own(T, m)
  BY DEF Quorum, Fixed
<1>3. Safe(T, m, Q, Q)'
  BY <1>1, <1>2, SafeStays
<1>4. Own(T, m)'
  BY <1>2, OwnStays
<1>5. Quorum' = Quorum
  BY DEF Quorum
<1>6. QED
  BY <1>3, <1>4, <1>5 DEF Fixed

\* What a committed entry is good for: a majority has it on disk, the logs of
\* all later leaders have it, and nobody can be elected without it.
LEMMA FixedFacts ==
    ASSUME Core, NEW T, NEW m, Fixed(T, m)
    PROVE  /\ \A t \in DOMAIN written : t >= T => Agree(written[t], written[T], m)
           /\ \E Q \in Quorum : \A j \in Q :
                 m <= durable[j] /\ Agree(log[j], written[T], m)
<1>1. PICK Q \in Quorum : Safe(T, m, Q, Q)
  BY DEF Fixed
<1>2. Q \in SUBSET Server /\ Own(T, m)
  BY DEF Quorum, Fixed
<1>3. Behind(T) \cup Q \in Quorum
  BY <1>2, QuorumGrows DEF Behind
<1>4. /\ InLaterLogs(T, m)
      /\ \A j \in Q : m <= durable[j] /\ Agree(log[j], written[T], m)
  BY <1>1, <1>3 DEF Safe
<1>5. T \in Nat /\ m \in Nat /\ written[T] \in Seq(Entry) /\ m <= Len(written[T])
  BY <1>2, OwnType
<1>6. Agree(written[T], written[T], m)
  BY <1>5, AgreeSelf
<1>7. \A t \in DOMAIN written : t \in Nat
  BY CoreFacts DEF Logs
<1>8. QED
  BY <1>4, <1>5, <1>6, <1>7 DEF InLaterLogs

-----------------------------------------------------------------------------
(***************************************************************************)
(* Acknowledgements. A leader knows of k entries of its log that a peer    *)
(* has: it has counted them or the reply is on its way; or the peer holds  *)
(* the reply back until it has flushed.                                    *)
(***************************************************************************)
Acknowledges(i, j, k) ==
    \/ matchIndex[i][j] >= k
    \/ rpc[i][j] # Nil /\ rpc[i][j].status = "acked" /\ rpc[i][j].index >= k

HoldsBack(i, j, k) == IsHeld(rpc[i][j]) /\ rpc[i][j].index >= k

\* Until j leaves term T it has the k entries, or has them on disk.
Reached(j, T, k) ==
    /\ k <= Len(written[T])
    /\ \/ currentTerm[j] > T
       \/ currentTerm[j] = T /\ Agree(log[j], written[T], k)

Stored(j, T, k) == currentTerm[j] = T => k <= durable[j]

RepliesReal ==
    \A i, j \in Server : i # j /\ state[i] = Leader =>
        \A k \in Nat \ {0} :
            /\ Acknowledges(i, j, k) =>
                  Reached(j, currentTerm[i], k) /\ Stored(j, currentTerm[i], k)
            /\ HoldsBack(i, j, k) => Reached(j, currentTerm[i], k)

\* Match indexes move when a success comes in, and to 0.
LEMMA NextMatch ==
    ASSUME TypeOK, [Next]_vars, NEW i \in Server, NEW j \in Server
    PROVE  \/ matchIndex'[i][j] \in {matchIndex[i][j], 0}
           \/ /\ rpc[i][j] # Nil /\ rpc[i][j].status = "acked"
              /\ matchIndex'[i][j] = Larger(matchIndex[i][j], rpc[i][j].index)
<1>1. CASE UNCHANGED matchIndex
  BY <1>1
<1>2. ASSUME NEW k \in Server,
             matchIndex' = [matchIndex EXCEPT ![k] = [s \in Server |-> 0]]
      PROVE  matchIndex'[i][j] \in {matchIndex[i][j], 0}
  BY <1>2 DEF TypeOK
<1>3. CASE ElectionStep
  <2>1. ASSUME NEW k \in Server, NEW g \in grants, CountVote(k, g)
        PROVE  matchIndex'[i][j] \in {matchIndex[i][j], 0}
    <3>1. CASE Lead(k)
      BY <1>2, <3>1 DEF Lead
    <3>2. CASE ~Lead(k)
      BY <1>1, <2>1, <3>2 DEF CountVote, leaderVars
    <3>3. QED
      BY <3>1, <3>2
  <2>2. ASSUME NEW k \in Server, NEW b \in ballots, NEW s \in Server,
               GrantVote(k, b) \/ RefuseVote(k, b) \/ LearnTerm(k, b, s)
        PROVE  UNCHANGED matchIndex
    BY <2>2 DEF GrantVote, RefuseVote, LearnTerm, StepDown, leaderVars
  <2>3. ASSUME NEW k \in Server, StartElection(k)
        PROVE  UNCHANGED matchIndex
    BY <2>3 DEF StartElection, leaderVars
  <2>4. QED
    BY <1>1, <1>3, <2>1, <2>2, <2>3 DEF ElectionStep
<1>4. CASE LeaderStep
  <2>1. ASSUME NEW k \in Server,
               Heartbeat(k) \/ \E c \in Command : ClientAppend(k, c)
        PROVE  UNCHANGED matchIndex
    BY <2>1 DEF Heartbeat, ClientAppend, leaderVars
  <2>2. ASSUME NEW k \in Server, NEW s \in Server,
               AppendDeposed(k, s) \/ AppendRefused(k, s) \/ CallEnds(k, s)
        PROVE  UNCHANGED matchIndex
    BY <2>2 DEF AppendDeposed, StepDown, AppendRefused, CallEnds, leaderVars
  <2>3. ASSUME NEW k \in Server, NEW s \in Server, AppendSucceeded(k, s)
        PROVE  \/ matchIndex'[i][j] = matchIndex[i][j]
               \/ /\ rpc[i][j] # Nil /\ rpc[i][j].status = "acked"
                  /\ matchIndex'[i][j] = Larger(matchIndex[i][j], rpc[i][j].index)
    <3>1. matchIndex' = [matchIndex EXCEPT
             ![k][s] = Larger(matchIndex[k][s], rpc[k][s].index)]
      BY <2>3 DEF AppendSucceeded
    <3>2. CASE i = k /\ j = s
      BY <2>3, <3>1, <3>2 DEF TypeOK, AppendSucceeded
    <3>3. CASE ~ (i = k /\ j = s)
      BY <3>1, <3>3 DEF TypeOK
    <3>4. QED
      BY <3>2, <3>3
  <2>4. QED
    BY <1>1, <1>4, <2>1, <2>2, <2>3 DEF LeaderStep
<1>5. CASE FollowerStep
  BY <1>1, <1>5
  DEF FollowerStep, RejectAppend, MismatchAppend, AcceptAppend, leaderVars
<1>6. CASE DiskStep
  BY <1>1, <1>6 DEF DiskStep, Flush, StoreCommit, leaderVars
<1>7. CASE FaultStep
  <2>1. ASSUME NEW k \in Server, Restart(k)
        PROVE  matchIndex'[i][j] \in {matchIndex[i][j], 0}
    BY <1>2, <2>1 DEF Restart
  <2>2. QED
    BY <1>1, <1>7, <2>1 DEF FaultStep, Pause, Resume, leaderVars
<1>8. QED
  BY <1>1, <1>3, <1>4, <1>5, <1>6, <1>7 DEF Next, vars

\* A reply that the step itself causes is true: it names entries of the
\* leader's log which its receiver has now, on disk unless it holds the reply.
LEMMA AnswerReal ==
    ASSUME Core, NEW i \in Server, NEW j \in Server, state[i] = Leader,
           Answers(i, j), rpc[i][j] # Nil, NEW k \in Nat, rpc'[i][j].index >= k
    PROVE  LET T == currentTerm[i]
           IN  /\ currentTerm'[j] = T /\ k <= Len(written[T])
               /\ Agree(log'[j], written[T], k)
               /\ rpc'[i][j].status = "acked" => k <= durable'[j]
<1> DEFINE T == currentTerm[i]
<1>1. PICK q \in InFlight :
         /\ q.from = i /\ q.to = j /\ rpc[i][j] = Sent(q) /\ AcceptAppend(j, q)
         /\ rpc'[i][j] = [request |-> q,
               status |-> AckStatus(q.prev + Len(q.entries), durable'[j]),
               term |-> q.term, index |-> q.prev + Len(q.entries)]
  BY DEF Answers
<1> DEFINE n == q.prev + Len(q.entries)
           r == Merge(log[j], q.prev, q.entries)
           kept == Kept(log[j], q.prev, q.entries)
<1>2. /\ TypeOK /\ LogInv /\ RequestInv /\ AcceptAppend(q.to, q)
  BY <1>1, CoreFacts
<1>3. q.term = T
  BY <1>1, <1>2 DEF RequestInv, CallsOwned, Sent
<1>4. /\ T \in DOMAIN written /\ Rewrites(j, r, T) /\ r \in Seq(Entry)
      /\ Agree(r, written[T], n) /\ n \in Nat /\ n <= Len(r)
  BY <1>1, <1>2, <1>3, AcceptMerges
<1>5. /\ rpc'[i][j].index = n
      /\ rpc'[i][j].status = AckStatus(n, durable'[j])
  BY <1>1
<1>6. currentTerm'[j] = T /\ log'[j] = r
  BY <1>2, <1>4 DEF Rewrites, TypeOK
<1>7. written[T] \in Seq(Entry)
  BY <1>4, CoreFacts DEF Logs
<1>8. durable'[j] = DurableAfter(j, kept, r)
  BY <1>1, <1>2 DEF AcceptAppend, TypeOK
<1>9. durable'[j] \in Nat
  <2>1. kept \in 0..Len(log[j])
    BY <1>1, <1>2, AcceptMerges
  <2>2. Len(r) \in Nat /\ durable[j] \in Nat /\ Len(log[j]) \in Nat
    BY <1>4, CoreFacts
  <2> HIDE DEF kept, r
  <2>3. QED
    BY <1>8, <2>1, <2>2 DEF DurableAfter
<1> HIDE DEF n, r, T, kept
<1>10. k <= n /\ k \in Nat
  BY <1>5
<1>11. Agree(r, written[T], k) /\ k <= Len(written[T])
  <2>1. Agree(r, written[T], k)
    BY <1>4, <1>7, <1>10, AgreeLess
  <2>2. QED
    BY <2>1 DEF Agree
<1>12. rpc'[i][j].status = "acked" => k <= durable'[j]
  <2>1. ASSUME GroupCommit, ~ (n > durable'[j])
        PROVE  k <= durable'[j]
    BY <1>4, <1>9, <1>10, <2>1
  <2>2. ASSUME ~ GroupCommit
        PROVE  k <= durable'[j]
    BY <1>4, <1>8, <1>10, <2>2 DEF DurableAfter
  <2>3. QED
    BY <1>5, <2>1, <2>2 DEF AckStatus
<1>13. QED
  BY <1>6, <1>11, <1>12 DEF T

\* Restarting revokes what is held back.
LEMMA RestartDropsHeld ==
    ASSUME TypeOK, NEW i \in Server, NEW j \in Server, Restart(j)
    PROVE  rpc'[i][j] \in {rpc[i][j], Nil} /\ ~IsHeld(rpc'[i][j])
BY DEF Restart, IsHeld

\* Where a leader's knowledge about a peer comes from.
LEMMA NextAcks ==
    ASSUME Core, [Next]_vars, NEW i \in Server, NEW j \in Server,
           state'[i] = Leader, NEW k \in Nat \ {0}
    PROVE  LET T    == currentTerm[i]
               told == /\ currentTerm'[j] = T /\ k <= Len(written[T])
                       /\ Agree(log'[j], written[T], k)
           IN  /\ Acknowledges(i, j, k)' =>
                     /\ state[i] = Leader /\ currentTerm'[i] = T
                     /\ \/ Acknowledges(i, j, k)
                        \/ /\ HoldsBack(i, j, k) /\ ~Restart(j)
                           /\ log'[j] = log[j] /\ durable'[j] = Len(log[j])
                           /\ currentTerm'[j] = currentTerm[j]
                        \/ told /\ k <= durable'[j]
               /\ HoldsBack(i, j, k)' =>
                     /\ state[i] = Leader /\ currentTerm'[i] = T
                     /\ \/ HoldsBack(i, j, k) /\ ~Restart(j)
                        \/ told
<1> DEFINE T    == currentTerm[i]
           told == /\ currentTerm'[j] = T /\ k <= Len(written[T])
                   /\ Agree(log'[j], written[T], k)
<1>1. TypeOK
  BY DEF Core
<1>2. CASE ~ (state[i] = Leader /\ currentTerm'[i] = T)
  <2>1. Lead(i)
    BY <1>1, <1>2, NextLeads
  <2>2. \/ rpc'[i][j] = Nil
        \/ \E q : rpc'[i][j] = Sent(q)
    <3> DEFINE l    == Append(log[i], [term |-> currentTerm[i], data |-> Noop])
               next == [s \in Server |-> Len(log[i]) + 1]
               none == [rpc EXCEPT ![i] = [s \in Server |-> Nil]]
    <3>1. none[i][j] = Nil /\ none \in Calls
      BY <1>1 DEF TypeOK, Calls
    <3>2. rpc' = IF paused[i] THEN none ELSE Broadcast(i, none, l, next)
      BY <2>1 DEF Lead
    <3> HIDE DEF l, next, none
    <3>3. QED
      BY <3>1, <3>2, BroadcastCall
  <2>3. matchIndex'[i][j] = 0
    BY <1>1, <2>1 DEF Lead, TypeOK
  <2>4. rpc'[i][j] # Nil => rpc'[i][j].status = "sent"
    <3>1. \A q : Sent(q).status = "sent"
      BY DEF Sent
    <3>2. QED
      BY <2>2, <3>1
  <2>5. ~ Acknowledges(i, j, k)' /\ ~ HoldsBack(i, j, k)'
    BY <2>3, <2>4 DEF Acknowledges, HoldsBack, IsHeld
  <2>6. QED
    BY <2>5
<1>3. CASE state[i] = Leader /\ currentTerm'[i] = T
  <2>1. CallStep(i, j)
    BY <1>1, NextCalls
  <2>3. matchIndex'[i][j] >= k => Acknowledges(i, j, k)
    <3>1. matchIndex[i][j] \in Nat
      BY <1>1 DEF TypeOK
    <3>2. CASE matchIndex'[i][j] \in {matchIndex[i][j], 0}
      BY <3>1, <3>2 DEF Acknowledges
    <3>3. CASE /\ rpc[i][j] # Nil /\ rpc[i][j].status = "acked"
               /\ matchIndex'[i][j] = Larger(matchIndex[i][j], rpc[i][j].index)
      BY <3>1, <3>3 DEF Acknowledges, Larger
    <3>4. QED
      BY <1>1, <3>2, <3>3, NextMatch
  <2>2. CASE rpc'[i][j] = Nil \/ Posts(i, j) \/ (Outlives(i, j) /\ Refuses(i, j))
    <3>1. rpc'[i][j] # Nil =>
             rpc'[i][j].status = "sent" \/ rpc'[i][j].status = "refused"
      <4>1. Posts(i, j) => rpc'[i][j].status = "sent"
        BY DEF Posts, Sent
      <4>2. QED
        BY <2>2, <4>1 DEF Refuses
    <3>2. ~ HoldsBack(i, j, k)'
      BY <3>1 DEF HoldsBack, IsHeld
    <3>3. Acknowledges(i, j, k)' => matchIndex'[i][j] >= k
      BY <3>1 DEF Acknowledges
    <3>4. QED
      BY <1>3, <2>3, <3>2, <3>3
  <2>4. CASE Outlives(i, j) /\ Keeps(i, j)
    <3>1. rpc'[i][j] = rpc[i][j] /\ (HoldsBack(i, j, k)' => ~Restart(j))
      BY <1>1, <2>4, RestartDropsHeld DEF Keeps, HoldsBack
    <3>2. QED
      BY <1>3, <2>3, <3>1 DEF Acknowledges, HoldsBack
  <2>5. CASE Outlives(i, j) /\ Flushes(i, j)
    <3>1. rpc[i][j] \in Call
      BY <1>1, <2>5 DEF Outlives, TypeOK
    <3>2. rpc'[i][j].status = "acked" /\ rpc'[i][j].index = rpc[i][j].index
      BY <2>5, <3>1 DEF Flushes, Call
    <3>3. ~ HoldsBack(i, j, k)'
      BY <3>2 DEF HoldsBack, IsHeld
    <3>4. ~ Restart(j)
      <4>1. rpc[i][j].status = "held" /\ rpc'[i][j] # Nil
        <5>1. rpc'[i][j] \in Call
          BY <2>5, <3>1 DEF Flushes, Call
        <5>2. QED
          BY <2>5, <5>1, CallAssumption DEF Flushes, IsHeld
      <4>2. QED
        BY <1>1, <3>2, <4>1, RestartDropsHeld
    <3>5. Acknowledges(i, j, k)' => Acknowledges(i, j, k) \/ HoldsBack(i, j, k)
      BY <2>3, <2>5, <3>2 DEF Acknowledges, HoldsBack, Flushes
    <3>6. QED
      BY <1>3, <2>5, <3>3, <3>4, <3>5 DEF Flushes
  <2>6. CASE Outlives(i, j) /\ Answers(i, j)
    <3>1. ASSUME rpc'[i][j].index >= k
          PROVE  told /\ (rpc'[i][j].status = "acked" => k <= durable'[j])
      BY <1>3, <2>6, <3>1, AnswerReal DEF Outlives
    <3>2. QED
      BY <1>3, <2>3, <3>1 DEF Acknowledges, HoldsBack
  <2>7. QED
    BY <2>1, <2>2, <2>4, <2>5, <2>6 DEF CallStep
<1>4. QED
  BY <1>2, <1>3

-----------------------------------------------------------------------------
\* Every step leaves the replies true.
LEMMA NextRepliesReal ==
    Core /\ Core' /\ RepliesReal /\ [Next]_vars => RepliesReal'
<1> SUFFICES ASSUME Core, Core', RepliesReal, [Next]_vars,
                    NEW i \in Server, NEW j \in Server, i # j, state'[i] = Leader,
                    NEW k \in Nat \ {0}
             PROVE  /\ Acknowledges(i, j, k)' =>
                          /\ Reached(j, currentTerm[i], k)'
                          /\ Stored(j, currentTerm[i], k)'
                    /\ HoldsBack(i, j, k)' => Reached(j, currentTerm[i], k)'
  BY DEF RepliesReal
<1> SUFFICES ASSUME NEW T, T = currentTerm[i],
                    Acknowledges(i, j, k)' \/ HoldsBack(i, j, k)'
             PROVE  /\ Reached(j, T, k)'
                    /\ Acknowledges(i, j, k)' => Stored(j, T, k)'
                    /\ currentTerm'[i] = T
  BY DEF Reached, Stored
<1>1. /\ state[i] = Leader /\ currentTerm'[i] = T
      /\ T \in Nat /\ currentTerm[j] \in Nat /\ currentTerm'[j] \in Nat
      /\ currentTerm'[j] >= currentTerm[j]
  BY NextAcks, TermsRise DEF Core, TypeOK
<1>2. T \in DOMAIN written
  <2>1. <<T, i>> \in leaders /\ TermsLed
    BY <1>1, CoreFacts DEF LogInv, LeadersWrite
  <2>2. <<T, i>>[1] \in DOMAIN written
    BY <2>1 DEF TermsLed
  <2>3. QED
    BY <2>2
<1>3. /\ written[T] \in Seq(Entry) /\ written'[T] \in Seq(Entry)
      /\ T \in DOMAIN written' /\ log[j] \in Seq(Entry)
      /\ durable[j] \in Nat
  BY <1>2, CoreFacts, CoreExtends DEF Extends, Logs
<1>4. ASSUME k <= Len(written[T])
      PROVE  Agree(written'[T], written[T], k) /\ k <= Len(written'[T])
  <2>1. Agree(written'[T], written[T], k)
    BY <1>2, <1>4, WrittenStays
  <2>2. QED
    BY <2>1 DEF Agree
<1>5. ASSUME currentTerm'[j] = T => Agree(log'[j], written[T], k),
             k <= Len(written[T]), currentTerm'[j] >= T
      PROVE  Reached(j, T, k)'
  <2>1. Agree(written'[T], written[T], k) /\ k <= Len(written'[T])
    BY <1>4, <1>5
  <2>2. currentTerm'[j] = T => Agree(log'[j], written'[T], k)
    BY <1>5, <2>1, AgreeSym, AgreeTrans
  <2>3. QED
    BY <1>1, <1>5, <2>1, <2>2 DEF Reached
\* What was true before and is still said.
<1>6. ASSUME Reached(j, T, k), Restart(j) => Stored(j, T, k)
      PROVE  Reached(j, T, k)' /\ (Stored(j, T, k) => Stored(j, T, k)')
  <2>1. k <= Len(written[T]) /\ currentTerm[j] >= T /\ currentTerm'[j] >= T
    BY <1>1, <1>6 DEF Reached
  <2>2. ASSUME currentTerm'[j] = T
        PROVE  /\ Agree(log'[j], written[T], k)
               /\ Stored(j, T, k) => k <= durable'[j]
    <3>1. currentTerm[j] = T /\ Agree(log[j], written[T], k)
      BY <1>1, <1>6, <2>1, <2>2 DEF Reached
    <3>2. Restart(j) => k <= durable[j]
      BY <1>6, <3>1 DEF Stored
    <3>3. \A u \in DOMAIN written : u >= currentTerm[j] /\ u <= currentTerm'[j] =>
             Agree(written[u], written[T], k)
      <4>1. Agree(written[T], written[T], k)
        BY <1>3, <2>1, AgreeSelf
      <4>2. \A u \in DOMAIN written : u \in Nat
        BY CoreFacts DEF Logs
      <4>3. QED
        BY <1>1, <2>2, <3>1, <4>1, <4>2
    <3>4. /\ Agree(log'[j], written[T], k)
          /\ k <= durable[j] => k <= durable'[j]
      BY <1>2, <3>1, <3>2, <3>3, HoldsOn
    <3>5. QED
      BY <3>1, <3>4 DEF Stored
  <2>3. Reached(j, T, k)'
    BY <1>5, <2>1, <2>2
  <2>4. Stored(j, T, k) => Stored(j, T, k)'
    BY <2>2 DEF Stored
  <2>5. QED
    BY <2>3, <2>4
<1>7. CASE Acknowledges(i, j, k)
  <2>1. Reached(j, T, k) /\ Stored(j, T, k)
    BY <1>1, <1>7 DEF RepliesReal
  <2>2. QED
    BY <1>1, <1>6, <2>1
<1>8. ASSUME HoldsBack(i, j, k), ~Restart(j)
      PROVE  Reached(j, T, k)' /\ k <= Len(written[T])
  <2>1. Reached(j, T, k)
    BY <1>1, <1>8 DEF RepliesReal
  <2>2. QED
    BY <1>6, <1>8, <2>1 DEF Reached
<1>9. ASSUME HoldsBack(i, j, k), ~Restart(j), log'[j] = log[j],
             durable'[j] = Len(log[j]), currentTerm'[j] = currentTerm[j]
      PROVE  Stored(j, T, k)'
  <2>1. Reached(j, T, k)
    BY <1>1, <1>9 DEF RepliesReal
  <2>2. currentTerm[j] = T => k <= Len(log[j])
    BY <1>1, <2>1 DEF Reached, Agree
  <2>3. QED
    BY <1>9, <2>2 DEF Stored
<1>10. ASSUME currentTerm'[j] = T, k <= Len(written[T]),
              Agree(log'[j], written[T], k)
       PROVE  Reached(j, T, k)'
  BY <1>1, <1>5, <1>10
<1>11. ASSUME k <= durable'[j]
       PROVE  Stored(j, T, k)'
  BY <1>11 DEF Stored
<1>12. CASE Acknowledges(i, j, k)'
  BY <1>1, <1>7, <1>8, <1>9, <1>10, <1>11, <1>12, NextAcks
<1>13. CASE HoldsBack(i, j, k)' /\ ~ Acknowledges(i, j, k)'
  BY <1>1, <1>8, <1>10, <1>13, NextAcks
<1>14. QED
  BY <1>12, <1>13

-----------------------------------------------------------------------------
\* Those that have acknowledged the first m entries to the leader i, itself
\* once they are on its disk; and with them those that hold the reply back.
Acked(i, m) ==
    {j \in Server : IF j = i THEN durable[i] >= m ELSE Acknowledges(i, j, m)}

Acking(i, m) == Acked(i, m) \cup {j \in Server \ {i} : HoldsBack(i, j, m)}

\* What has been acknowledged to a leader is safe, as far as it goes.
LeaderSafe ==
    \A i \in Server : state[i] = Leader =>
        \A m \in Nat : Own(currentTerm[i], m) =>
            Safe(currentTerm[i], m, Acking(i, m), Acked(i, m))

\* SafeGrows and SafeAtFirst, to be used in the state after a step.
Growing ==
    \A T, m, D, E : \A A, B \in SUBSET Server :
        /\ Own(T, m) /\ Safe(T, m, A, D) /\ E \subseteq D \cup A \cup B
        /\ \A j \in B : currentTerm[j] = T /\ Agree(log[j], written[T], m)
        /\ \A j \in E : j \in D \/ m <= durable[j] \/ durable[j] = Len(log[j])
        => Safe(T, m, A \cup B, E)

Starting == \A T \in Nat : \A m : Safe(T, m, {}, {})

LEMMA CoreGrows == Core => Growing /\ Starting
<1> SUFFICES ASSUME Core
             PROVE  Growing /\ Starting
  OBVIOUS
<1>2. Growing
  <2> SUFFICES ASSUME NEW T, NEW m, NEW D, NEW E
               PROVE  \A A, B \in SUBSET Server :
        /\ Own(T, m) /\ Safe(T, m, A, D) /\ E \subseteq D \cup A \cup B
        /\ \A j \in B : currentTerm[j] = T /\ Agree(log[j], written[T], m)
        /\ \A j \in E : j \in D \/ m <= durable[j] \/ durable[j] = Len(log[j])
        => Safe(T, m, A \cup B, E)
    BY DEF Growing
  <2> SUFFICES ASSUME NEW A \in SUBSET Server, NEW B \in SUBSET Server,
             Own(T, m), Safe(T, m, A, D), E \subseteq D \cup A \cup B,
             \A j \in B : currentTerm[j] = T /\ Agree(log[j], written[T], m),
             \A j \in E : j \in D \/ m <= durable[j] \/ durable[j] = Len(log[j])
               PROVE  Safe(T, m, A \cup B, E)
    OBVIOUS
  <2>1. QED
    BY SafeGrows
<1>3. Starting
  BY SafeAtFirst DEF Starting
<1>4. QED
  BY <1>2, <1>3

LEMMA NextLeaderSafe ==
    Core /\ Core' /\ RepliesReal /\ LeaderSafe /\ [Next]_vars => LeaderSafe'
<1> SUFFICES ASSUME Core, Core', RepliesReal, LeaderSafe, [Next]_vars
             PROVE  LeaderSafe'
  OBVIOUS
<1>1. Growing' /\ Starting'
  <2>1. Core' => Growing' /\ Starting'
    BY CoreGrows, PTL
  <2>2. QED
    BY <2>1
<1> SUFFICES ASSUME NEW i \in Server, state'[i] = Leader,
                    NEW m \in Nat, NEW T, T = currentTerm'[i], Own(T, m)',
                    NEW A \in SUBSET Server, NEW D \in SUBSET A,
                    A = Acking(i, m)', D = Acked(i, m)'
             PROVE  Safe(T, m, A, D)'
  <2>1. ASSUME NEW i \in Server, NEW m \in Nat
        PROVE  /\ (Acking(i, m) \in SUBSET Server)'
               /\ (Acked(i, m) \in SUBSET Acking(i, m))'
    BY DEF Acking, Acked
  <2>2. QED
    BY <2>1 DEF LeaderSafe
<1> DEFINE N == {j \in Server : currentTerm'[j] = T /\ Agree(log'[j], written'[T], m)}
<1>2. /\ T \in Nat /\ T \in DOMAIN written' /\ written'[T] \in Seq(Entry)
      /\ m \in Nat \ {0} /\ m \in 1..Len(written'[T])
      /\ log'[i] = written'[T] /\ durable'[i] \in Nat
  <2>1. Core' => /\ TypeOK' /\ LogInv'
    BY DEF Core, SafeLogs
  <2>2. log'[i] = written'[T]
    BY <2>1 DEF LogInv, LeadersWrite
  <2>3. T \in DOMAIN written' /\ m \in 1..Len(written'[T])
    BY DEF Own
  <2>4. QED
    BY <2>1, <2>2, <2>3 DEF TypeOK
<1>3. i \in N
  <2>1. Agree(written'[T], written'[T], m)
    BY <1>2, AgreeSelf
  <2>2. QED
    BY <1>2, <2>1
<1>4. i \in D => m <= durable'[i]
  BY <1>2 DEF Acked
<1>5. \A j \in A : j # i => Acknowledges(i, j, m)' \/ HoldsBack(i, j, m)'
  BY DEF Acking, Acked
<1>6. \A j \in D : j # i => Acknowledges(i, j, m)'
  BY DEF Acked
<1>7. N \in SUBSET Server /\ \A j \in N : currentTerm'[j] = T /\ Agree(log'[j], written'[T], m)
  OBVIOUS
\* The entry is new: only its leader can have it.
<1>8. CASE ~ (state[i] = Leader /\ currentTerm[i] = T /\ Own(T, m))
  <2>1. ASSUME NEW j \in A, j # i
        PROVE  FALSE
    <3>1. state[i] = Leader /\ currentTerm[i] = T
      BY <1>2, <1>5, <2>1, NextAcks
    <3>2. m <= Len(written[T])
      <4>1. CASE Acknowledges(i, j, m) \/ HoldsBack(i, j, m)
        BY <1>2, <2>1, <3>1, <4>1 DEF RepliesReal, Reached
      <4>2. CASE ~ (Acknowledges(i, j, m) \/ HoldsBack(i, j, m))
        BY <1>2, <1>5, <2>1, <3>1, <4>2, NextAcks
      <4>3. QED
        BY <4>1, <4>2
    <3>3. T \in DOMAIN written
      <4>1. <<T, i>> \in leaders /\ TermsLed
        BY <3>1, CoreFacts DEF LogInv, LeadersWrite
      <4>2. <<T, i>>[1] \in DOMAIN written
        BY <4>1 DEF TermsLed
      <4>3. QED
        BY <4>2
    <3>4. Agree(written'[T], written[T], m)
      BY <1>2, <3>2, <3>3, WrittenStays
    <3>5. written'[T][m] = written[T][m] /\ m \in 1..Len(written[T])
      BY <1>2, <3>4 DEF Agree
    <3>6. Own(T, m)
      BY <3>3, <3>5 DEF Own
    <3>7. QED
      BY <1>8, <3>1, <3>6
  <2>2. Safe(T, m, {}, {})'
    BY <1>1, <1>2 DEF Starting
  <2>3. {} \cup A = A /\ D \subseteq {} \cup {} \cup A /\ A \subseteq N
    BY <1>3, <2>1
  <2>4. /\ \A j \in A : currentTerm'[j] = T /\ Agree(log'[j], written'[T], m)
        /\ \A j \in D : m <= durable'[j]
    BY <1>4, <1>7, <2>1, <2>3
  <2> HIDE DEF N
  <2>5. Safe(T, m, {} \cup A, D)'
    BY <1>1, <2>2, <2>3, <2>4 DEF Growing
  <2>6. QED
    BY <2>3, <2>5
\* The entry is old: those counted before, and those that just got it.
<1>9. CASE state[i] = Leader /\ currentTerm[i] = T /\ Own(T, m)
  <2> PICK C \in SUBSET Server : C = Acking(i, m)
    BY DEF Acking, Acked
  <2> PICK E \in SUBSET C : E = Acked(i, m)
    BY DEF Acking
  <2> PICK B \in SUBSET C : B = {j \in C \cap A : Restart(j) => j \in E}
    OBVIOUS
  <2> PICK F \in SUBSET E : F = E \cap B
    OBVIOUS
  <2> PICK G \in SUBSET N : G = N \cap A
    OBVIOUS
  <2>1. Safe(T, m, C, E)
    BY <1>9 DEF LeaderSafe
  <2>2. C \in SUBSET Server /\ E \in SUBSET C
    OBVIOUS
  <2>3. B \in SUBSET C /\ F \in SUBSET B /\ F \in SUBSET E /\ B \subseteq A
    OBVIOUS
  <2>4. \A j \in B : Restart(j) => j \in F
    OBVIOUS
  <2>5. T \in DOMAIN written /\ m <= Len(written[T])
    BY <1>9, OwnType DEF Own
  <2>6. Agree(written'[T], written[T], m)
    BY <1>9, OwnStays
  <2>7. ASSUME NEW j \in Server, currentTerm'[j] = T, Agree(log'[j], written[T], m)
        PROVE  j \in N
    <3>1. Agree(log'[j], written'[T], m)
      BY <2>6, <2>7, AgreeSym, AgreeTrans
    <3>2. QED
      BY <2>7, <3>1
  <2>8. /\ \A j \in Server : j # i /\ Acknowledges(i, j, m) => j \in E /\ j \in C
        /\ \A j \in Server : j # i /\ HoldsBack(i, j, m) => j \in C
    BY DEF Acking, Acked
  <2> HIDE DEF N
  <2>9. ASSUME NEW j \in A
        PROVE  j \in B \cup N
    <3>1. CASE j = i
      BY <1>3, <3>1
    <3>2. CASE j # i /\ Acknowledges(i, j, m)'
      BY <1>2, <1>9, <2>7, <2>8, <3>2, NextAcks
    <3>3. CASE j # i /\ HoldsBack(i, j, m)'
      BY <1>2, <1>9, <2>7, <2>8, <3>3, NextAcks
    <3>4. QED
      BY <1>5, <3>1, <3>2, <3>3
  <2>10. ASSUME NEW j \in D
         PROVE  j \in F \/ m <= durable'[j] \/ durable'[j] = Len(log'[j])
    <3>1. CASE j = i
      BY <1>4, <3>1
    <3>2. CASE j # i
      <4>1. Acknowledges(i, j, m)'
        BY <1>6, <3>2
      <4>2. Acknowledges(i, j, m) => j \in F
        BY <2>8, <3>2
      <4>3. QED
        BY <1>2, <1>9, <4>1, <4>2, NextAcks
    <3>3. QED
      BY <3>1, <3>2
  <2>11. Safe(T, m, C, F)
    <3>1. C \in SUBSET C
      OBVIOUS
    <3>2. QED
      BY <2>1, <2>2, <2>3, <3>1, SafeShrinks
  <2>12. Safe(T, m, B, F)'
    BY <1>9, <2>2, <2>3, <2>4, <2>11, SafeStays
  <2>13. G \in SUBSET Server /\ B \in SUBSET Server /\ A = B \cup G /\ D \subseteq F \cup B \cup G
    BY <1>7, <2>2, <2>3, <2>9
  <2>14. \A j \in G : currentTerm'[j] = T /\ Agree(log'[j], written'[T], m)
    BY <1>7
  <2>15. Safe(T, m, B \cup G, D)'
    BY <1>1, <2>10, <2>12, <2>13, <2>14 DEF Growing
  <2>16. QED
    BY <2>13, <2>15
<1>10. QED
  BY <1>8, <1>9

-----------------------------------------------------------------------------
LEMMA InitLeaderSafe == Init => RepliesReal /\ LeaderSafe
BY DEF Init, RepliesReal, LeaderSafe, Follower, Leader

-----------------------------------------------------------------------------
(***************************************************************************)
(* Commit indexes. A step commits at a leader; or a follower learns of it; *)
(* or a crash takes the index back to the stored one; or none moves.       *)
(***************************************************************************)
Decision(i, k) == [index |-> k, entry |-> log[i][k], term |-> currentTerm[i]]

Undecided(i, k) == \A d \in decided : d.index # k \/ d.entry # log[i][k]

Commits(i, last) ==
    /\ state[i] = Leader
    /\ last \in Committable(i, matchIndex'[i], durable'[i])
    /\ commitIndex' = [commitIndex EXCEPT ![i] = last]
    /\ storedCommit' \in {storedCommit, [storedCommit EXCEPT ![i] = last]}
    /\ decided' = decided \cup
          {Decision(i, k) : k \in {k \in (commitIndex[i] + 1)..last : Undecided(i, k)}}
    /\ UNCHANGED <<log, currentTerm, state, written>>

CommitsStand ==
    /\ UNCHANGED <<commitIndex, decided>>
    /\ \A i \in Server : storedCommit'[i] \in {storedCommit[i], commitIndex[i]}

\* Advancing commits the highest entry it may, or nothing.
LEMMA Advances ==
    ASSUME TypeOK, NEW i \in Server, matchIndex' \in [Server -> [Server -> Nat]],
           AdvanceCommit(i, matchIndex'[i], durable'[i]),
           UNCHANGED <<log, currentTerm, state, written>>
    PROVE  CommitsStand \/ \E last \in Nat : Commits(i, last)
<1> DEFINE ready == Committable(i, matchIndex'[i], durable'[i])
           last  == CHOOSE k \in ready : \A m \in ready : m <= k
<1>1. CASE state[i] = Leader /\ ready # {}
  <2>1. ready \in SUBSET (0..Len(log[i])) /\ Len(log[i]) \in Nat
    BY DEF Committable, TypeOK
  <2>2. last \in ready
    BY <1>1, <2>1, GreatestNatural
  <2>3. last \in Nat
    BY <2>1, <2>2
  <2>4. /\ commitIndex' = [commitIndex EXCEPT ![i] = last]
        /\ storedCommit' = IF GroupCommit THEN storedCommit
                           ELSE [storedCommit EXCEPT ![i] = last]
        /\ decided' = decided \cup
              {Decision(i, k) :
                  k \in {k \in (commitIndex[i] + 1)..last : Undecided(i, k)}}
    BY <1>1 DEF AdvanceCommit, Decision, Undecided
  <2> HIDE DEF last, ready
  <2>5. Commits(i, last)
    BY <1>1, <2>2, <2>4 DEF Commits, ready
  <2>6. QED
    BY <2>3, <2>5
<1>2. CASE ~ (state[i] = Leader /\ ready # {})
  BY <1>2 DEF AdvanceCommit, CommitsStand
<1>3. QED
  BY <1>1, <1>2

LEMMA StepDownStands ==
    ASSUME TypeOK, NEW i \in Server, NEW T, NEW calls, StepDown(i, T, calls)
    PROVE  CommitsStand
BY DEF StepDown, CommitsStand, history, TypeOK

LEMMA UnchangedStands ==
    ASSUME UNCHANGED <<commitIndex, storedCommit, decided>>
    PROVE  CommitsStand
BY DEF CommitsStand

LEMMA CommitKinds ==
    ASSUME TypeOK, TypeOK', [Next]_vars
    PROVE  \/ CommitsStand
           \/ \E i \in Server : Restart(i)
           \/ \E q \in InFlight : AcceptAppend(q.to, q)
           \/ \E i \in Server, last \in Nat : Commits(i, last)
<1>1. CASE ElectionStep
  <2>1. ASSUME NEW i \in Server, StartElection(i)
        PROVE  CommitsStand
    BY <2>1 DEF StartElection, CommitsStand, history, TypeOK
  <2>2. ASSUME NEW j \in Server, NEW b \in ballots, GrantVote(j, b)
        PROVE  CommitsStand
    BY <2>2 DEF GrantVote, CommitsStand, history, TypeOK
  <2>3. ASSUME NEW j \in Server, NEW b \in ballots, RefuseVote(j, b)
        PROVE  CommitsStand
    BY <2>3, StepDownStands DEF RefuseVote
  <2>4. ASSUME NEW i \in Server, NEW b \in ballots, NEW j \in Server,
               LearnTerm(i, b, j)
        PROVE  CommitsStand
    BY <2>4, StepDownStands DEF LearnTerm
  <2>5. ASSUME NEW i \in Server, NEW g \in grants, CountVote(i, g)
        PROVE  CommitsStand
    BY <2>5, UnchangedStands DEF CountVote, metaVars
  <2>6. QED
    BY <1>1, <2>1, <2>2, <2>3, <2>4, <2>5 DEF ElectionStep
<1>2. CASE LeaderStep
  <2>1. ASSUME NEW i \in Server, NEW j \in Server, AppendDeposed(i, j)
        PROVE  CommitsStand
    BY <2>1, StepDownStands DEF AppendDeposed
  <2>2. ASSUME NEW i \in Server, NEW j \in Server,
               Heartbeat(i) \/ AppendRefused(i, j) \/ CallEnds(i, j)
        PROVE  CommitsStand
    BY <2>2, UnchangedStands
    DEF Heartbeat, AppendRefused, CallEnds, metaVars, history
  <2>3. ASSUME NEW i \in Server, NEW c \in Command, ClientAppend(i, c)
        PROVE  CommitsStand
    BY <2>3, UnchangedStands DEF ClientAppend, metaVars
  <2>4. ASSUME NEW i \in Server, NEW j \in Server, AppendSucceeded(i, j)
        PROVE  CommitsStand \/ \E last \in Nat : Commits(i, last)
    <3> DEFINE match == Larger(matchIndex[i][j], rpc[i][j].index)
    <3>1. /\ matchIndex' = [matchIndex EXCEPT ![i][j] = match]
          /\ AdvanceCommit(i, [matchIndex[i] EXCEPT ![j] = match], durable[i])
          /\ UNCHANGED <<log, durable, currentTerm, state, written>>
      BY <2>4 DEF AppendSucceeded, logVars
    <3> HIDE DEF match
    <3>2. matchIndex'[i] = [matchIndex[i] EXCEPT ![j] = match]
      BY <3>1 DEF TypeOK
    <3>3. matchIndex' \in [Server -> [Server -> Nat]]
      BY DEF TypeOK
    <3>4. QED
      BY <3>1, <3>2, <3>3, Advances
  <2>5. QED
    BY <1>2, <2>1, <2>2, <2>3, <2>4 DEF LeaderStep
<1>3. CASE FollowerStep
  <2>1. PICK q \in InFlight : \/ RejectAppend(q.to, q)
                              \/ MismatchAppend(q.to, q)
                              \/ AcceptAppend(q.to, q)
    BY <1>3 DEF FollowerStep
  <2>2. CASE RejectAppend(q.to, q)
    BY <2>2, UnchangedStands DEF RejectAppend, metaVars, history
  <2>3. CASE MismatchAppend(q.to, q)
    BY <2>3 DEF MismatchAppend, CommitsStand, StoredIn, history, TypeOK
  <2>4. QED
    BY <2>1, <2>2, <2>3
<1>4. CASE DiskStep
  <2>1. ASSUME NEW i \in Server, Flush(i)
        PROVE  CommitsStand \/ \E last \in Nat : Commits(i, last)
    <3>1. /\ durable' = [durable EXCEPT ![i] = Len(log[i])]
          /\ AdvanceCommit(i, matchIndex[i], Len(log[i]))
          /\ UNCHANGED <<log, matchIndex, currentTerm, state, written>>
      BY <2>1 DEF Flush, leaderVars
    <3>2. durable'[i] = Len(log[i])
      BY <3>1 DEF TypeOK
    <3>3. matchIndex' \in [Server -> [Server -> Nat]]
      BY DEF TypeOK
    <3>4. QED
      BY <3>1, <3>2, <3>3, Advances
  <2>2. ASSUME NEW i \in Server, StoreCommit(i)
        PROVE  CommitsStand
    BY <2>2 DEF StoreCommit, CommitsStand, history, TypeOK
  <2>3. QED
    BY <1>4, <2>1, <2>2 DEF DiskStep
<1>5. CASE FaultStep
  <2>1. ASSUME NEW i \in Server, Pause(i) \/ Resume(i)
        PROVE  CommitsStand
    BY <2>1, UnchangedStands DEF Pause, Resume, metaVars, history
  <2>2. QED
    BY <1>5, <2>1 DEF FaultStep
<1>6. CASE UNCHANGED vars
  BY <1>6, UnchangedStands DEF vars
<1>7. QED
  BY <1>1, <1>2, <1>3, <1>4, <1>5, <1>6 DEF Next

-----------------------------------------------------------------------------
\* What a majority has acknowledged to a leader is committed for good.
AckedIsFixed ==
    \A i \in Server, k \in Nat, Q \in Quorum :
        state[i] = Leader /\ Own(currentTerm[i], k) /\ Q \subseteq Acked(i, k)
            => Fixed(currentTerm[i], k)

LEMMA AckedFixed == LeaderSafe => AckedIsFixed
<1> SUFFICES ASSUME LeaderSafe, NEW i \in Server, NEW k \in Nat, NEW Q \in Quorum,
                    state[i] = Leader, Own(currentTerm[i], k), Q \subseteq Acked(i, k)
             PROVE  Fixed(currentTerm[i], k)
  BY DEF AckedIsFixed
<1>1. Safe(currentTerm[i], k, Acking(i, k), Acked(i, k))
  BY DEF LeaderSafe
<1>2. /\ Acking(i, k) \in SUBSET Server /\ Q \in SUBSET Acking(i, k)
      /\ Q \in SUBSET Acked(i, k)
  BY DEF Acking, Acked
<1>3. Safe(currentTerm[i], k, Q, Q)
  BY <1>1, <1>2, SafeShrinks
<1>4. QED
  BY <1>3 DEF Fixed

\* What a leader commits is committed for good.
LEMMA CommitsFixed ==
    ASSUME Core, Core', LeaderSafe', NEW i \in Server, NEW last \in Nat,
           Commits(i, last)
    PROVE  /\ Fixed(currentTerm[i], last)'
           /\ last > commitIndex[i] /\ last <= Len(log[i])
           /\ currentTerm[i] \in DOMAIN written
           /\ log[i] = written[currentTerm[i]]
<1>1. /\ last \in (commitIndex[i] + 1)..Len(log[i])
      /\ log[i][last].term = currentTerm[i]
      /\ Holders(i, last, matchIndex'[i], durable'[i]) \in Quorum
  BY DEF Commits, Committable
<1>2. commitIndex[i] \in Nat /\ Len(log[i]) \in Nat
  BY DEF Core, TypeOK
<1>3. currentTerm[i] \in DOMAIN written /\ log[i] = written[currentTerm[i]]
  <2>1. <<currentTerm[i], i>> \in leaders /\ TermsLed /\ log[i] = written[currentTerm[i]]
    BY CoreFacts DEF Commits, LogInv, LeadersWrite
  <2>2. <<currentTerm[i], i>>[1] \in DOMAIN written
    BY <2>1 DEF TermsLed
  <2>3. QED
    BY <2>1, <2>2
<1>4. state'[i] = Leader /\ currentTerm'[i] = currentTerm[i] /\ written' = written
  BY DEF Commits
<1>5. last \in 1..Len(log[i])
  BY <1>1, <1>2
<1>6. Own(currentTerm[i], last)'
  BY <1>1, <1>3, <1>4, <1>5 DEF Own
<1>7. Holders(i, last, matchIndex'[i], durable'[i]) \subseteq Acked(i, last)'
  BY DEF Holders, Acked, Acknowledges
<1>8. AckedIsFixed'
  <2>1. LeaderSafe' => AckedIsFixed'
    BY AckedFixed, PTL
  <2>2. QED
    BY <2>1
<1>9. Fixed(currentTerm[i], last)'
  BY <1>1, <1>4, <1>6, <1>7, <1>8 DEF AckedIsFixed
<1>10. QED
  BY <1>1, <1>2, <1>3, <1>9

-----------------------------------------------------------------------------
(***************************************************************************)
(* Commit indexes are covered: the log of T is committed for good at least *)
(* up to k, and l is the same as far as both go.                           *)
(***************************************************************************)
Confirmed(t, k) ==
    k = 0 \/ \E T, m \in Nat : T <= t /\ k <= m /\ Fixed(T, m)

Covered(l, t, k) ==
    \/ k = 0
    \/ \E T, m \in Nat : /\ T <= t /\ k <= m /\ Fixed(T, m)
                         /\ Agree(l, written[T], Smaller(k, Len(l)))

CommitsCovered ==
    \A i \in Server :
        /\ commitIndex[i] <= Len(log[i])
        /\ Covered(log[i], currentTerm[i], commitIndex[i])
        /\ Covered(log[i], currentTerm[i], storedCommit[i])

RequestsCovered == \A q \in Carried : Confirmed(q.term, q.commit)

\* What a leader has committed is committed for good.
DecidedFixed ==
    \A d \in decided :
        /\ d.index > 0 /\ \E m \in Nat : d.index <= m /\ Fixed(d.term, m)
        /\ written[d.term][d.index] = d.entry

\* A leader's commit index covers what was committed in its term.
OwnDecided ==
    \A i \in Server : state[i] = Leader =>
        \A d \in decided : d.term = currentTerm[i] => d.index <= commitIndex[i]

-----------------------------------------------------------------------------
\* FixedFacts, to be used in the state after a step.
FixedKept ==
    \A T, m \in Nat : Fixed(T, m) =>
        /\ T \in DOMAIN written /\ written[T] \in Seq(Entry)
        /\ m \in 1..Len(written[T])
        /\ \A t \in DOMAIN written : t >= T => Agree(written[t], written[T], m)

LEMMA CoreFixedKept == Core => FixedKept
<1> SUFFICES ASSUME Core, NEW T \in Nat, NEW m \in Nat, Fixed(T, m)
             PROVE  /\ T \in DOMAIN written /\ written[T] \in Seq(Entry)
                    /\ m \in 1..Len(written[T])
                    /\ \A t \in DOMAIN written :
                          t >= T => Agree(written[t], written[T], m)
  BY DEF FixedKept
<1>1. T \in DOMAIN written /\ m \in 1..Len(written[T])
  BY DEF Fixed, Own
<1>2. written[T] \in Seq(Entry)
  BY <1>1, CoreFacts DEF Logs
<1>3. QED
  BY <1>1, <1>2, FixedFacts

LEMMA FixedKeptNext ==
    ASSUME Core, Core'
    PROVE  FixedKept /\ FixedKept'
<1>1. Core' => FixedKept'
  BY CoreFixedKept, PTL
<1>2. QED
  BY <1>1, CoreFixedKept

\* What a server's log shares with a committed log it goes on sharing, and
\* it keeps it unless it crashes.
LEMMA CoverAdvances ==
    ASSUME Core, Core', [Next]_vars, NEW T \in Nat, NEW m \in Nat, Fixed(T, m),
           NEW j \in Server, T <= currentTerm[j], NEW k \in Nat, k <= m,
           Agree(log[j], written[T], Smaller(k, Len(log[j])))
    PROVE  /\ Agree(log'[j], written'[T], Smaller(k, Len(log'[j])))
           /\ k <= Len(log[j]) => k <= Len(log'[j]) \/ Restart(j)
<1> DEFINE l == log[j]
           r == log'[j]
           w == written[T]
           v == written'[T]
<1>1. /\ FixedKept /\ FixedKept' /\ TypeOK' /\ Fixed(T, m)'
  BY FixedKeptNext, FixedStays DEF Core
<1>2. /\ T \in DOMAIN written /\ w \in Seq(Entry) /\ m \in 1..Len(w)
      /\ \A t \in DOMAIN written : t >= T => Agree(written[t], w, m)
  BY <1>1 DEF FixedKept
<1>3. /\ T \in DOMAIN written' /\ v \in Seq(Entry) /\ m \in 1..Len(v)
      /\ \A t \in DOMAIN written' : t >= T => Agree(written'[t], v, m)
  BY <1>1 DEF FixedKept
<1>4. /\ l \in Seq(Entry) /\ r \in Seq(Entry) /\ Len(l) \in Nat /\ Len(r) \in Nat
      /\ currentTerm[j] \in Nat /\ currentTerm'[j] \in Nat
  <2>1. log' \in [Server -> Seq(Entry)] /\ currentTerm' \in [Server -> Nat]
    BY <1>1 DEF TypeOK
  <2>2. r \in Seq(Entry) /\ currentTerm'[j] \in Nat
    BY <2>1
  <2>3. l \in Seq(Entry) /\ currentTerm[j] \in Nat
    BY CoreFacts
  <2>4. QED
    BY <2>2, <2>3
<1>5. Agree(v, w, m)
  BY <1>2, WrittenStays
<1>6. \A n \in Nat : n <= m /\ Agree(r, w, n) => Agree(r, v, n)
  BY <1>2, <1>3, <1>5, AgreeLess, AgreeSym, AgreeTrans
<1>7. CASE log'[j] = log[j]
  BY <1>4, <1>6, <1>7 DEF Smaller
<1>8. CASE state'[j] = Leader
  <2>1. currentTerm'[j] \in DOMAIN written' /\ r = written'[currentTerm'[j]]
    <3>1. Core' => LogInv'
      BY DEF Core, SafeLogs
    <3>2. <<currentTerm'[j], j>> \in leaders' /\ TermsLed' /\ r = written'[currentTerm'[j]]
      BY <1>8, <3>1 DEF LogInv, LeadersWrite
    <3>3. <<currentTerm'[j], j>>[1] \in DOMAIN written'
      BY <3>2 DEF TermsLed
    <3>4. QED
      BY <3>2, <3>3
  <2>2. currentTerm'[j] >= T
    BY <1>4, TermsRise DEF Core
  <2>3. Agree(r, v, m)
    BY <1>3, <2>1, <2>2
  <2>4. m <= Len(r)
    BY <2>3 DEF Agree
  <2>5. Smaller(k, Len(r)) = k
    BY <1>4, <2>4 DEF Smaller
  <2>6. Agree(r, v, k)
    BY <1>3, <1>4, <2>3, AgreeLess
  <2>7. QED
    BY <1>4, <2>4, <2>5, <2>6
<1>9. CASE Restart(j)
  <2>1. PICK kept \in durable[j]..Len(log[j]) :
          log' = [log EXCEPT ![j] = SubSeq(log[j], 1, kept)]
    BY <1>9 DEF Restart
  <2>2. kept \in 0..Len(l) /\ r = SubSeq(l, 1, kept)
    BY <2>1, CoreFacts DEF TypeOK
  <2>3. Len(r) = kept /\ Agree(r, l, kept)
    BY <1>4, <2>2, PrefixAgrees
  <2> HIDE DEF l, r, w, v
  <2>4. Smaller(k, Len(r)) \in Nat /\ Smaller(k, Len(r)) <= m
    BY <1>4 DEF Smaller
  <2>5. Agree(r, l, Smaller(k, Len(r))) /\ Agree(l, w, Smaller(k, Len(r)))
    <3>1. Agree(l, w, Smaller(k, Len(l)))
      BY DEF l, w
    <3>2. /\ Smaller(k, Len(r)) <= Smaller(k, Len(l)) /\ Smaller(k, Len(l)) \in Nat
          /\ Smaller(k, Len(r)) <= kept /\ kept \in Nat
      BY <1>4, <2>2, <2>3 DEF Smaller
    <3>3. QED
      BY <1>2, <1>4, <2>3, <2>4, <3>1, <3>2, AgreeLess
  <2>6. Agree(r, v, Smaller(k, Len(r)))
    BY <1>6, <2>4, <2>5, AgreeTrans
  <2>7. QED
    BY <1>9, <2>6 DEF r, v
<1>10. ASSUME NEW q \in InFlight, q.to = j, AcceptAppend(q.to, q)
       PROVE  /\ Agree(r, v, Smaller(k, Len(r)))
              /\ k <= Len(l) => k <= Len(r)
  <2> DEFINE n == q.prev + Len(q.entries)
             u == q.term
  <2>1. /\ u \in DOMAIN written /\ u >= currentTerm[j]
        /\ r = Merge(log[j], q.prev, q.entries)
        /\ n \in Nat /\ n <= Len(r) /\ Agree(r, written[u], n)
        /\ \A x \in Nat : Agree(l, written[u], x) => Agree(r, written[u], x)
        /\ Len(r) > n => r = l
    <3>1. TypeOK /\ LogInv /\ RequestInv
      BY CoreFacts
    <3>2. Rewrites(j, Merge(log[j], q.prev, q.entries), u)
      BY <1>10, <3>1, AcceptMerges
    <3>3. r = Merge(log[j], q.prev, q.entries)
      BY <3>1, <3>2 DEF Rewrites, TypeOK
    <3> HIDE DEF l, r, n, u
    <3>4. u \in DOMAIN written /\ u >= currentTerm[j] /\ n \in Nat
      BY <1>10, <3>1, AcceptMerges DEF n, u
    <3>5. n <= Len(r) /\ Agree(r, written[u], n)
      BY <1>10, <3>1, <3>3, AcceptMerges DEF n, u
    <3>6. \A x \in Nat : Agree(l, written[u], x) => Agree(r, written[u], x)
      BY <1>10, <3>1, <3>3, AcceptMerges DEF l, u
    <3>7. Len(r) > n => r = l
      BY <1>10, <3>1, <3>3, AcceptMerges DEF l, n
    <3>8. QED
      BY <3>3, <3>4, <3>5, <3>6, <3>7
  <2>2. written[u] \in Seq(Entry) /\ u \in Nat /\ u >= T
    BY <1>4, <2>1, CoreFacts DEF Logs
  <2>3. Agree(written[u], w, m)
    BY <1>2, <2>1, <2>2
  <2> HIDE DEF l, r, w, v, n, u
  <2>4. \A x \in Nat : x <= m => Agree(written[u], w, x)
    BY <1>2, <2>2, <2>3, AgreeLess
  <2>5. CASE k <= Len(l)
    <3>1. Agree(l, w, k)
      <4>1. Agree(l, w, Smaller(k, Len(l))) /\ Smaller(k, Len(l)) = k
        BY <1>4, <2>5 DEF l, w, Smaller
      <4>2. QED
        BY <4>1
    <3>2. Agree(l, written[u], k)
      BY <2>4, <3>1, AgreeSym, AgreeTrans
    <3>3. Agree(r, written[u], k)
      BY <2>1, <3>2
    <3>4. Agree(r, w, k)
      BY <2>4, <3>3, AgreeTrans
    <3>5. k <= Len(r)
      BY <3>4 DEF Agree
    <3>6. Smaller(k, Len(r)) = k
      BY <1>4, <3>5 DEF Smaller
    <3>7. QED
      BY <1>6, <3>4, <3>5, <3>6
  <2>6. CASE Len(r) > n
    BY <1>7, <2>1, <2>6 DEF l, r, v
  <2>7. CASE ~ (k <= Len(l)) /\ ~ (Len(r) > n)
    <3>1. Len(r) = n
      BY <1>4, <2>1, <2>7
    <3>2. Smaller(k, n) \in Nat /\ Smaller(k, n) <= m /\ Smaller(k, n) <= n
      BY <2>1 DEF Smaller
    <3>3. Agree(r, written[u], Smaller(k, n))
      BY <1>4, <2>1, <2>2, <3>2, AgreeLess
    <3>4. Agree(r, w, Smaller(k, n))
      BY <2>4, <3>2, <3>3, AgreeTrans
    <3>5. QED
      BY <1>6, <2>7, <3>1, <3>2, <3>4
  <2>8. QED
    BY <2>5, <2>6, <2>7
<1>11. LogStep(j)
  BY NextLogStep DEF Core
<1>12. QED
  BY <1>7, <1>8, <1>9, <1>10, <1>11 DEF LogStep

-----------------------------------------------------------------------------
\* What is covered stays covered.
LEMMA CoveredStays ==
    ASSUME Core, Core', [Next]_vars, NEW j \in Server, NEW k \in Nat,
           Covered(log[j], currentTerm[j], k)
    PROVE  /\ Covered(log[j], currentTerm[j], k)'
           /\ k <= Len(log[j]) => k <= Len(log'[j]) \/ Restart(j)
<1>1. CASE k = 0
  <2>1. TypeOK'
    BY DEF Core
  <2>2. log'[j] \in Seq(Entry)
    BY <2>1 DEF TypeOK
  <2>3. Len(log'[j]) \in Nat
    BY <2>2
  <2>4. QED
    BY <1>1, <2>3 DEF Covered
<1>2. ASSUME NEW T \in Nat, NEW m \in Nat, T <= currentTerm[j], k <= m,
             Fixed(T, m), Agree(log[j], written[T], Smaller(k, Len(log[j])))
      PROVE  /\ Covered(log[j], currentTerm[j], k)'
             /\ k <= Len(log[j]) => k <= Len(log'[j]) \/ Restart(j)
  <2>1. /\ Agree(log'[j], written'[T], Smaller(k, Len(log'[j])))
        /\ k <= Len(log[j]) => k <= Len(log'[j]) \/ Restart(j)
    BY <1>2, CoverAdvances
  <2>2. Fixed(T, m)'
    BY <1>2, FixedStays
  <2>3. T <= currentTerm'[j]
    <3>1. TypeOK /\ TypeOK'
      BY DEF Core
    <3>2. currentTerm[j] \in Nat /\ currentTerm'[j] \in Nat
      BY <3>1 DEF TypeOK
    <3>3. QED
      BY <1>2, <3>1, <3>2, TermsRise
  <2>4. QED
    BY <1>2, <2>1, <2>2, <2>3 DEF Covered
<1>3. QED
  BY <1>1, <1>2 DEF Covered

LEMMA ConfirmedStays ==
    ASSUME Core, Core', [Next]_vars, NEW t, NEW k, Confirmed(t, k)
    PROVE  Confirmed(t, k)'
BY FixedStays DEF Confirmed

\* Requests carry commit indexes that were covered when they were sent.
LEMMA NextRequestsCovered ==
    Core /\ Core' /\ CommitsCovered /\ RequestsCovered /\ [Next]_vars =>
        RequestsCovered'
<1> SUFFICES ASSUME Core, Core', CommitsCovered, RequestsCovered, [Next]_vars,
                    NEW q \in Carried'
             PROVE  Confirmed(q.term, q.commit)'
  BY DEF RequestsCovered
<1>1. CASE q \in Carried
  BY <1>1, ConfirmedStays DEF RequestsCovered
<1>2. CASE q \notin Carried
  <2>1. TypeOK /\ TypeOK'
    BY DEF Core
  <2>2. PICK i \in Server, j \in Server : q = rpc'[i][j].request /\ Posts(i, j)
    BY <1>2, <2>1, NextCarried
  <2>3. q.term = currentTerm[i] /\ q.commit = commitIndex[i]
    BY <2>2 DEF Posts, Sent, RequestTo
  <2>4. Confirmed(currentTerm[i], commitIndex[i])
    BY DEF CommitsCovered, Covered, Confirmed
  <2>5. QED
    BY <2>3, <2>4, ConfirmedStays
<1>3. QED
  BY <1>1, <1>2

\* What happens to the commit index of one server.
LEMMA CommitOf ==
    ASSUME TypeOK, TypeOK', [Next]_vars, NEW i \in Server
    PROVE  \/ /\ commitIndex'[i] = commitIndex[i] /\ ~ Restart(i)
              /\ storedCommit'[i] \in {storedCommit[i], commitIndex[i]}
           \/ Restart(i)
           \/ \E q \in InFlight : q.to = i /\ AcceptAppend(q.to, q)
           \/ \E last \in Nat : Commits(i, last)
<1>1. CASE CommitsStand
  BY <1>1 DEF CommitsStand
<1>2. ASSUME NEW j \in Server, j # i, Restart(j)
      PROVE  commitIndex'[i] = commitIndex[i] /\ storedCommit'[i] = storedCommit[i]
  BY <1>2, SMTT(30) DEF Restart, metaVars, TypeOK
<1>3. ASSUME NEW q \in InFlight, q.to # i, AcceptAppend(q.to, q)
      PROVE  commitIndex'[i] = commitIndex[i] /\ storedCommit'[i] = storedCommit[i]
  BY <1>3 DEF AcceptAppend, TypeOK
<1>4. ASSUME NEW j \in Server, NEW last \in Nat, j # i, Commits(j, last)
      PROVE  commitIndex'[i] = commitIndex[i] /\ storedCommit'[i] = storedCommit[i]
  BY <1>4 DEF Commits, TypeOK
<1>5. QED
  BY <1>1, <1>2, <1>3, <1>4, CommitKinds

LEMMA CoveredUpTo ==
    ASSUME NEW l \in Seq(Entry), NEW t, NEW k \in Nat, Covered(l, t, k),
           NEW n \in Nat, n <= k, n <= Len(l)
    PROVE  Covered(l, t, n)
<1>1. CASE k = 0
  BY <1>1 DEF Covered
<1>2. ASSUME NEW T \in Nat, NEW m \in Nat, T <= t, k <= m, Fixed(T, m),
             Agree(l, written[T], Smaller(k, Len(l)))
      PROVE  Covered(l, t, n)
  <2>1. /\ Smaller(n, Len(l)) = n /\ n <= m
        /\ n <= Smaller(k, Len(l)) /\ Smaller(k, Len(l)) \in Nat
    BY <1>2 DEF Smaller
  <2>2. Agree(l, written[T], n)
    BY <1>2, <2>1 DEF Agree
  <2>3. QED
    BY <1>2, <2>1, <2>2 DEF Covered
<1>3. QED
  BY <1>1, <1>2 DEF Covered

CoveredBelow ==
    \A j \in Server, k, n \in Nat :
        /\ log[j] \in Seq(Entry) /\ n <= k /\ n <= Len(log[j])
        /\ Covered(log[j], currentTerm[j], k)
        => Covered(log[j], currentTerm[j], n)

LEMMA AllCoveredBelow == CoveredBelow
BY CoveredUpTo DEF CoveredBelow

-----------------------------------------------------------------------------
\* A follower commits what its leader has committed and it has verified.
LEMMA AcceptCovered ==
    ASSUME Core, Core', [Next]_vars, CommitsCovered, RequestsCovered,
           NEW i \in Server, NEW q \in InFlight, q.to = i, AcceptAppend(q.to, q)
    PROVE  /\ commitIndex'[i] \in Nat /\ commitIndex'[i] <= Len(log'[i])
           /\ Covered(log[i], currentTerm[i], commitIndex[i])'
           /\ storedCommit'[i] \in {storedCommit[i], commitIndex[i], commitIndex'[i]}
<1> DEFINE n == q.prev + Len(q.entries)
           u == q.term
           r == log'[i]
<1>1. TypeOK /\ TypeOK' /\ LogInv /\ RequestInv
  BY CoreFacts DEF Core
<1>2. /\ u \in DOMAIN written /\ r \in Seq(Entry) /\ currentTerm'[i] = u
      /\ n \in Nat /\ n <= Len(r) /\ Agree(r, written[u], n)
  <2>1. Rewrites(i, Merge(log[i], q.prev, q.entries), u)
    BY <1>1, AcceptMerges
  <2>2. r = Merge(log[i], q.prev, q.entries) /\ currentTerm'[i] = u
    BY <1>1, <2>1 DEF Rewrites, TypeOK
  <2> HIDE DEF r, n, u
  <2>3. u \in DOMAIN written /\ n \in Nat
    BY <1>1, AcceptMerges DEF n, u
  <2>4. n <= Len(r) /\ Agree(r, written[u], n) /\ r \in Seq(Entry)
    BY <1>1, <2>2, AcceptMerges DEF n, u
  <2>5. QED
    BY <2>2, <2>3, <2>4
<1>3. /\ commitIndex'[i] = Larger(commitIndex[i], Smaller(q.commit, n))
      /\ storedCommit'[i] \in {storedCommit[i], commitIndex[i], commitIndex'[i]}
      /\ UNCHANGED written
  <2>1. /\ commitIndex' = [commitIndex EXCEPT ![i] = CommitAfter(i, q)]
        /\ storedCommit' = [storedCommit EXCEPT ![i] =
              IF ~GroupCommit /\ CommitAfter(i, q) > commitIndex[i]
              THEN CommitAfter(i, q) ELSE StoredIn(i, q.term)]
        /\ UNCHANGED written
    BY DEF AcceptAppend, history
  <2>2. QED
    BY <1>1, <2>1 DEF CommitAfter, StoredIn, TypeOK
<1>4. q \in Carried /\ q \in Request /\ q.commit \in Nat
  BY <1>1, InFlightCarried, CarriedType DEF Request
<1>5. commitIndex[i] \in Nat /\ commitIndex'[i] \in Nat /\ Len(r) \in Nat
  BY <1>1, <1>2 DEF TypeOK
<1>6. ~ Restart(i)
  BY <1>1, <1>3 DEF AcceptAppend, Restart, faults, TypeOK
<1>7. CASE commitIndex'[i] = commitIndex[i]
  <2>1. /\ Covered(log[i], currentTerm[i], commitIndex[i])
        /\ commitIndex[i] <= Len(log[i])
    BY DEF CommitsCovered
  <2> PICK c \in Nat : c = commitIndex[i]
    BY <1>5
  <2>2. Covered(log[i], currentTerm[i], c)' /\ c <= Len(log'[i])
    BY <1>6, <2>1, CoveredStays
  <2>3. QED
    BY <1>3, <1>5, <1>7, <2>2
<1>8. CASE commitIndex'[i] # commitIndex[i]
  <2> PICK c \in Nat : c = commitIndex'[i]
    BY <1>5
  <2>1. c = Smaller(q.commit, n) /\ c <= q.commit /\ c <= n /\ c <= Len(r)
    BY <1>2, <1>3, <1>4, <1>5, <1>8 DEF Larger, Smaller
  <2>2. Confirmed(u, q.commit)
    BY <1>4 DEF RequestsCovered
  <2>3. CASE q.commit = 0
    BY <1>3, <1>4, <1>5, <1>8, <2>1, <2>3 DEF Larger
  <2>4. ASSUME NEW T \in Nat, NEW m \in Nat, T <= u, q.commit <= m, Fixed(T, m)
        PROVE  Covered(log[i], currentTerm[i], c)'
    <3>1. Agree(written[u], written[T], m)
      BY <1>2, <2>4, FixedFacts
    <3>2. Fixed(T, m)' /\ written'[T] = written[T]
      BY <1>3, <2>4, FixedStays
    <3>3. c <= m /\ Smaller(c, Len(r)) = c
      BY <1>4, <1>5, <2>1, <2>4 DEF Smaller
    <3>4. Agree(r, written[T], c)
      <4>1. c <= n /\ c <= m
        BY <2>1, <3>3
      <4> HIDE DEF n, r, u
      <4>2. Agree(r, written[u], c)
        BY <1>2, <4>1 DEF Agree
      <4>3. Agree(written[u], written[T], c)
        BY <3>1, <4>1 DEF Agree
      <4>4. QED
        BY <4>2, <4>3, AgreeTrans
    <3>5. QED
      BY <1>2, <2>4, <3>2, <3>3, <3>4 DEF Covered
  <2>5. Covered(log[i], currentTerm[i], c)'
    BY <2>2, <2>3, <2>4 DEF Confirmed
  <2>6. QED
    BY <1>3, <1>5, <2>1, <2>5
<1>9. QED
  BY <1>7, <1>8

LEMMA NextCommitsCovered ==
    Core /\ Core' /\ LeaderSafe' /\ CommitsCovered /\ RequestsCovered
         /\ [Next]_vars => CommitsCovered'
<1> SUFFICES ASSUME Core, Core', LeaderSafe', CommitsCovered, RequestsCovered,
                    [Next]_vars, NEW i \in Server,
                    NEW c, NEW s, c = commitIndex'[i], s = storedCommit'[i]
             PROVE  /\ c <= Len(log'[i])
                    /\ Covered(log[i], currentTerm[i], c)'
                    /\ Covered(log[i], currentTerm[i], s)'
  BY DEF CommitsCovered
<1>1. TypeOK /\ TypeOK'
  BY DEF Core
<1> PICK a \in Nat, b \in Nat : a = commitIndex[i] /\ b = storedCommit[i]
  BY <1>1 DEF TypeOK
<1>2. /\ a <= Len(log[i]) /\ Covered(log[i], currentTerm[i], a)
      /\ Covered(log[i], currentTerm[i], b)
  BY DEF CommitsCovered
<1>3. /\ Covered(log[i], currentTerm[i], a)' /\ Covered(log[i], currentTerm[i], b)'
      /\ a <= Len(log'[i]) \/ Restart(i)
  BY <1>2, CoveredStays
<1>4. CASE c = a /\ s \in {a, b} /\ ~ Restart(i)
  BY <1>3, <1>4
<1>5. CASE Restart(i)
  <2>1. PICK kept \in durable[i]..Len(log[i]) :
          /\ log' = [log EXCEPT ![i] = SubSeq(log[i], 1, kept)]
          /\ commitIndex' = [commitIndex EXCEPT ![i] = Smaller(storedCommit[i], kept)]
    BY <1>5 DEF Restart
  <2>2. kept \in 0..Len(log[i]) /\ log'[i] = SubSeq(log[i], 1, kept)
    BY <1>1, <2>1 DEF TypeOK
  <2>3. Len(log'[i]) = kept /\ log'[i] \in Seq(Entry)
    BY <1>1, <2>2, PrefixAgrees DEF TypeOK
  <2>4. c = Smaller(b, kept) /\ s = b
    BY <1>1, <1>5, <2>1 DEF Restart, metaVars, TypeOK
  <2>5. c \in Nat /\ c <= b /\ c <= kept
    BY <2>2, <2>4 DEF Smaller
  <2>6. Covered(log[i], currentTerm[i], c)'
    <3>1. CoveredBelow'
      BY AllCoveredBelow, PTL
    <3>2. QED
      BY <1>3, <2>3, <2>5, <3>1 DEF CoveredBelow
  <2>7. QED
    BY <1>3, <2>3, <2>4, <2>5, <2>6
<1>6. ASSUME NEW q \in InFlight, q.to = i, AcceptAppend(q.to, q)
      PROVE  /\ c <= Len(log'[i])
             /\ Covered(log[i], currentTerm[i], c)'
             /\ Covered(log[i], currentTerm[i], s)'
  <2>1. c <= Len(log'[i]) /\ s \in {a, b, c}
    BY <1>6, AcceptCovered
  <2>2. Covered(log[i], currentTerm[i], c)'
    BY <1>6, AcceptCovered
  <2>3. QED
    BY <1>3, <2>1, <2>2
<1>7. ASSUME NEW last \in Nat, Commits(i, last)
      PROVE  /\ c <= Len(log'[i])
             /\ Covered(log[i], currentTerm[i], c)'
             /\ Covered(log[i], currentTerm[i], s)'
  <2> PICK t \in Nat : t = currentTerm[i]
    BY <1>1 DEF TypeOK
  <2>1. /\ Fixed(t, last)' /\ last <= Len(log[i])
        /\ t \in DOMAIN written /\ log[i] = written[t]
    <3>1. currentTerm'[i] = t
      BY <1>7 DEF Commits
    <3>2. Fixed(currentTerm[i], last)'
      BY <1>7, CommitsFixed
    <3>3. /\ last <= Len(log[i])
          /\ t \in DOMAIN written /\ log[i] = written[t]
      BY <1>7, CommitsFixed
    <3>4. QED
      BY <3>1, <3>2, <3>3
  <2>2. /\ c = last /\ s \in {b, last}
        /\ log' = log /\ written' = written /\ currentTerm' = currentTerm
    BY <1>1, <1>7 DEF Commits, TypeOK
  <2>3. Agree(log'[i], written'[t], last) /\ Smaller(last, Len(log'[i])) = last
    <3>1. log[i] \in Seq(Entry)
      BY <1>1 DEF TypeOK
    <3>2. QED
      BY <2>1, <2>2, <3>1, AgreeSelf DEF Smaller
  <2>4. Covered(log[i], currentTerm[i], last)'
    BY <2>1, <2>2, <2>3 DEF Covered
  <2>5. QED
    BY <1>3, <2>1, <2>2, <2>4
<1>8. QED
  BY <1>1, <1>4, <1>5, <1>6, <1>7, CommitOf

-----------------------------------------------------------------------------
\* Decisions are made by commits alone.
LEMMA NextDecided ==
    ASSUME TypeOK, TypeOK', [Next]_vars
    PROVE  UNCHANGED decided \/ \E i \in Server, last \in Nat : Commits(i, last)
<1>1. CASE CommitsStand
  BY <1>1 DEF CommitsStand
<1>2. CASE \E i \in Server : Restart(i)
  BY <1>2 DEF Restart, history
<1>3. CASE \E q \in InFlight : AcceptAppend(q.to, q)
  BY <1>3 DEF AcceptAppend, history
<1>4. QED
  BY <1>1, <1>2, <1>3, CommitKinds

\* A decision is fixed, and made in the log of its term.
IsFixed(d) ==
    /\ d.index > 0 /\ \E m \in Nat : d.index <= m /\ Fixed(d.term, m)
    /\ written[d.term][d.index] = d.entry

LEMMA DecisionFields ==
    ASSUME TypeOK, NEW i \in Server, NEW last \in Nat, Commits(i, last),
           NEW d \in decided' \ decided
    PROVE  /\ d.index \in Nat /\ d.index > 0 /\ d.index <= last
           /\ d.entry = log[i][d.index] /\ d.term = currentTerm[i]
<1>1. PICK k \in (commitIndex[i] + 1)..last : d = Decision(i, k)
  BY DEF Commits
<1>2. commitIndex[i] \in Nat
  BY DEF TypeOK
<1>3. d.index = k /\ d.entry = log[i][k] /\ d.term = currentTerm[i]
  BY <1>1 DEF Decision
<1>4. QED
  BY <1>2, <1>3

LEMMA NextDecidedFixed ==
    Core /\ Core' /\ LeaderSafe' /\ DecidedFixed /\ [Next]_vars => DecidedFixed'
<1> SUFFICES ASSUME Core, Core', LeaderSafe', DecidedFixed, [Next]_vars,
                    NEW d \in decided'
             PROVE  IsFixed(d)'
  BY DEF DecidedFixed, IsFixed
<1>1. TypeOK /\ TypeOK'
  BY DEF Core
<1>2. CASE d \in decided
  <2>1. PICK m \in Nat : d.index <= m /\ Fixed(d.term, m)
    BY <1>2 DEF DecidedFixed
  <2>2. d.index > 0 /\ written[d.term][d.index] = d.entry /\ d.index \in Nat
    BY <1>1, <1>2 DEF DecidedFixed, TypeOK
  <2>3. Fixed(d.term, m)' /\ Agree(written'[d.term], written[d.term], m)
    BY <2>1, FixedStays, OwnStays DEF Fixed
  <2>4. written'[d.term][d.index] = d.entry
    BY <2>1, <2>2, <2>3 DEF Agree
  <2>5. QED
    BY <2>1, <2>2, <2>3, <2>4 DEF IsFixed
<1>3. CASE d \notin decided
  <2>1. PICK i \in Server, last \in Nat : Commits(i, last)
    BY <1>1, <1>3, NextDecided
  <2>2. /\ d.index \in Nat /\ d.index > 0 /\ d.index <= last
        /\ d.entry = log[i][d.index] /\ d.term = currentTerm[i]
    BY <1>1, <1>3, <2>1, DecisionFields
  <2>3. currentTerm'[i] = currentTerm[i] /\ written' = written
    BY <2>1 DEF Commits
  <2>4. Fixed(currentTerm[i], last)'
    BY <2>1, CommitsFixed
  <2>5. log[i] = written[currentTerm[i]]
    BY <2>1, CommitsFixed
  <2>6. Fixed(d.term, last)'
    BY <2>2, <2>3, <2>4
  <2>7. written'[d.term][d.index] = d.entry
    BY <2>2, <2>3, <2>5
  <2>8. QED
    BY <2>2, <2>6, <2>7 DEF IsFixed
<1>4. QED
  BY <1>2, <1>3

-----------------------------------------------------------------------------
\* A leader in the state after a step was one, or has just been elected.
LEMMA NextOwnDecided ==
    Core /\ Core' /\ DecidedFixed /\ OwnDecided /\ [Next]_vars => OwnDecided'
<1> SUFFICES ASSUME Core, Core', DecidedFixed, OwnDecided, [Next]_vars,
                    NEW i \in Server, state'[i] = Leader,
                    NEW d \in decided', d.term = currentTerm'[i]
             PROVE  d.index <= commitIndex'[i]
  BY DEF OwnDecided
<1>1. TypeOK /\ TypeOK' /\ LogInv /\ ElectionInv /\ ElectionInv'
  <2>1. Core' => TypeOK' /\ ElectionInv'
    BY DEF Core, SafeLogs
  <2>2. QED
    BY <2>1, CoreFacts
<1>2. /\ d.index \in Nat /\ d.term \in Nat
      /\ commitIndex[i] \in Nat /\ commitIndex'[i] \in Nat
  <2>1. decided' \subseteq [index : Nat, entry : Entry, term : Nat]
    BY <1>1 DEF TypeOK
  <2>2. commitIndex \in [Server -> Nat] /\ commitIndex' \in [Server -> Nat]
    BY <1>1 DEF TypeOK
  <2>3. QED
    BY <2>1, <2>2
<1>3. state'[i] # Follower
  BY DEF Leader, Follower
<1>4. ElectionSafety'
  <2>1. TypeOK' /\ ElectionInv' => ElectionSafety'
    BY ElectionInvSafe, PTL
  <2>2. QED
    BY <1>1, <2>1
\* A server that is just elected: nothing was decided in its term.
<1>5. CASE ~ (state[i] = Leader /\ currentTerm'[i] = currentTerm[i])
  <2>1. Lead(i) /\ \E g \in grants : CountVote(i, g)
    BY <1>1, <1>5, NextLeads
  <2>2. /\ state[i] = Candidate /\ currentTerm' = currentTerm
        /\ leaders' = leaders \cup {<<currentTerm[i], i>>} /\ decided' = decided
    BY <2>1 DEF Lead, CountVote, metaVars
  <2>3. PICK m \in Nat : Fixed(d.term, m)
    BY <2>2 DEF DecidedFixed
  <2>4. PICK j \in Server : <<d.term, j>> \in leaders
    BY <1>1, <2>3 DEF Fixed, Own, LogInv, TermsLed
  <2>5. <<d.term, j>> \in leaders' /\ <<d.term, i>> \in leaders'
    BY <2>2, <2>4
  <2>6. j = i
    <3>1. <<d.term, j>>[2] = <<d.term, i>>[2]
      BY <1>4, <2>5 DEF ElectionSafety
    <3>2. QED
      BY <3>1
  <2>7. QED
    BY <1>1, <1>2, <2>2, <2>4, <2>6 DEF LogInv, LeadersMoveOn
<1>6. CASE state[i] = Leader /\ currentTerm'[i] = currentTerm[i]
  <2>1. d \in decided => d.index <= commitIndex[i]
    BY <1>6 DEF OwnDecided
  <2>2. commitIndex'[i] >= commitIndex[i]
    <3>1. ~ Restart(i)
      BY <1>1, <1>3 DEF Restart, TypeOK
    <3>2. ASSUME NEW q \in InFlight, q.to = i, AcceptAppend(q.to, q)
          PROVE  FALSE
      BY <1>1, <1>3, <3>2 DEF AcceptAppend, BecomeFollower, TypeOK
    <3>3. ASSUME NEW last \in Nat, Commits(i, last)
          PROVE  commitIndex'[i] >= commitIndex[i]
      <4>1. commitIndex'[i] = last
        BY <1>1, <3>3 DEF Commits, TypeOK
      <4>2. last > commitIndex[i]
        BY <1>1, <1>2, <3>3 DEF Commits, Committable, TypeOK
      <4>3. QED
        BY <1>2, <4>1, <4>2
    <3>4. QED
      BY <1>1, <1>2, <3>1, <3>2, <3>3, CommitOf
  <2>3. CASE d \in decided
    BY <1>2, <2>1, <2>2, <2>3
  <2>4. CASE d \notin decided
    <3>1. PICK j \in Server, last \in Nat : Commits(j, last)
      BY <1>1, <2>4, NextDecided
    <3>2. d.index <= last /\ d.term = currentTerm[j]
      BY <1>1, <2>4, <3>1, DecisionFields
    <3>3. j = i
      <4>1. <<d.term, i>> \in leaders /\ <<d.term, j>> \in leaders
        BY <1>1, <1>6, <3>1, <3>2 DEF Commits, LogInv, LeadersWrite
      <4>2. ElectionSafety
        BY <1>1, ElectionInvSafe
      <4>3. <<d.term, j>>[2] = <<d.term, i>>[2]
        BY <4>1, <4>2 DEF ElectionSafety
      <4>4. QED
        BY <4>3
    <3>4. commitIndex'[i] = last
      BY <1>1, <3>1, <3>3 DEF Commits, TypeOK
    <3>5. QED
      BY <3>2, <3>4
  <2>5. QED
    BY <2>3, <2>4
<1>7. QED
  BY <1>5, <1>6

-----------------------------------------------------------------------------
\* The inductive invariant of the consensus engine.
CommitInv ==
    /\ RepliesReal /\ LeaderSafe
    /\ DecidedFixed /\ CommitsCovered /\ RequestsCovered /\ OwnDecided

LEMMA InitCommitInv == Init => CommitInv
<1> SUFFICES ASSUME Init
             PROVE  CommitInv
  OBVIOUS
<1>1. RepliesReal /\ LeaderSafe
  BY InitLeaderSafe
<1>2. DecidedFixed /\ OwnDecided
  BY DEF Init, DecidedFixed, OwnDecided
<1>3. CommitsCovered
  BY DEF Init, CommitsCovered, Covered
<1>4. Carried = {}
  BY DEF Init, Carried
<1>5. QED
  BY <1>1, <1>2, <1>3, <1>4 DEF CommitInv, RequestsCovered

LEMMA NextCommitInv ==
    Core /\ Core' /\ CommitInv /\ [Next]_vars => CommitInv'
<1> SUFFICES ASSUME Core, Core', CommitInv, [Next]_vars
             PROVE  CommitInv'
  OBVIOUS
<1>1. RepliesReal' /\ LeaderSafe'
  BY NextRepliesReal, NextLeaderSafe DEF CommitInv
<1>2. DecidedFixed' /\ OwnDecided'
  BY <1>1, NextDecidedFixed, NextOwnDecided DEF CommitInv
<1>3. CommitsCovered' /\ RequestsCovered'
  BY <1>1, NextCommitsCovered, NextRequestsCovered DEF CommitInv
<1>4. QED
  BY <1>1, <1>2, <1>3 DEF CommitInv

LEMMA CoreSafe == Spec => []Core
<1>1. TypeOK /\ TypeOK' /\ SafeLogs /\ BallotInv /\ [Next]_vars => BallotInv'
  BY NextBallotInv DEF SafeLogs
<1>2. QED
  BY <1>1, TypeCorrect, LogsSafe, InitBallotInv, PTL DEF Spec, Core

LEMMA CommitSafe == Spec => []CommitInv
BY CoreSafe, InitCommitInv, NextCommitInv, PTL DEF Spec

-----------------------------------------------------------------------------
\* The log of a leader of the decision's term or a later one has it.
LEMMA LaterLogsDecided ==
    ASSUME Core, DecidedFixed, NEW d \in decided, NEW t \in DOMAIN written,
           t >= d.term
    PROVE  d.index <= Len(written[t]) /\ written[t][d.index] = d.entry
<1>1. PICK m \in Nat : d.index <= m /\ Fixed(d.term, m)
  BY DEF DecidedFixed
<1>2. Agree(written[t], written[d.term], m)
  BY <1>1, FixedFacts
<1>3. d.index \in Nat /\ d.index > 0 /\ written[d.term][d.index] = d.entry
  BY DEF Core, TypeOK, DecidedFixed
<1>4. written[t] \in Seq(Entry)
  BY CoreFacts DEF Logs
<1>5. QED
  BY <1>1, <1>2, <1>3, <1>4 DEF Agree

\* Every leader of a term from the committing one onwards has the committed
\* entries: no election, however votes and logs came about, loses one.
THEOREM LeadersComplete == Spec => []LeaderCompleteness
<1>1. Core /\ DecidedFixed => LeaderCompleteness
  <2> SUFFICES ASSUME Core, DecidedFixed, NEW d \in decided, NEW i \in Server,
                      state[i] = Leader, currentTerm[i] >= d.term
               PROVE  Has(i, d)
    BY DEF LeaderCompleteness
  <2>1. <<currentTerm[i], i>> \in leaders /\ TermsLed /\ log[i] = written[currentTerm[i]]
    BY CoreFacts DEF LogInv, LeadersWrite
  <2>2. <<currentTerm[i], i>>[1] \in DOMAIN written
    BY <2>1 DEF TermsLed
  <2>3. QED
    BY <2>1, <2>2, LaterLogsDecided DEF Has
<1>2. QED
  BY <1>1, CoreSafe, CommitSafe, PTL DEF CommitInv

\* A log that a majority would vote for has every committed entry.
THEOREM ElectableCommitted == Spec => []ElectableHasCommitted
<1>1. Core /\ DecidedFixed => ElectableHasCommitted
  <2> SUFFICES ASSUME Core, DecidedFixed, NEW i \in Server,
                      {j \in Server : UpToDate(LastTerm(log[i]), Len(log[i]), log[j])}
                         \in Quorum,
                      NEW d \in decided
               PROVE  Has(i, d)
    BY DEF ElectableHasCommitted
  <2>1. PICK m \in Nat : d.index <= m /\ Fixed(d.term, m)
    BY DEF DecidedFixed
  <2> PICK T \in DOMAIN written : T = d.term
    BY <2>1 DEF Fixed, Own
  <2>2. PICK Q \in Quorum :
           \A j \in Q : m <= durable[j] /\ Agree(log[j], written[T], m)
    BY <2>1, FixedFacts
  <2>3. PICK j \in Q : UpToDate(LastTerm(log[i]), Len(log[i]), log[j])
    BY QuorumsMeet
  <2>4. /\ j \in Server /\ Logs(Entry, written) /\ T \in Nat /\ T > 0
        /\ \A t \in DOMAIN written : Sourced(written, written[t], t)
        /\ \A k \in Server : /\ log[k] \in Seq(Entry)
                             /\ Sourced(written, log[k], currentTerm[k])
    BY <2>1, OwnType, CoreFacts DEF Quorum, Fixed
  <2>5. m \in 1..Len(written[T]) /\ written[T][m].term = T
    BY <2>1 DEF Fixed, Own
  <2>6. Len(log[j]) >= m /\ LastTerm(log[j]) >= T /\ LastTerm(log[j]) \in Nat
    BY <2>2, <2>4, <2>5, EntryIsGood
  <2>7. LastTerm(log[i]) > T \/ (LastTerm(log[i]) = T /\ Len(log[i]) >= m)
    <3>1. LastTerm(log[i]) \in Nat /\ Len(log[i]) \in Nat /\ Len(log[j]) \in Nat
      BY <2>4, EntryTerms, TermAtType DEF LastTerm
    <3>2. QED
      BY <2>3, <2>4, <2>6, <3>1 DEF UpToDate
  <2>8. \A t \in DOMAIN written : t > T => Agree(written[t], written[T], m)
    BY <2>1, <2>4, FixedFacts DEF Logs
  <2> PICK l \in Seq(Entry), u \in Nat : l = log[i] /\ u = currentTerm[i]
    BY <2>4, CoreFacts
  <2>9. Agree(l, written[T], m)
    BY <2>4, <2>5, <2>7, <2>8, GoodHasEntry
  <2>10. d.index \in Nat /\ d.index > 0 /\ written[T][d.index] = d.entry
    BY DEF Core, TypeOK, DecidedFixed
  <2>11. QED
    BY <2>1, <2>9, <2>10 DEF Has, Agree
<1>2. QED
  BY <1>1, CoreSafe, CommitSafe, PTL DEF CommitInv

\* Whatever is still buffered, a committed entry is on a majority of disks.
THEOREM CommittedStored == Spec => []CommittedOnDisk
<1>1. Core /\ DecidedFixed => CommittedOnDisk
  <2> SUFFICES ASSUME Core, DecidedFixed, NEW d \in decided
               PROVE  {i \in Server : d.index <= durable[i] /\ log[i][d.index] = d.entry}
                         \in Quorum
    BY DEF CommittedOnDisk
  <2>1. PICK m \in Nat : d.index <= m /\ Fixed(d.term, m)
    BY DEF DecidedFixed
  <2>2. PICK Q \in Quorum :
           \A j \in Q : m <= durable[j] /\ Agree(log[j], written[d.term], m)
    BY <2>1, FixedFacts
  <2>3. d.index \in Nat /\ d.index > 0 /\ written[d.term][d.index] = d.entry
    BY DEF Core, TypeOK, DecidedFixed
  <2>4. \A j \in Q : j \in Server /\ durable[j] \in Nat
    BY CoreFacts DEF Quorum
  <2>5. \A j \in Q : d.index <= durable[j] /\ log[j][d.index] = d.entry
    BY <2>1, <2>2, <2>3, <2>4 DEF Agree
  <2>6. QED
    BY <2>4, <2>5, QuorumGrows
<1>2. QED
  BY <1>1, CoreSafe, CommitSafe, PTL DEF CommitInv

\* A leader counts nothing that the follower may lose while it stays in the
\* leader's term: not what is held back, and not what was truncated since.
THEOREM AcknowledgedStored == Spec => []AcknowledgedOnDisk
<1>1. Core /\ RepliesReal => AcknowledgedOnDisk
  <2> SUFFICES ASSUME Core, RepliesReal, NEW i \in Server, NEW j \in Server, i # j,
                      state[i] = Leader, currentTerm[j] = currentTerm[i]
               PROVE  /\ matchIndex[i][j] <= durable[j]
                      /\ \A k \in 1..matchIndex[i][j] : log[j][k] = log[i][k]
    BY DEF AcknowledgedOnDisk
  <2>1. matchIndex[i][j] \in Nat /\ durable[j] \in Nat
    BY DEF Core, TypeOK
  <2>2. CASE matchIndex[i][j] = 0
    BY <2>1, <2>2
  <2>3. CASE matchIndex[i][j] # 0
    <3> PICK m \in Nat \ {0} : m = matchIndex[i][j]
      BY <2>1, <2>3
    <3>1. Acknowledges(i, j, m)
      BY DEF Acknowledges
    <3>2. Reached(j, currentTerm[i], m) /\ Stored(j, currentTerm[i], m)
      BY <3>1 DEF RepliesReal
    <3>3. Agree(log[j], written[currentTerm[i]], m) /\ m <= durable[j]
      BY <3>2, CoreFacts DEF Reached, Stored
    <3>4. log[i] = written[currentTerm[i]]
      BY CoreFacts DEF LogInv, LeadersWrite
    <3>5. QED
      BY <3>3, <3>4 DEF Agree
  <2>4. QED
    BY <2>2, <2>3
<1>2. QED
  BY <1>1, CoreSafe, CommitSafe, PTL DEF CommitInv

\* A linearizable read misses no commit: not one of an earlier term, which is
\* below the no-op the reader has committed, and not one of a later term,
\* whose leader a majority would have left the reader's term for.
THEOREM ReadsCurrent == Spec => []ReadIndexCurrent
<1>1. Core /\ DecidedFixed /\ OwnDecided => ReadIndexCurrent
  <2> SUFFICES ASSUME Core, DecidedFixed, OwnDecided, NEW i \in Server, CanRead(i),
                      Confirming(i) \in Quorum, NEW d \in decided
               PROVE  d.index <= commitIndex[i]
    BY DEF ReadIndexCurrent
  <2> DEFINE t == currentTerm[i]
  <2>1. PICK k \in 1..commitIndex[i] : log[i][k].term = t
    BY DEF CanRead
  <2>2. state[i] = Leader
    BY DEF CanRead
  <2>3. PICK m \in Nat : d.index <= m /\ Fixed(d.term, m)
    BY DEF DecidedFixed
  <2>4. /\ d.index \in Nat /\ d.index > 0 /\ d.term \in Nat /\ t \in Nat
        /\ commitIndex[i] \in Nat /\ log[i] \in Seq(Entry)
    BY DEF Core, TypeOK, DecidedFixed
  <2>5. <<t, i>> \in leaders /\ log[i] = written[t] /\ t \in DOMAIN written
    <3>1. <<t, i>> \in leaders /\ TermsLed /\ log[i] = written[t]
      BY <2>2, CoreFacts DEF LogInv, LeadersWrite
    <3>2. <<t, i>>[1] \in DOMAIN written
      BY <3>1 DEF TermsLed
    <3>3. QED
      BY <3>1, <3>2
  <2>6. CASE d.term = t
    BY <2>2, <2>6 DEF OwnDecided
  <2>7. CASE d.term < t
    <3>1. Agree(log[i], written[d.term], m)
      BY <2>3, <2>4, <2>5, <2>7, FixedFacts
    <3>2. d.term \in DOMAIN written
      BY <2>3 DEF Fixed, Own
    <3>3. Sourced(written, written[d.term], d.term)
      BY <3>2, CoreFacts
    <3>4. ASSUME k <= m
          PROVE  FALSE
      <4>1. log[i][k] = written[d.term][k] /\ k \in 1..Len(written[d.term])
        <5>1. written[d.term] \in Seq(Entry)
          BY <3>2, CoreFacts DEF Logs
        <5>2. QED
          BY <2>4, <3>1, <3>4, <5>1 DEF Agree
      <4>2. written[d.term][k].term <= d.term
        BY <3>3, <4>1 DEF Sourced
      <4>3. QED
        BY <2>1, <2>4, <2>7, <4>1, <4>2
    <3>5. QED
      BY <2>1, <2>3, <2>4, <3>4
  <2>8. CASE d.term > t
    <3>1. PICK j \in Server : <<d.term, j>> \in leaders
      BY <2>3, CoreFacts DEF Fixed, Own, LogInv, TermsLed
    <3>2. Confirming(i) = Behind(t) \cup {}
      BY DEF Confirming, Behind
    <3>3. \E v \in {} : Supports(v, j, d.term) /\ currentTerm[v] >= d.term
      <4>1. {} \in SUBSET Server /\ Behind(t) \cup {} \in Quorum
        BY <3>2
      <4>2. QED
        BY <2>4, <2>8, <3>1, <4>1, LaterLeaderElected
    <3>4. QED
      BY <3>3
  <2>9. QED
    BY <2>4, <2>6, <2>7, <2>8
<1>2. QED
  BY <1>1, CoreSafe, CommitSafe, PTL DEF CommitInv

LEMMA CommittedKept ==
    ASSUME Core, Core', CommitsCovered, [Next]_vars, NEW i \in Server,
           NEW k \in 1..commitIndex[i]
    PROVE  IF k <= Len(log'[i]) THEN log'[i][k] = log[i][k]
           ELSE restarts' > restarts
<1> PICK c \in Nat : c = commitIndex[i]
  BY DEF Core, TypeOK
<1>1. c <= Len(log[i]) /\ c # 0 /\ Covered(log[i], currentTerm[i], c)
  BY DEF CommitsCovered
<1>2. PICK T \in Nat, m \in Nat :
         /\ T <= currentTerm[i] /\ c <= m /\ Fixed(T, m)
         /\ Agree(log[i], written[T], Smaller(c, Len(log[i])))
  BY <1>1 DEF Covered
<1>3. /\ Agree(log'[i], written'[T], Smaller(c, Len(log'[i])))
      /\ c <= Len(log'[i]) \/ Restart(i)
  BY <1>1, <1>2, CoverAdvances
<1>4. Agree(written'[T], written[T], m)
  BY <1>2, OwnStays DEF Fixed
<1>5. log[i] \in Seq(Entry) /\ log'[i] \in Seq(Entry) /\ restarts \in Nat
  <2>1. TypeOK /\ TypeOK'
    BY DEF Core
  <2>2. log \in [Server -> Seq(Entry)] /\ log' \in [Server -> Seq(Entry)]
    BY <2>1 DEF TypeOK
  <2>3. QED
    BY <2>1, <2>2 DEF TypeOK
<1>6. CASE k <= Len(log'[i])
  <2>1. k \in 1..Smaller(c, Len(log'[i])) /\ k \in 1..Smaller(c, Len(log[i])) /\ k \in 1..m
    BY <1>1, <1>2, <1>5, <1>6 DEF Smaller
  <2>2. /\ log'[i][k] = written'[T][k] /\ log[i][k] = written[T][k]
        /\ written'[T][k] = written[T][k]
    BY <1>2, <1>3, <1>4, <2>1 DEF Agree
  <2>3. QED
    BY <1>6, <2>2
<1>7. CASE ~ (k <= Len(log'[i]))
  <2>1. Len(log'[i]) \in Nat
    BY <1>5
  <2>2. Restart(i)
    BY <1>3, <1>7, <2>1
  <2>3. restarts' > restarts
    BY <1>5, <2>2 DEF Restart
  <2>4. QED
    BY <1>7, <2>3
<1>8. QED
  BY <1>6, <1>7

\* No request makes a server discard or change an entry below its commit
\* index, and after a crash what is left below it is what was there.
THEOREM CommittedStays == Spec => CommittedNeverTruncated
<1>1. Core /\ Core' /\ CommitsCovered /\ [Next]_vars =>
         [\A i \in Server : \A k \in 1..commitIndex[i] :
             IF k <= Len(log'[i]) THEN log'[i][k] = log[i][k]
             ELSE restarts' > restarts]_<<log, commitIndex, restarts>>
  BY CommittedKept
<1>2. QED
  BY <1>1, CoreSafe, CommitSafe, PTL DEF Spec, CommittedNeverTruncated, CommitInv

-----------------------------------------------------------------------------
(***************************************************************************)
(* The refinement. Every index up to a commit index has been decided, and  *)
(* there is a last one.                                                    *)
(***************************************************************************)
DecidedTo(k) == \A n \in Nat : n > 0 /\ n <= k => \E d \in decided : d.index = n

AllDecided ==
    /\ \A i \in Server : DecidedTo(commitIndex[i]) /\ DecidedTo(storedCommit[i])
    /\ \A q \in Carried : DecidedTo(q.commit)
    /\ \A d \in decided : DecidedTo(d.index)
    /\ \E n \in Nat : \A d \in decided : d.index <= n

LEMMA InitAllDecided == Init => AllDecided
<1> SUFFICES ASSUME Init
             PROVE  AllDecided
  OBVIOUS
<1>1. Carried = {} /\ decided = {}
  BY DEF Init, Carried
<1>2. \A i \in Server : DecidedTo(commitIndex[i]) /\ DecidedTo(storedCommit[i])
  BY DEF Init, DecidedTo
<1>3. QED
  BY <1>1, <1>2 DEF AllDecided

LEMMA NextAllDecided == Core /\ Core' /\ AllDecided /\ [Next]_vars => AllDecided'
<1> SUFFICES ASSUME Core, Core', AllDecided, [Next]_vars
             PROVE  AllDecided'
  OBVIOUS
<1>1. TypeOK /\ TypeOK'
  BY DEF Core
<1>2. decided \subseteq decided'
  <2>1. ASSUME NEW i \in Server, NEW last \in Nat, Commits(i, last)
        PROVE  decided \subseteq decided'
    BY <2>1 DEF Commits
  <2>2. QED
    BY <1>1, <2>1, NextDecided
<1>3. ASSUME NEW k, DecidedTo(k)
      PROVE  DecidedTo(k)'
  BY <1>2, <1>3 DEF DecidedTo
<1>4. ASSUME NEW k, NEW m \in Nat, DecidedTo(k), m <= k, k \in Nat
      PROVE  DecidedTo(m)
  BY <1>4 DEF DecidedTo
<1>5. ASSUME NEW i \in Server, NEW last \in Nat, Commits(i, last)
      PROVE  DecidedTo(last)'
  <2> SUFFICES ASSUME NEW n \in Nat, n > 0, n <= last
               PROVE  \E d \in decided' : d.index = n
    BY DEF DecidedTo
  <2>1. commitIndex[i] \in Nat
    BY <1>1 DEF TypeOK
  <2>2. CASE n <= commitIndex[i]
    BY <1>2, <2>2 DEF AllDecided, DecidedTo
  <2>3. CASE n > commitIndex[i] /\ Undecided(i, n)
    <3>1. n \in (commitIndex[i] + 1)..last
      BY <2>1, <2>3
    <3>2. Decision(i, n) \in decided'
      BY <1>5, <2>3, <3>1 DEF Commits
    <3>3. Decision(i, n).index = n
      BY DEF Decision
    <3>4. QED
      BY <3>2, <3>3
  <2>4. CASE ~ Undecided(i, n)
    BY <1>2, <2>4 DEF Undecided
  <2>5. QED
    BY <2>1, <2>2, <2>3, <2>4
<1>6. ASSUME NEW i \in Server
      PROVE  DecidedTo(commitIndex[i])' /\ DecidedTo(storedCommit[i])'
  <2> SUFFICES ASSUME NEW c, NEW s, c = commitIndex'[i], s = storedCommit'[i]
               PROVE  DecidedTo(c)' /\ DecidedTo(s)'
    BY DEF DecidedTo
  <2> PICK a \in Nat, b \in Nat : a = commitIndex[i] /\ b = storedCommit[i]
    BY <1>1 DEF TypeOK
  <2>1. DecidedTo(a)' /\ DecidedTo(b)' /\ DecidedTo(a) /\ DecidedTo(b)
    BY <1>3 DEF AllDecided
  <2>2. CASE Restart(i)
    <3>1. PICK kept \in durable[i]..Len(log[i]) :
            commitIndex' = [commitIndex EXCEPT ![i] = Smaller(storedCommit[i], kept)]
      BY <2>2 DEF Restart
    <3>2. kept \in Nat
      BY <1>1, <3>1 DEF TypeOK
    <3>3. c = Smaller(b, kept) /\ s = b
      BY <1>1, <2>2, <3>1 DEF Restart, metaVars, TypeOK
    <3>4. c \in Nat /\ c <= b
      BY <3>2, <3>3 DEF Smaller
    <3>5. QED
      BY <1>3, <1>4, <2>1, <3>3, <3>4
  <2>3. ASSUME NEW q \in InFlight, q.to = i, AcceptAppend(q.to, q)
        PROVE  DecidedTo(c)' /\ DecidedTo(s)'
    <3>1. q \in Carried /\ q.commit \in Nat /\ q.prev + Len(q.entries) \in Nat
      BY <1>1, InFlightCarried, CarriedType DEF Request
    <3>2. DecidedTo(q.commit)
      BY <3>1 DEF AllDecided
    <3>3. c = CommitAfter(i, q) /\ s \in {a, b, c}
      <4>1. /\ commitIndex' = [commitIndex EXCEPT ![i] = CommitAfter(i, q)]
            /\ storedCommit' = [storedCommit EXCEPT ![i] =
                  IF ~GroupCommit /\ CommitAfter(i, q) > commitIndex[i]
                  THEN CommitAfter(i, q) ELSE StoredIn(i, q.term)]
        BY <2>3 DEF AcceptAppend
      <4>2. QED
        BY <1>1, <4>1 DEF StoredIn, TypeOK
    <3>4. c = a \/ (c \in Nat /\ c <= q.commit)
      BY <3>1, <3>3 DEF CommitAfter, Larger, Smaller
    <3>5. DecidedTo(c)'
      BY <1>3, <1>4, <2>1, <3>1, <3>2, <3>4
    <3>6. QED
      BY <2>1, <3>3, <3>5
  <2>4. ASSUME NEW last \in Nat, Commits(i, last)
        PROVE  DecidedTo(c)' /\ DecidedTo(s)'
    <3>1. c = last /\ s \in {b, last}
      BY <1>1, <2>4 DEF Commits, TypeOK
    <3>2. QED
      BY <1>5, <2>1, <2>4, <3>1
  <2>5. CASE c = a /\ s \in {a, b}
    BY <2>1, <2>5
  <2>6. QED
    BY <1>1, <2>2, <2>3, <2>4, <2>5, CommitOf
<1>7. ASSUME NEW q \in Carried'
      PROVE  DecidedTo(q.commit)'
  <2>1. CASE q \in Carried
    BY <1>3, <2>1 DEF AllDecided
  <2>2. CASE q \notin Carried
    <3>1. PICK i \in Server, j \in Server : q = rpc'[i][j].request /\ Posts(i, j)
      BY <1>1, <2>2, NextCarried
    <3>2. q.commit = commitIndex[i]
      BY <3>1 DEF Posts, Sent, RequestTo
    <3>3. QED
      BY <1>3, <3>2 DEF AllDecided
  <2>3. QED
    BY <2>1, <2>2
<1>8. ASSUME NEW d \in decided'
      PROVE  DecidedTo(d.index)'
  <2>1. CASE d \in decided
    BY <1>3, <2>1 DEF AllDecided
  <2>2. CASE d \notin decided
    <3>1. PICK i \in Server, last \in Nat : Commits(i, last)
      BY <1>1, <2>2, NextDecided
    <3>2. d.index \in Nat /\ d.index <= last
      BY <1>1, <2>2, <3>1, DecisionFields
    <3>3. QED
      BY <1>5, <3>1, <3>2 DEF DecidedTo
  <2>3. QED
    BY <2>1, <2>2
<1>9. \E n \in Nat : \A d \in decided' : d.index <= n
  <2>1. PICK n \in Nat : \A d \in decided : d.index <= n
    BY DEF AllDecided
  <2>2. ASSUME NEW i \in Server, NEW last \in Nat, Commits(i, last)
        PROVE  \A d \in decided' : d.index <= Larger(n, last)
    <3> SUFFICES ASSUME NEW d \in decided'
                 PROVE  d.index <= Larger(n, last)
      OBVIOUS
    <3>1. CASE d \in decided
      <4>1. d.index \in Nat /\ d.index <= n
        BY <1>1, <2>1, <3>1 DEF TypeOK
      <4>2. QED
        BY <4>1 DEF Larger
    <3>2. CASE d \notin decided
      <4>1. d.index \in Nat /\ d.index <= last
        BY <1>1, <2>2, <3>2, DecisionFields
      <4>2. QED
        BY <4>1 DEF Larger
    <3>3. QED
      BY <3>1, <3>2
  <2>3. \A last \in Nat : Larger(n, last) \in Nat
    BY DEF Larger
  <2>4. QED
    BY <1>1, <2>1, <2>2, <2>3, NextDecided
<1>10. QED
  BY <1>6, <1>7, <1>8, <1>9 DEF AllDecided

-----------------------------------------------------------------------------
Last == Max({d.index : d \in decided} \cup {0})

LEMMA LastDecided ==
    ASSUME TypeOK, AllDecided
    PROVE  /\ Last \in Nat /\ DecidedTo(Last)
           /\ \A d \in decided : d.index <= Last
           /\ Last = 0 \/ \E d \in decided : d.index = Last
<1> DEFINE S == {d.index : d \in decided} \cup {0}
<1>1. PICK n \in Nat : \A d \in decided : d.index <= n
  BY DEF AllDecided
<1>2. \A d \in decided : d.index \in Nat /\ DecidedTo(d.index)
  BY DEF TypeOK, AllDecided
<1>3. S \in SUBSET (0..n) /\ S # {}
  BY <1>1, <1>2
<1>4. PICK m \in S : \A k \in S : k <= m
  BY <1>3, GreatestNatural
<1>5. m \in S /\ \A k \in S : m >= k
  BY <1>3, <1>4
<1>6. Last \in S /\ \A k \in S : Last >= k
  BY <1>5 DEF Last, Max
<1> HIDE DEF S
<1>7. Last \in Nat /\ \A k \in S : k \in Nat
  BY <1>3, <1>6
<1>8. Last = 0 \/ \E d \in decided : d.index = Last
  BY <1>6 DEF S
<1>9. DecidedTo(Last)
  BY <1>2, <1>8 DEF DecidedTo
<1>10. \A d \in decided : d.index <= Last
  BY <1>6, <1>7 DEF S
<1>11. QED
  BY <1>7, <1>8, <1>9, <1>10

\* An index is decided once.
LEMMA OneDecision ==
    ASSUME Core, DecidedFixed, NEW d \in decided, NEW e \in decided,
           d.index = e.index
    PROVE  d.entry = e.entry
<1>1. ASSUME NEW a \in decided, NEW b \in decided, a.index = b.index,
             a.term <= b.term
      PROVE  a.entry = b.entry
  <2>1. b.term \in DOMAIN written
    BY DEF DecidedFixed, Fixed, Own
  <2>2. b.term >= a.term
    BY <1>1 DEF Core, TypeOK
  <2>3. written[b.term][a.index] = a.entry
    BY <2>1, <2>2, LaterLogsDecided
  <2>4. written[b.term][b.index] = b.entry
    BY DEF DecidedFixed
  <2>5. QED
    BY <1>1, <2>3, <2>4
<1>2. d.term \in Nat /\ e.term \in Nat
  BY DEF Core, TypeOK
<1>3. d.term <= e.term \/ e.term <= d.term
  BY <1>2
<1>4. QED
  BY <1>1, <1>3

ChosenIs ==
    /\ Chosen \in Seq(Entry)
    /\ \A d \in decided : d.index \in 1..Len(Chosen) /\ Chosen[d.index] = d.entry
    /\ \A k \in 1..Len(Chosen) : \E d \in decided : d.index = k

AppliedIs ==
    \A i \in Server :
        /\ Applied[i] \in Seq(Entry) /\ Len(Applied[i]) = commitIndex[i]
        /\ Agree(Applied[i], Chosen, commitIndex[i])

MapInv == Core /\ CommitInv /\ AllDecided

LEMMA MapChosen == MapInv => ChosenIs
<1> SUFFICES ASSUME MapInv
             PROVE  ChosenIs
  OBVIOUS
<1>1. TypeOK /\ DecidedFixed /\ Core
  BY DEF MapInv, Core, CommitInv
<1>2. /\ Last \in Nat /\ DecidedTo(Last) /\ \A d \in decided : d.index <= Last
  BY <1>1, LastDecided DEF MapInv
<1>3. \A d \in decided : d.entry \in Entry /\ d.index \in Nat /\ d.index > 0
  BY <1>1 DEF TypeOK, DecidedFixed
<1>4. Chosen = [k \in 1..Last |-> (CHOOSE d \in decided : d.index = k).entry]
  BY DEF Chosen, Last
<1>5. ASSUME NEW k \in 1..Last
      PROVE  \E d \in decided : d.index = k /\ Chosen[k] = d.entry
  <2>1. \E d \in decided : d.index = k
    BY <1>2 DEF DecidedTo
  <2>2. QED
    BY <1>4, <2>1
<1>6. Chosen \in Seq(Entry) /\ Len(Chosen) = Last
  <2>1. \A k \in 1..Last : Chosen[k] \in Entry
    BY <1>3, <1>5
  <2>2. Chosen = [k \in 1..Last |-> Chosen[k]]
    BY <1>4
  <2> HIDE DEF Chosen
  <2>3. Chosen \in [1..Last -> Entry]
    BY <2>1, <2>2
  <2>4. QED
    BY <1>2, <2>3
<1>7. ASSUME NEW d \in decided
      PROVE  d.index \in 1..Len(Chosen) /\ Chosen[d.index] = d.entry
  <2>1. d.index \in 1..Last
    BY <1>2, <1>3
  <2>2. PICK e \in decided : e.index = d.index /\ Chosen[d.index] = e.entry
    BY <1>5, <2>1
  <2>3. QED
    BY <1>1, <1>6, <2>1, <2>2, OneDecision
<1>8. QED
  BY <1>5, <1>6, <1>7 DEF ChosenIs

LEMMA MapApplied == MapInv => AppliedIs
<1> SUFFICES ASSUME MapInv, NEW i \in Server
             PROVE  /\ Applied[i] \in Seq(Entry) /\ Len(Applied[i]) = commitIndex[i]
                    /\ Agree(Applied[i], Chosen, commitIndex[i])
  BY DEF AppliedIs
<1>1. TypeOK /\ DecidedFixed /\ CommitsCovered /\ Core /\ ChosenIs
  BY MapChosen DEF MapInv, Core, CommitInv
<1> PICK c \in Nat : c = commitIndex[i]
  BY <1>1 DEF TypeOK
<1> PICK l \in Seq(Entry) : l = log[i]
  BY <1>1 DEF TypeOK
<1>2. c <= Len(l) /\ Covered(l, currentTerm[i], c)
  BY <1>1 DEF CommitsCovered
<1>3. Applied[i] = SubSeq(l, 1, c)
  BY DEF Applied
<1>4. Applied[i] \in Seq(Entry) /\ Len(Applied[i]) = c /\ Agree(Applied[i], l, c)
  BY <1>2, <1>3, PrefixAgrees
<1>5. DecidedTo(c)
  BY DEF MapInv, AllDecided
<1>6. ASSUME NEW k \in 1..c
      PROVE  k \in 1..Len(Chosen) /\ l[k] = Chosen[k]
  <2>1. PICK d \in decided : d.index = k
    BY <1>5 DEF DecidedTo
  <2>2. k \in 1..Len(Chosen) /\ Chosen[k] = d.entry
    BY <1>1, <2>1 DEF ChosenIs
  <2>3. PICK T \in Nat, m \in Nat :
           c <= m /\ Fixed(T, m) /\ Agree(l, written[T], Smaller(c, Len(l)))
    BY <1>2 DEF Covered
  <2>4. T \in DOMAIN written /\ d.term \in DOMAIN written /\ d.term \in Nat
    BY <1>1, <2>3 DEF Fixed, Own, DecidedFixed, TypeOK
  <2>5. Smaller(c, Len(l)) = c
    BY <1>2 DEF Smaller
  <2>6. l[k] = written[T][k] /\ k \in 1..m
    BY <2>3, <2>5 DEF Agree
  <2>7. CASE T >= d.term
    BY <1>1, <2>1, <2>2, <2>4, <2>6, <2>7, LaterLogsDecided
  <2>8. CASE d.term >= T
    <3>1. Agree(written[d.term], written[T], m)
      BY <1>1, <2>3, <2>4, <2>8, FixedFacts
    <3>2. written[d.term][k] = written[T][k]
      BY <2>6, <3>1 DEF Agree
    <3>3. written[d.term][k] = d.entry
      BY <1>1, <2>1 DEF DecidedFixed
    <3>4. QED
      BY <2>2, <2>6, <3>2, <3>3
  <2>9. QED
    BY <2>4, <2>7, <2>8
<1>7. c <= Len(Chosen)
  <2>1. Len(Chosen) \in Nat
    BY <1>1 DEF ChosenIs
  <2>2. CASE c = 0
    BY <2>1, <2>2
  <2>3. CASE c > 0
    <3>1. c \in 1..c
      BY <2>3
    <3>2. QED
      BY <1>6, <3>1
  <2>4. QED
    BY <2>2, <2>3
<1>8. Agree(Applied[i], Chosen, c)
  BY <1>4, <1>6, <1>7 DEF Agree
<1>9. QED
  BY <1>4, <1>8

-----------------------------------------------------------------------------
\* Agreement up to the end of the shorter log is what Abstract calls a prefix.
LEMMA AgreeIsPrefix ==
    ASSUME NEW s \in Seq(Entry), NEW l \in Seq(Entry), Agree(s, l, Len(s))
    PROVE  Abstract!IsPrefixOf(s, l)
<1>1. Len(s) \in Nat
  OBVIOUS
<1>2. SubSeq(s, 1, Len(s)) = SubSeq(l, 1, Len(s))
  BY <1>1, AgreePrefix
<1>3. SubSeq(s, 1, Len(s)) = s
  BY SubSeqFull
<1>4. QED
  BY <1>2, <1>3 DEF Agree, Abstract!IsPrefixOf

LEMMA AgreeEqual ==
    ASSUME NEW s \in Seq(Entry), NEW l \in Seq(Entry), Agree(s, l, Len(s)),
           Len(s) = Len(l)
    PROVE  s = l
BY SeqEqual DEF Agree

\* Steps decide more, never differently.
LEMMA ChosenGrows ==
    ASSUME ChosenIs, ChosenIs', decided \subseteq decided'
    PROVE  Agree(Chosen', Chosen, Len(Chosen))
<1>1. Len(Chosen) \in Nat /\ Len(Chosen') \in Nat
  BY DEF ChosenIs
<1>2. ASSUME NEW k \in 1..Len(Chosen)
      PROVE  k \in 1..Len(Chosen') /\ Chosen'[k] = Chosen[k]
  <2>1. PICK d \in decided : d.index = k
    BY DEF ChosenIs
  <2>2. d \in decided'
    OBVIOUS
  <2>3. Chosen[k] = d.entry
    BY <2>1 DEF ChosenIs
  <2>4. k \in 1..Len(Chosen') /\ Chosen'[k] = d.entry
    BY <2>1, <2>2 DEF ChosenIs
  <2>5. QED
    BY <2>3, <2>4
<1>3. Len(Chosen) <= Len(Chosen')
  <2>1. CASE Len(Chosen) = 0
    BY <1>1, <2>1
  <2>2. CASE Len(Chosen) # 0
    <3>1. Len(Chosen) \in 1..Len(Chosen)
      BY <1>1, <2>2
    <3>2. Len(Chosen) \in 1..Len(Chosen')
      BY <1>2, <3>1
    <3>3. QED
      BY <1>1, <3>2
  <2>3. QED
    BY <2>1, <2>2
<1>4. QED
  BY <1>1, <1>2, <1>3 DEF Agree

\* When nothing new is chosen, the server whose index moves applies or restarts.
LEMMA MovesMap ==
    ASSUME ChosenIs, AppliedIs, AppliedIs', Chosen' = Chosen,
           TypeOK, TypeOK', NEW j \in Server,
           \A i \in Server \ {j} : commitIndex'[i] = commitIndex[i]
    PROVE  [Abstract!Next]_(Abstract!vars)
<1>1. ASSUME NEW i \in Server
      PROVE  /\ Applied[i] \in Seq(Entry) /\ Applied'[i] \in Seq(Entry)
             /\ commitIndex[i] \in Nat /\ commitIndex'[i] \in Nat
             /\ Len(Applied[i]) = commitIndex[i] /\ Len(Applied'[i]) = commitIndex'[i]
             /\ Agree(Applied[i], Chosen, commitIndex[i])
             /\ Agree(Applied'[i], Chosen, commitIndex'[i])
  <2>1. commitIndex \in [Server -> Nat] /\ commitIndex' \in [Server -> Nat]
    BY DEF TypeOK
  <2>2. QED
    BY <2>1 DEF AppliedIs
<1>2. Chosen \in Seq(Entry)
  BY DEF ChosenIs
<1>3. ASSUME NEW i \in Server, commitIndex'[i] = commitIndex[i]
      PROVE  Applied'[i] = Applied[i]
  <2>1. Agree(Applied'[i], Applied[i], commitIndex[i])
    BY <1>1, <1>3, AgreeSym, AgreeTrans
  <2>2. QED
    BY <1>1, <1>3, <2>1, AgreeEqual
<1>4. Applied' = [Applied EXCEPT ![j] = Applied'[j]]
  <2>1. \A i \in Server : i # j => Applied'[i] = Applied[i]
    BY <1>3
  <2>2. Applied' = [i \in Server |-> Applied'[i]] /\ Applied = [i \in Server |-> Applied[i]]
    BY DEF Applied
  <2> HIDE DEF Applied
  <2>3. QED
    BY <2>1, <2>2
<1>5. CASE commitIndex'[j] = commitIndex[j]
  <2>1. Applied'[j] = Applied[j]
    BY <1>3, <1>5
  <2>2. Applied = [i \in Server |-> Applied[i]]
    BY DEF Applied
  <2>3. Applied' = Applied
    BY <1>4, <2>1, <2>2
  <2>4. QED
    BY <2>3 DEF Abstract!vars
<1>6. CASE commitIndex'[j] < commitIndex[j]
  <2>1. Agree(Applied'[j], Applied[j], commitIndex'[j])
    <3>1. Agree(Applied[j], Chosen, commitIndex'[j])
      BY <1>1, <1>2, <1>6, AgreeLess
    <3>2. QED
      BY <1>1, <3>1, AgreeSym, AgreeTrans
  <2>2. Abstract!IsPrefixOf(Applied'[j], Applied[j])
    BY <1>1, <2>1, AgreeIsPrefix
  <2>3. Abstract!Restart(j)
    BY <1>4, <2>2 DEF Abstract!Restart
  <2>4. QED
    BY <2>3 DEF Abstract!Next
<1>7. CASE commitIndex'[j] > commitIndex[j]
  <2>1. Agree(Applied[j], Applied'[j], commitIndex[j])
    <3>1. Agree(Applied'[j], Chosen, commitIndex[j])
      BY <1>1, <1>2, <1>7, AgreeLess
    <3>2. QED
      BY <1>1, <3>1, AgreeSym, AgreeTrans
  <2>2. Abstract!IsPrefixOf(Applied[j], Applied'[j])
    BY <1>1, <2>1, AgreeIsPrefix
  <2>3. Abstract!IsPrefixOf(Applied'[j], Chosen)
    BY <1>1, <1>2, AgreeIsPrefix
  <2>4. Applied'[j] # Applied[j]
    BY <1>1, <1>7
  <2>5. Abstract!Apply(j)
    BY <1>4, <2>2, <2>3, <2>4 DEF Abstract!Apply
  <2>6. QED
    BY <2>5 DEF Abstract!Next
<1>8. QED
  BY <1>1, <1>5, <1>6, <1>7

-----------------------------------------------------------------------------
LEMMA MapNext ==
    ASSUME MapInv, MapInv', [Next]_vars
    PROVE  [Abstract!Next]_(Abstract!vars)
<1>1. TypeOK /\ TypeOK'
  BY DEF MapInv, Core
<1>2. ChosenIs /\ ChosenIs' /\ AppliedIs /\ AppliedIs'
  <2>1. MapInv' => ChosenIs' /\ AppliedIs'
    BY MapChosen, MapApplied, PTL
  <2>2. QED
    BY <2>1, MapChosen, MapApplied
<1>3. ASSUME UNCHANGED decided
      PROVE  Chosen' = Chosen
  BY <1>3 DEF Chosen
<1>4. CASE CommitsStand
  <2>1. UNCHANGED decided /\ UNCHANGED commitIndex
    BY <1>4 DEF CommitsStand
  <2>2. \E j : j \in Server
    BY ServerAssumption, FS_EmptySet
  <2>3. QED
    BY <1>1, <1>2, <1>3, <2>1, <2>2, MovesMap
<1>5. ASSUME NEW j \in Server, Restart(j)
      PROVE  [Abstract!Next]_(Abstract!vars)
  <2>1. UNCHANGED decided /\ \A i \in Server \ {j} : commitIndex'[i] = commitIndex[i]
    BY <1>1, <1>5 DEF Restart, history, TypeOK
  <2>2. QED
    BY <1>1, <1>2, <1>3, <2>1, MovesMap
<1>6. ASSUME NEW q \in InFlight, AcceptAppend(q.to, q)
      PROVE  [Abstract!Next]_(Abstract!vars)
  <2>1. q.to \in Server
    BY <1>1, InFlightType, SMTT(30) DEF Request
  <2>2. /\ UNCHANGED decided
        /\ \A i \in Server \ {q.to} : commitIndex'[i] = commitIndex[i]
    BY <1>1, <1>6 DEF AcceptAppend, history, TypeOK
  <2>3. QED
    BY <1>1, <1>2, <1>3, <2>1, <2>2, MovesMap
<1>7. ASSUME NEW j \in Server, NEW last \in Nat, Commits(j, last)
      PROVE  [Abstract!Next]_(Abstract!vars)
  <2>1. /\ \A i \in Server \ {j} : commitIndex'[i] = commitIndex[i]
        /\ commitIndex'[j] = last /\ decided \subseteq decided'
    BY <1>1, <1>7 DEF Commits, TypeOK
  <2>2. Agree(Chosen', Chosen, Len(Chosen))
    BY <1>2, <2>1, ChosenGrows
  <2>3. Chosen \in Seq(Entry) /\ Chosen' \in Seq(Entry)
    BY <1>2 DEF ChosenIs
  <2>4. CASE Len(Chosen') = Len(Chosen)
    <3>1. Chosen' = Chosen
      <4>1. Agree(Chosen', Chosen, Len(Chosen'))
        BY <2>2, <2>4
      <4>2. QED
        BY <2>3, <2>4, <4>1, AgreeEqual
    <3>2. QED
      BY <1>1, <1>2, <2>1, <3>1, MovesMap
  \* The last entry committed is the last one chosen.
  <2>5. CASE Len(Chosen') # Len(Chosen)
    <3>1. Len(Chosen) \in Nat /\ Len(Chosen') \in Nat /\ Len(Chosen') > Len(Chosen)
      BY <2>2, <2>3, <2>5 DEF Agree
    <3>2. Len(Chosen') <= last
      <4>1. PICK d \in decided' : d.index = Len(Chosen')
        <5>1. Len(Chosen') \in 1..Len(Chosen')
          BY <3>1
        <5>2. \A k \in 1..Len(Chosen') : \E d \in decided' : d.index = k
          BY <1>2 DEF ChosenIs
        <5>3. QED
          BY <5>1, <5>2
      <4>2. d \notin decided
        <5>1. d \in decided => d.index \in 1..Len(Chosen)
          BY <1>2 DEF ChosenIs
        <5>2. QED
          BY <3>1, <4>1, <5>1
      <4>3. QED
        BY <1>1, <1>7, <4>1, <4>2, DecisionFields
    <3>3. /\ Applied'[j] \in Seq(Entry) /\ Len(Applied'[j]) = last
          /\ Agree(Applied'[j], Chosen', last)
      BY <1>2, <2>1 DEF AppliedIs
    <3>4. Len(Chosen') = last
      BY <3>1, <3>2, <3>3 DEF Agree
    <3>5. Applied'[j] = Chosen'
      BY <2>3, <3>3, <3>4, AgreeEqual
    <3>6. Applied' = [Applied EXCEPT ![j] = Chosen']
      <4>1. ASSUME NEW i \in Server, i # j
            PROVE  Applied'[i] = Applied[i]
        <5>1. log'[i] = log[i] /\ commitIndex'[i] = commitIndex[i]
          BY <1>7, <2>1, <4>1 DEF Commits
        <5>2. Applied'[i] = SubSeq(log'[i], 1, commitIndex'[i])
          BY <4>1 DEF Applied
        <5>3. Applied[i] = SubSeq(log[i], 1, commitIndex[i])
          BY <4>1 DEF Applied
        <5>4. QED
          BY <5>1, <5>2, <5>3
      <4>2. /\ Applied' = [i \in Server |-> Applied'[i]]
            /\ Applied = [i \in Server |-> Applied[i]]
        BY DEF Applied
      <4> HIDE DEF Applied, Chosen
      <4>3. QED
        BY <3>5, <4>1, <4>2
    <3>7. Abstract!IsPrefixOf(Chosen, Chosen')
      BY <2>2, <2>3, AgreeSym, AgreeIsPrefix
    <3>8. Abstract!Choose(j)
      <4>1. Chosen' # Chosen
        BY <2>5
      <4>2. QED
        BY <2>3, <3>6, <3>7, <4>1 DEF Abstract!Choose
    <3>9. QED
      BY <3>8 DEF Abstract!Next
  <2>6. QED
    BY <2>4, <2>5
<1>8. QED
  BY <1>1, <1>4, <1>5, <1>6, <1>7, CommitKinds

LEMMA MapInit == Init => Abstract!Init
<1> SUFFICES ASSUME Init
             PROVE  Abstract!Init
  OBVIOUS
<1>1. decided = {} /\ commitIndex = [i \in Server |-> 0] /\ log = [i \in Server |-> <<>>]
  BY DEF Init
<1>2. Chosen = <<>>
  <2>1. ChosenIs
    BY InitTypeOK, InitSafeLogs, InitBallotInv, InitCommitInv, InitAllDecided,
       MapChosen DEF MapInv, Core
  <2>2. Chosen \in Seq(Entry) /\ \A k \in 1..Len(Chosen) : FALSE
    BY <1>1, <2>1 DEF ChosenIs
  <2>3. Len(Chosen) = 0
    BY <2>2
  <2>4. QED
    BY <2>2, <2>3, SeqEqual
<1>3. \A i \in Server : SubSeq(log[i], 1, commitIndex[i]) = <<>>
  BY <1>1
<1>4. Applied = [i \in Server |-> <<>>]
  BY <1>3 DEF Applied
<1>5. QED
  BY <1>2, <1>4 DEF Abstract!Init

\* Every execution of the consensus engine is one of ReplicatedLog: there is
\* one sequence of entries, it only grows, and each server applies a prefix
\* of it in order, through crashes, elections, and late or repeated requests.
THEOREM RaftRefines == Spec => ImplementsReplicatedLog
<1>1. Spec => []MapInv
  <2>1. Spec => []AllDecided
    BY CoreSafe, InitAllDecided, NextAllDecided, PTL DEF Spec
  <2>2. QED
    BY <2>1, CoreSafe, CommitSafe, PTL DEF MapInv
<1>2. MapInv /\ MapInv' /\ [Next]_vars => [Abstract!Next]_(Abstract!vars)
  BY MapNext
<1>3. QED
  BY <1>1, <1>2, MapInit, PTL DEF Spec, ImplementsReplicatedLog, Abstract!Spec

=============================================================================
