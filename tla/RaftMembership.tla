--------------------------- MODULE RaftMembership ---------------------------
(***************************************************************************)
(* Membership changes of replica/raft.js: a configuration is an entry of   *)
(* the log, in force at a server from the moment its log has it and out of *)
(* force when it is truncated; addServer and removeServer append such      *)
(* entries, one server at a time, and wait for them to commit.             *)
(*                                                                         *)
(* What the module Raft has in detail is here in short. A call and its     *)
(* answer are one step, and a lost one is not taken; nothing crashes; an   *)
(* entry that is no configuration stands for any command. There is at most *)
(* one call of addServer or removeServer for a server at a time.           *)
(***************************************************************************)
EXTENDS RaftLog, FiniteSets

CONSTANTS
    Server, Bootstrap,  \* all servers, and the voters of an empty log
    Nil,
    MaxTerm, MaxLog     \* bounds on terms and on the lengths of logs

VARIABLES
    currentTerm, votedFor, state, log, commitIndex,
    asked, granted,         \* of a candidate: whom it has asked, who voted for it
    nextIndex, matchIndex,  \* of a leader, per peer; nextIndex 0 is undefined
    changes,                \* the calls of addServer and removeServer under way
    leaders                 \* history: the elections won

vars == <<currentTerm, votedFor, state, log, commitIndex, asked, granted,
          nextIndex, matchIndex, changes, leaders>>

Follower  == "FOLLOWER"
Candidate == "CANDIDATE"
Leader    == "LEADER"

Entry(t, c) == [term |-> t, config |-> c]

Config(voters, learners) == [members |-> voters, learners |-> learners]

\* _refreshConfiguration: the newest configuration of a log.
ConfigOf(l) ==
    LET at == {k \in 1..Len(l) : l[k].config # Nil}
    IN  IF at = {} THEN Config(Bootstrap, {})
        ELSE l[CHOOSE k \in at : \A m \in at : m <= k].config

Members(i)  == ConfigOf(log[i]).members
Learners(i) == ConfigOf(log[i]).learners
PeersIn(i, l) == (ConfigOf(l).members \cup ConfigOf(l).learners) \ {i}

IsQuorum(votes, i) == 2 * Cardinality(votes) > Cardinality(Members(i))

Change(op, url, phase, at) == [op |-> op, url |-> url, phase |-> phase, at |-> at]

Init ==
    /\ currentTerm = [i \in Server |-> 0]
    /\ votedFor = [i \in Server |-> Nil]
    /\ state = [i \in Server |-> Follower]
    /\ log = [i \in Server |-> <<>>]
    /\ commitIndex = [i \in Server |-> 0]
    /\ asked = [i \in Server |-> {}]
    /\ granted = [i \in Server |-> {}]
    /\ nextIndex = [i \in Server |-> [j \in Server |-> 0]]
    /\ matchIndex = [i \in Server |-> [j \in Server |-> 0]]
    /\ changes = [i \in Server |-> {}]
    /\ leaders = {}

-----------------------------------------------------------------------------
\* Elections

\* _becomeFollower: a new term forgets the vote. The waiters of a leader
\* fail, and with them the calls that wait.
BecomeFollower(i, t) ==
    /\ currentTerm' = [currentTerm EXCEPT ![i] = t]
    /\ votedFor' = [votedFor EXCEPT ![i] = IF t > currentTerm[i] THEN Nil ELSE @]
    /\ state' = [state EXCEPT ![i] = Follower]
    /\ changes' = [changes EXCEPT ![i] = {}]

\* _becomeLeader. Progress is set afresh for the peers of the configuration
\* in force, and kept for everybody else.
BecomeLeader(i, t) ==
    LET fresh(f, n) == [f EXCEPT ![i] =
            [j \in Server |-> IF j \in PeersIn(i, log[i]) THEN n ELSE @[j]]]
    IN  /\ leaders' = leaders \cup {<<t, i>>}
        /\ nextIndex' = fresh(nextIndex, Len(log[i]) + 1)
        /\ matchIndex' = fresh(matchIndex, 0)
        /\ log' = [log EXCEPT ![i] = Append(@, Entry(t, Nil))]

\* Only a voter, by its own configuration, campaigns; the sole one has won.
StartElection(i) ==
    /\ state[i] # Leader /\ i \in Members(i)
    /\ currentTerm[i] < MaxTerm /\ Len(log[i]) < MaxLog
    /\ currentTerm' = [currentTerm EXCEPT ![i] = @ + 1]
    /\ votedFor' = [votedFor EXCEPT ![i] = i]
    /\ asked' = [asked EXCEPT ![i] = {i}]
    /\ granted' = [granted EXCEPT ![i] = {i}]
    /\ IF IsQuorum({i}, i)
       THEN /\ state' = [state EXCEPT ![i] = Leader]
            /\ BecomeLeader(i, currentTerm[i] + 1)
       ELSE /\ state' = [state EXCEPT ![i] = Candidate]
            /\ UNCHANGED <<log, nextIndex, matchIndex, leaders>>
    /\ UNCHANGED <<commitIndex, changes>>

\* The voter learns the term of a candidate or leader i.
Later(j, i) == currentTerm[j] < currentTerm[i]

\* handleRequestVote. The voter does not ask whether the candidate is a
\* member, and it may be none itself.
Grants(j, i) ==
    /\ Later(j, i) \/ votedFor[j] \in {Nil, i}
    /\ UpToDate(LastTerm(log[i]), Len(log[i]), log[j])

Vote(i, j) ==
    LET votes == granted[i] \cup (IF Grants(j, i) THEN {j} ELSE {})
        wins  == IsQuorum(votes, i)
    IN  /\ state[i] = Candidate /\ j \in Members(i) \ asked[i]
        /\ currentTerm[j] <= currentTerm[i]
        /\ asked' = [asked EXCEPT ![i] = @ \cup {j}]
        /\ granted' = [granted EXCEPT ![i] = votes]
        /\ currentTerm' = [currentTerm EXCEPT ![j] = currentTerm[i]]
        /\ votedFor' = [votedFor EXCEPT ![j] =
                            IF Grants(j, i) THEN i ELSE IF Later(j, i) THEN Nil ELSE @]
        /\ state' = [state EXCEPT ![j] = IF Later(j, i) THEN Follower ELSE @,
                                  ![i] = IF wins THEN Leader ELSE @]
        /\ changes' = [changes EXCEPT ![j] = IF Later(j, i) THEN {} ELSE @]
        /\ IF wins THEN BecomeLeader(i, currentTerm[i])
           ELSE UNCHANGED <<log, nextIndex, matchIndex, leaders>>
        /\ UNCHANGED commitIndex

\* The answer names a later term.
VoteRefused(i, j) ==
    /\ state[i] = Candidate /\ j \in Members(i) \ asked[i]
    /\ currentTerm[j] > currentTerm[i]
    /\ BecomeFollower(i, currentTerm[j])
    /\ UNCHANGED <<log, commitIndex, asked, granted, nextIndex, matchIndex, leaders>>

-----------------------------------------------------------------------------
\* Replication

\* _advanceCommitIndex: the last entry of the term that a quorum of voters
\* has. A leader that is no voter does not count itself.
CommitWith(i, match) ==
    LET Have(k) == {j \in Members(i) : j = i \/ match[j] >= k}
        due == {k \in (commitIndex[i] + 1)..Len(log[i]) :
                   log[i][k].term = currentTerm[i] /\ IsQuorum(Have(k), i)}
    IN  IF due = {} THEN commitIndex[i] ELSE CHOOSE k \in due : \A m \in due : m <= k

\* The position the leader's next request starts at.
NextTo(i, j) ==
    IF nextIndex[i][j] = 0 THEN Len(log[i]) + 1
    ELSE Smaller(nextIndex[i][j], Len(log[i]) + 1)

\* The follower has heard from the leader of its term.
Heard(j, i) ==
    /\ currentTerm' = [currentTerm EXCEPT ![j] = currentTerm[i]]
    /\ state' = [state EXCEPT ![j] = Follower]
    /\ votedFor' = [votedFor EXCEPT ![j] = IF Later(j, i) THEN Nil ELSE @]
    /\ changes' = [changes EXCEPT ![j] = {}]

\* AppendEntries to a voter or a learner, and its success. A follower that
\* would have to truncate what it holds committed throws instead, and the call
\* counts for lost.
Replicate(i, j) ==
    LET prev    == NextTo(i, j) - 1
        entries == SubSeq(log[i], prev + 1, Len(log[i]))
        upTo    == Len(log[i])
        match   == [matchIndex[i] EXCEPT ![j] = Larger(@, upTo)]
    IN  /\ state[i] = Leader /\ j \in PeersIn(i, log[i])
        /\ currentTerm[j] <= currentTerm[i]
        /\ PrevMatches(log[j], prev, TermAt(log[i], prev))
        /\ Kept(log[j], prev, entries) >= commitIndex[j]
        /\ Heard(j, i)
        /\ log' = [log EXCEPT ![j] = Merge(@, prev, entries)]
        /\ matchIndex' = [matchIndex EXCEPT ![i] = match]
        /\ nextIndex' = [nextIndex EXCEPT ![i][j] = match[j] + 1]
        /\ commitIndex' = [commitIndex EXCEPT
                ![i] = CommitWith(i, match),
                ![j] = Larger(@, Smaller(commitIndex[i], upTo))]
        /\ UNCHANGED <<asked, granted, leaders>>

\* The follower's log does not match.
Mismatch(i, j) ==
    LET prev == NextTo(i, j) - 1
    IN  /\ state[i] = Leader /\ j \in PeersIn(i, log[i])
        /\ currentTerm[j] <= currentTerm[i]
        /\ ~PrevMatches(log[j], prev, TermAt(log[i], prev))
        /\ Heard(j, i)
        /\ nextIndex' = [nextIndex EXCEPT
                ![i][j] = Backed(prev, ConflictHint(log[j], prev))]
        /\ UNCHANGED <<log, commitIndex, asked, granted, matchIndex, leaders>>

\* The follower is in a later term.
Deposed(i, j) ==
    /\ state[i] = Leader /\ j \in PeersIn(i, log[i])
    /\ currentTerm[j] > currentTerm[i]
    /\ BecomeFollower(i, currentTerm[j])
    /\ UNCHANGED <<log, commitIndex, asked, granted, nextIndex, matchIndex, leaders>>

-----------------------------------------------------------------------------
\* Membership

\* _commitConfiguration, up to its wait: the entry is appended and in force.
\* A server that becomes a peer by it starts at the end of the log.
AppendConfig(i, c) ==
    LET l == Append(log[i], Entry(currentTerm[i], c))
    IN  /\ Len(l) <= MaxLog
        /\ log' = [log EXCEPT ![i] = l]
        /\ nextIndex' = [nextIndex EXCEPT ![i] =
                [j \in Server |-> IF j \in PeersIn(i, l) /\ @[j] = 0
                                  THEN Len(l) + 1 ELSE @[j]]]
        /\ UNCHANGED <<currentTerm, votedFor, state, commitIndex, asked, granted,
                       matchIndex, leaders>>

\* _assertNoPendingConfigChange
NoPendingConfigChange(i) ==
    \A k \in (commitIndex[i] + 1)..Len(log[i]) : log[i][k].config = Nil

\* A change that waits for its entry, the next of the log.
Waits(i, op, url, phase) == Change(op, url, phase, Len(log[i]) + 1)

Begins(i, t) == changes' = [changes EXCEPT ![i] = @ \cup {t}]

Becomes(i, t, u) == changes' = [changes EXCEPT ![i] = (@ \ {t}) \cup u]

Busy(i, url) == \E t \in changes[i] : t.url = url

\* addServer; one that is a learner already goes straight to catching up.
AddServer(i, url) ==
    /\ state[i] = Leader /\ url \notin Members(i) /\ ~Busy(i, url)
    /\ NoPendingConfigChange(i)
    /\ IF url \in Learners(i)
       THEN /\ Begins(i, Change("add", url, "catching", 0))
            /\ UNCHANGED <<currentTerm, votedFor, state, log, commitIndex, asked,
                           granted, nextIndex, matchIndex, leaders>>
       ELSE /\ AppendConfig(i, Config(Members(i), Learners(i) \cup {url}))
            /\ Begins(i, Waits(i, "add", url, "staging"))

\* removeServer, which may be the leader itself, but not the last member.
RemoveServer(i, url) ==
    /\ state[i] = Leader /\ url \in Members(i) \cup Learners(i) /\ ~Busy(i, url)
    /\ NoPendingConfigChange(i) /\ Members(i) # {url}
    /\ AppendConfig(i, Config(Members(i) \ {url}, Learners(i) \ {url}))
    /\ Begins(i, Waits(i, "remove", url, "removing"))

\* _awaitCatchUp has seen the learner near the end of the log. No change
\* that is in flight by now holds the promotion back.
Promote(i, t) ==
    /\ t.phase = "catching" /\ matchIndex[i][t.url] >= Larger(1, Len(log[i]) - 2)
    /\ AppendConfig(i, Config(Members(i) \cup {t.url}, Learners(i) \ {t.url}))
    /\ Becomes(i, t, {Waits(i, "add", t.url, "promoting")})

\* It has not within the time.
GivesUp(i, t) ==
    /\ t.phase = "catching"
    /\ AppendConfig(i, Config(Members(i), Learners(i) \ {t.url}))
    /\ Becomes(i, t, {Waits(i, "add", t.url, "undoing")})

\* The entry has committed. A server that is gone is no longer tracked, and
\* a leader that has removed itself steps down.
Completes(i, t) ==
    /\ t.at # 0 /\ commitIndex[i] >= t.at
    /\ IF t.phase = "removing"
       THEN /\ nextIndex' = [nextIndex EXCEPT ![i][t.url] = 0]
            /\ matchIndex' = [matchIndex EXCEPT ![i][t.url] = 0]
            /\ IF t.url = i THEN BecomeFollower(i, currentTerm[i])
               ELSE Becomes(i, t, {}) /\ UNCHANGED <<currentTerm, votedFor, state>>
       ELSE /\ Becomes(i, t, IF t.phase = "staging"
                             THEN {Change("add", t.url, "catching", 0)} ELSE {})
            /\ UNCHANGED <<currentTerm, votedFor, state, nextIndex, matchIndex>>
    /\ UNCHANGED <<log, commitIndex, asked, granted, leaders>>

\* It has not within the time; the entry stays in the log.
TimesOut(i, t) ==
    /\ t.at # 0 /\ commitIndex[i] < t.at
    /\ Becomes(i, t, {})
    /\ UNCHANGED <<currentTerm, votedFor, state, log, commitIndex, asked, granted,
                   nextIndex, matchIndex, leaders>>

-----------------------------------------------------------------------------
Next ==
    \/ \E i \in Server : StartElection(i)
    \/ \E i, j \in Server : \/ Vote(i, j) \/ VoteRefused(i, j)
                            \/ Replicate(i, j) \/ Mismatch(i, j) \/ Deposed(i, j)
                            \/ AddServer(i, j) \/ RemoveServer(i, j)
    \/ \E i \in Server : \E t \in changes[i] :
            Promote(i, t) \/ GivesUp(i, t) \/ Completes(i, t) \/ TimesOut(i, t)

Spec == Init /\ [][Next]_vars

-----------------------------------------------------------------------------
\* The comment on addServer: the majorities of the configurations before and
\* after a change overlap, so two disjoint majorities cannot both elect a
\* leader. There is one leader in a term.
ElectionSafety == \A a, b \in leaders : a[1] = b[1] => a = b

=============================================================================
