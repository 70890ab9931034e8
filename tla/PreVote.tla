-------------------------------- MODULE PreVote --------------------------------
(***************************************************************************)
(* When replica/raft.js holds an election: the election timer, the         *)
(* pre-vote round that precedes an election, the token that makes late     *)
(* answers of a round void, and the refusal to move away from a leader     *)
(* that was heard from a moment ago. Module Raft lets elections start at   *)
(* any time; this one says when they do.                                   *)
(*                                                                         *)
(* Logs are left out: a voter may find any candidate's log behind its own. *)
(* Time is left out but for fresh: the server has heard from a leader less *)
(* than electionTimeoutMin ago. The timer is set anew by every contact and *)
(* runs for electionTimeoutMin at least, so it fires when fresh is over.   *)
(*                                                                         *)
(* The token (_preVoteRound) is only ever compared for equality with the   *)
(* value a round was started with, so here it is the number of the round   *)
(* that still counts, or 0 once the token has moved on.                    *)
(***************************************************************************)
EXTENDS Integers, FiniteSets

CONSTANTS Server, Nil
CONSTANTS         \* bounds on the explored behaviours
    MaxTerm,      \* last term an election is started for
    MaxPolls,     \* pre-vote rounds, over all servers
    MaxPauses     \* calls of pause(), over all servers

ASSUME ServerAssumption == IsFiniteSet(Server) /\ Cardinality(Server) > 1
ASSUME NilAssumption == Nil \notin Server
ASSUME BoundAssumption == {MaxTerm, MaxPolls, MaxPauses} \subseteq Nat

Follower  == "FOLLOWER"
Candidate == "CANDIDATE"
Leader    == "LEADER"

Quorum == {Q \in SUBSET Server : 2 * Cardinality(Q) > Cardinality(Server)}

VARIABLES
    currentTerm, votedFor, state, paused, votes,
    leader,       \* leaderId
    fresh,        \* a leader was heard from within electionTimeoutMin
    token,        \* the pre-vote round that counts, 0 if none does
    poll,         \* the latest round of each server: its number, the term it
                  \* is for and who has granted it
    asks,         \* PreVote requests sent
    agrees,       \* pre-votes granted in reply
    ballots,      \* RequestVote requests sent, with the round that led to them
    grants,       \* votes granted in reply
    leaderships,  \* <<term, server>>: whose AppendEntries may arrive
    polls, pauses

vars == <<currentTerm, votedFor, state, paused, votes, leader, fresh, token,
          poll, asks, agrees, ballots, grants, leaderships, polls, pauses>>

server == <<currentTerm, votedFor, state, votes, leader>>
msgs   == <<asks, agrees, ballots, grants, leaderships>>

Poll == [round : Nat, term : Nat, granted : SUBSET Server]

Init ==
    /\ currentTerm = [i \in Server |-> 0]
    /\ votedFor = [i \in Server |-> Nil]
    /\ state = [i \in Server |-> Follower]
    /\ paused = [i \in Server |-> FALSE]
    /\ votes = [i \in Server |-> {}]
    /\ leader = [i \in Server |-> Nil]
    /\ fresh = [i \in Server |-> FALSE]
    /\ token = [i \in Server |-> 0]
    /\ poll = [i \in Server |-> [round |-> 0, term |-> 0, granted |-> {}]]
    /\ asks = {} /\ agrees = {} /\ ballots = {} /\ grants = {}
    /\ leaderships = {}
    /\ polls = 0 /\ pauses = 0

-----------------------------------------------------------------------------
\* heardFromLeaderRecently
Heard(j) == leader[j] # Nil /\ fresh[j]

\* Time passes since the last contact of j with a leader.
Expire(j) ==
    /\ fresh[j]
    /\ fresh' = [fresh EXCEPT ![j] = FALSE]
    /\ UNCHANGED <<server, paused, token, poll, msgs, polls, pauses>>

\* _becomeFollower of i in term T, behind leader l or none.
BecomeFollower(i, T, l) ==
    /\ currentTerm' = [currentTerm EXCEPT ![i] = T]
    /\ state' = [state EXCEPT ![i] = Follower]
    /\ votes' = [votes EXCEPT ![i] = {}]
    /\ leader' = [leader EXCEPT ![i] = l]
    /\ token' = [token EXCEPT ![i] = 0]

Unvoted(i, T) == IF T > currentTerm[i] THEN Nil ELSE votedFor[i]

-----------------------------------------------------------------------------
\* The pre-vote

StartPreVote(i) ==
    /\ ~paused[i] /\ state[i] # Leader /\ ~fresh[i]
    /\ polls < MaxPolls
    /\ polls' = polls + 1
    /\ token' = [token EXCEPT ![i] = polls + 1]
    /\ poll' = [poll EXCEPT ![i] = [round |-> polls + 1,
                                    term |-> currentTerm[i] + 1,
                                    granted |-> {i}]]
    /\ asks' = asks \cup {[from |-> i, term |-> currentTerm[i] + 1,
                           round |-> polls + 1]}
    /\ UNCHANGED <<server, paused, fresh, agrees, ballots, grants, leaderships,
                   pauses>>

\* handlePreVote changes no state of the voter.
GrantPreVote(j, a) ==
    /\ j # a.from
    /\ ~paused[j] /\ a.term >= currentTerm[j] + 1
    /\ state[j] # Leader /\ ~Heard(j)
    /\ agrees' = agrees \cup {[from |-> j, to |-> a.from, term |-> a.term,
                               round |-> a.round]}
    /\ UNCHANGED <<server, paused, fresh, token, poll, asks, ballots, grants,
                   leaderships, polls, pauses>>

StartElection(i) ==
    /\ currentTerm' = [currentTerm EXCEPT ![i] = @ + 1]
    /\ state' = [state EXCEPT ![i] = Candidate]
    /\ votedFor' = [votedFor EXCEPT ![i] = i]
    /\ votes' = [votes EXCEPT ![i] = {i}]
    /\ leader' = [leader EXCEPT ![i] = Nil]
    /\ ballots' = ballots \cup {[from |-> i, term |-> currentTerm[i] + 1,
                                 round |-> token[i]]}

\* Mutant: the answers of an earlier round count in the present one.
AnyRound(i, g) ==
    /\ token[i] # 0
    /\ currentTerm[i] + 1 = g.term

\* Mutant: the term is not compared again when an answer comes in.
SameRound(i, g) == token[i] = g.round

\* An answer counts while nothing has happened that moved the token or the
\* term since its round began.
Counts(i, g) ==
    /\ token[i] = g.round
    /\ currentTerm[i] + 1 = g.term

\* Each answer from the quorum's on starts the election, unless an earlier
\* one has done so.
CountPreVote(i, g) ==
    LET granted == poll[i].granted \cup {g.from}
    IN  /\ g.to = i
        /\ Counts(i, g)
        /\ state[i] # Leader
        /\ g.from \notin poll[i].granted
        /\ poll' = [poll EXCEPT ![i].granted = granted]
        /\ IF granted \in Quorum /\ ~paused[i]
           THEN /\ currentTerm[i] < MaxTerm
                /\ StartElection(i)
           ELSE UNCHANGED <<server, ballots>>
        /\ UNCHANGED <<paused, fresh, token, asks, agrees, grants, leaderships,
                       polls, pauses>>

-----------------------------------------------------------------------------
\* The election

\* handleRequestVote, unless a leader was heard from. A voter that finds the
\* candidate's log behind, or has voted, adopts the term only.
HandleRequestVote(j, b, granted) ==
    /\ j # b.from
    /\ ~paused[j] /\ b.term >= currentTerm[j]
    /\ ~Heard(j)
    /\ IF granted
       THEN /\ Unvoted(j, b.term) \in {Nil, b.from}
            /\ votedFor' = [votedFor EXCEPT ![j] = b.from]
            /\ grants' = grants \cup {[from |-> j, to |-> b.from,
                                       term |-> b.term]}
       ELSE /\ b.term > currentTerm[j]
            /\ votedFor' = [votedFor EXCEPT ![j] = Nil]
            /\ UNCHANGED grants
    /\ BecomeFollower(j, b.term, IF b.term > currentTerm[j] THEN Nil
                                 ELSE leader[j])
    /\ UNCHANGED <<paused, fresh, poll, asks, agrees, ballots, leaderships,
                   polls, pauses>>

CountVote(i, g) ==
    /\ g.to = i /\ g.from \notin votes[i]
    /\ state[i] = Candidate /\ currentTerm[i] = g.term
    /\ IF votes[i] \cup {g.from} \in Quorum
       THEN /\ state' = [state EXCEPT ![i] = Leader]
            /\ votes' = [votes EXCEPT ![i] = {}]
            /\ leader' = [leader EXCEPT ![i] = i]
            /\ leaderships' = leaderships \cup {<<currentTerm[i], i>>}
       ELSE /\ votes' = [votes EXCEPT ![i] = @ \cup {g.from}]
            /\ UNCHANGED <<state, leader, leaderships>>
    /\ UNCHANGED <<currentTerm, votedFor, paused, fresh, token, poll, asks,
                   agrees, ballots, grants, polls, pauses>>

\* Any answer may tell its receiver of a newer term: that of a pre-vote or a
\* vote it asked for, or of an AppendEntries it sent.
LearnTerm(i, j) ==
    /\ \E m \in asks \cup ballots : m.from = i
    /\ currentTerm[j] > currentTerm[i]
    /\ BecomeFollower(i, currentTerm[j], Nil)
    /\ votedFor' = [votedFor EXCEPT ![i] = Nil]
    /\ UNCHANGED <<paused, fresh, poll, msgs, polls, pauses>>

\* Mutant: only a change of term or state makes a round void.
TokenKept(j, T) ==
    IF T > currentTerm[j] \/ state[j] # Follower THEN 0 ELSE token[j]

\* Contact with a leader makes a round void: the timer's premise is gone.
TokenAfterContact(j, T) == 0

\* An AppendEntries of leadership l arrives, in time or late.
HearLeader(j, l) ==
    /\ j # l[2]
    /\ ~paused[j] /\ l[1] >= currentTerm[j]
    /\ currentTerm' = [currentTerm EXCEPT ![j] = l[1]]
    /\ votedFor' = [votedFor EXCEPT ![j] = Unvoted(j, l[1])]
    /\ state' = [state EXCEPT ![j] = Follower]
    /\ votes' = [votes EXCEPT ![j] = {}]
    /\ leader' = [leader EXCEPT ![j] = l[2]]
    /\ token' = [token EXCEPT ![j] = TokenAfterContact(j, l[1])]
    /\ fresh' = [fresh EXCEPT ![j] = TRUE]
    /\ UNCHANGED <<paused, poll, msgs, polls, pauses>>

-----------------------------------------------------------------------------
Pause(i) ==
    /\ ~paused[i] /\ pauses < MaxPauses
    /\ pauses' = pauses + 1
    /\ paused' = [paused EXCEPT ![i] = TRUE]
    /\ token' = [token EXCEPT ![i] = 0]
    /\ IF state[i] = Leader
       THEN /\ state' = [state EXCEPT ![i] = Follower]
            /\ leader' = [leader EXCEPT ![i] = Nil]
       ELSE UNCHANGED <<state, leader>>
    /\ UNCHANGED <<currentTerm, votedFor, votes, fresh, poll, msgs, polls>>

Resume(i) ==
    /\ paused[i]
    /\ paused' = [paused EXCEPT ![i] = FALSE]
    /\ state' = [state EXCEPT ![i] = Follower]
    /\ votes' = [votes EXCEPT ![i] = {}]
    /\ UNCHANGED <<currentTerm, votedFor, leader, fresh, token, poll, msgs,
                   polls, pauses>>

-----------------------------------------------------------------------------
Next ==
    \/ \E i \in Server :
          Expire(i) \/ StartPreVote(i) \/ Pause(i) \/ Resume(i)
    \/ \E j \in Server, a \in asks : GrantPreVote(j, a)
    \/ \E i \in Server, g \in agrees : CountPreVote(i, g)
    \/ \E j \in Server, b \in ballots, granted \in BOOLEAN :
          HandleRequestVote(j, b, granted)
    \/ \E i \in Server, g \in grants : CountVote(i, g)
    \/ \E i, j \in Server : LearnTerm(i, j)
    \/ \E j \in Server, l \in leaderships : HearLeader(j, l)

Spec == Init /\ [][Next]_vars

-----------------------------------------------------------------------------
\* The variables range over what the code can store in them, and votes are
\* counted for a candidate only.
TypeOK ==
    /\ currentTerm \in [Server -> Nat]
    /\ votedFor \in [Server -> Server \cup {Nil}]
    /\ state \in [Server -> {Follower, Candidate, Leader}]
    /\ paused \in [Server -> BOOLEAN]
    /\ votes \in [Server -> SUBSET Server]
    /\ leader \in [Server -> Server \cup {Nil}]
    /\ fresh \in [Server -> BOOLEAN]
    /\ token \in [Server -> Nat]
    /\ poll \in [Server -> Poll]
    /\ asks \subseteq [from : Server, term : Nat, round : Nat]
    /\ agrees \subseteq [from : Server, to : Server, term : Nat, round : Nat]
    /\ ballots \subseteq [from : Server, term : Nat, round : Nat]
    /\ grants \subseteq [from : Server, to : Server, term : Nat]
    /\ leaderships \subseteq (Nat \X Server)
    /\ polls \in Nat /\ pauses \in Nat
    /\ \A i \in Server : state[i] # Candidate => votes[i] = {}

\* A server that has heard from a leader within the minimum election timeout
\* never starts an election, not even when a majority's answers to a round it
\* began before that contact come in after it.
NoElectionAfterContact ==
    [][\A i \in Server : fresh[i] =>
          \A b \in ballots' \ ballots : b.from # i]_<<ballots, fresh>>

\* Every election was agreed to by a majority in one and the same round, for
\* the term it was held in.
ElectionsAgreed ==
    \A b \in ballots :
        {b.from} \cup {g.from : g \in {g \in agrees :
            g.to = b.from /\ g.term = b.term /\ g.round = b.round}} \in Quorum

\* One round leads to one election at most, although every answer from the
\* quorum's on starts one.
OneElectionPerRound ==
    \A a, b \in ballots : a.from = b.from /\ a.round = b.round => a = b

===============================================================================
