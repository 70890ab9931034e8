----------------------------- MODULE PreVoteProofs -----------------------------
(***************************************************************************)
(* The election discipline of PreVote, for any number of servers, terms,   *)
(* pre-vote rounds and pauses. Two invariants carry the three theorems:    *)
(* contact leaves no round that counts (ContactVoids), and every answer    *)
(* and every election belongs to the one request of its round (Rounds).    *)
(***************************************************************************)
EXTENDS PreVote, FiniteSetTheorems, TLAPS

-----------------------------------------------------------------------------
\* Between contact with a leader and the next time the timer may fire, no
\* round counts.
ContactVoids == \A i \in Server : fresh[i] => token[i] = 0

\* A round has one requester and one term; its answers, and the election it
\* leads to, are of that requester and for that term.
Rounds ==
    /\ \A a \in asks : a.round \in 1..polls
    /\ \A a, b \in asks : a.round = b.round => a = b
    /\ \A g \in agrees :
          [from |-> g.to, term |-> g.term, round |-> g.round] \in asks
    /\ ballots \subseteq asks

\* The token is the round of the latest poll unless it is void, and whoever
\* has been counted in that poll has answered it.
PollsAnswered ==
    \A i \in Server :
        /\ token[i] \in {0, poll[i].round}
        /\ poll[i].round # 0 =>
              [from |-> i, term |-> poll[i].term, round |-> poll[i].round] \in asks
        /\ \A j \in poll[i].granted \ {i} :
              [from |-> j, to |-> i, term |-> poll[i].term,
               round |-> poll[i].round] \in agrees

PreVoteInv ==
    /\ TypeOK
    /\ ContactVoids
    /\ Rounds
    /\ PollsAnswered
    /\ ElectionsAgreed

-----------------------------------------------------------------------------
\* More servers than a quorum are a quorum.
LEMMA QuorumGrows ==
    ASSUME NEW P \in Quorum, NEW Q \in SUBSET Server, P \subseteq Q
    PROVE  Q \in Quorum
<1>1. IsFiniteSet(P) /\ IsFiniteSet(Q)
  BY ServerAssumption, FS_Subset DEF Quorum
<1>2. Cardinality(P) <= Cardinality(Q)
  BY <1>1, FS_Subset
<1>3. Cardinality(P) \in Nat /\ Cardinality(Q) \in Nat /\ Cardinality(Server) \in Nat
  BY <1>1, ServerAssumption, FS_CardinalityType
<1>4. QED
  BY <1>2, <1>3 DEF Quorum

\* Before any round the invariant holds.
LEMMA InitInv == Init => PreVoteInv
BY DEF Init, PreVoteInv, TypeOK, ContactVoids, Rounds, PollsAnswered,
       ElectionsAgreed, Poll, Follower, Candidate

\* The answers to a round never disappear, so a majority's agreement to an
\* election stays on record.
LEMMA AgreementStays ==
    ASSUME TypeOK, TypeOK', ElectionsAgreed, agrees \subseteq agrees',
           ballots' = ballots
    PROVE  ElectionsAgreed'
<1> DEFINE Agreed(G, b) == {b.from} \cup {g.from : g \in {g \in G :
              g.to = b.from /\ g.term = b.term /\ g.round = b.round}}
<1> SUFFICES ASSUME NEW b \in ballots PROVE Agreed(agrees', b) \in Quorum
  BY DEF ElectionsAgreed
<1>1. Agreed(agrees, b) \in Quorum
  BY DEF ElectionsAgreed
<1>2. Agreed(agrees, b) \subseteq Agreed(agrees', b)
  OBVIOUS
<1>3. b.from \in Server /\ \A g \in agrees' : g.from \in Server
  BY DEF TypeOK
<1>4. Agreed(agrees', b) \in SUBSET Server
  BY <1>3
<1> HIDE DEF Agreed
<1>5. QED
  BY <1>1, <1>2, <1>4, QuorumGrows

\* Every handler keeps the types, and the votes of none but a candidate.
LEMMA NextType == TypeOK /\ [Next]_vars => TypeOK'
<1> SUFFICES ASSUME TypeOK, [Next]_vars PROVE TypeOK'
  OBVIOUS
<1> USE DEF TypeOK, Follower, Candidate, Leader
<1>1. ASSUME NEW i \in Server, Expire(i)
      PROVE  TypeOK'
  BY <1>1 DEF Expire, server, msgs
<1>2. ASSUME NEW i \in Server, StartPreVote(i)
      PROVE  TypeOK'
  <2>1. poll' \in [Server -> Poll] /\ token' \in [Server -> Nat] /\ polls' \in Nat
    BY <1>2 DEF StartPreVote, Poll
  <2>2. asks' \subseteq [from : Server, term : Nat, round : Nat]
    BY <1>2 DEF StartPreVote
  <2>3. QED
    BY <1>2, <2>1, <2>2 DEF StartPreVote, server
<1>3. ASSUME NEW j \in Server, NEW a \in asks, GrantPreVote(j, a)
      PROVE  TypeOK'
  <2>1. a.from \in Server /\ a.term \in Nat /\ a.round \in Nat
    OBVIOUS
  <2>2. QED
    BY <1>3, <2>1 DEF GrantPreVote, server
<1>4. ASSUME NEW i \in Server, NEW g \in agrees, CountPreVote(i, g)
      PROVE  TypeOK'
  <2>1. g.from \in Server
    OBVIOUS
  <2>2. poll' \in [Server -> Poll]
    BY <1>4, <2>1 DEF CountPreVote, Poll
  <2>3. CASE StartElection(i)
    BY <1>4, <2>2, <2>3 DEF CountPreVote, StartElection
  <2>4. CASE UNCHANGED <<server, ballots>>
    BY <1>4, <2>2, <2>4 DEF CountPreVote, server
  <2>5. QED
    BY <1>4, <2>3, <2>4 DEF CountPreVote
<1>5. ASSUME NEW j \in Server, NEW b \in ballots, NEW granted \in BOOLEAN,
             HandleRequestVote(j, b, granted)
      PROVE  TypeOK'
  <2>1. b.from \in Server /\ b.term \in Nat
    OBVIOUS
  <2>2. /\ currentTerm' \in [Server -> Nat]
        /\ state' \in [Server -> {Follower, Candidate, Leader}]
        /\ votes' \in [Server -> SUBSET Server]
        /\ leader' \in [Server -> Server \cup {Nil}]
        /\ token' \in [Server -> Nat]
        /\ \A k \in Server : state'[k] # Candidate => votes'[k] = {}
    BY <1>5, <2>1 DEF HandleRequestVote, BecomeFollower
  <2>3. votedFor' \in [Server -> Server \cup {Nil}]
    BY <1>5, <2>1 DEF HandleRequestVote
  <2>4. grants' \subseteq [from : Server, to : Server, term : Nat]
    BY <1>5, <2>1 DEF HandleRequestVote
  <2>5. QED
    BY <1>5, <2>2, <2>3, <2>4 DEF HandleRequestVote
<1>6. ASSUME NEW i \in Server, NEW g \in grants, CountVote(i, g)
      PROVE  TypeOK'
  <2>1. g.from \in Server
    OBVIOUS
  <2>2. QED
    BY <1>6, <2>1 DEF CountVote
<1>7. ASSUME NEW i \in Server, NEW j \in Server, LearnTerm(i, j)
      PROVE  TypeOK'
  BY <1>7 DEF LearnTerm, BecomeFollower, msgs
<1>8. ASSUME NEW j \in Server, NEW l \in leaderships, HearLeader(j, l)
      PROVE  TypeOK'
  <2>1. l[1] \in Nat /\ l[2] \in Server
    OBVIOUS
  <2>2. Unvoted(j, l[1]) \in Server \cup {Nil} /\ TokenAfterContact(j, l[1]) \in Nat
    BY DEF Unvoted, TokenAfterContact
  <2>3. QED
    BY <1>8, <2>1, <2>2 DEF HearLeader, msgs
<1>9. ASSUME NEW i \in Server, Pause(i)
      PROVE  TypeOK'
  <2>1. /\ state' \in [Server -> {Follower, Candidate, Leader}]
        /\ leader' \in [Server -> Server \cup {Nil}]
        /\ \A k \in Server : state'[k] # Candidate => state[k] # Candidate
    BY <1>9 DEF Pause
  <2>2. /\ paused' \in [Server -> BOOLEAN] /\ token' \in [Server -> Nat]
        /\ pauses' \in Nat
    BY <1>9 DEF Pause
  <2>3. UNCHANGED <<currentTerm, votedFor, votes, fresh, poll, msgs, polls>>
    BY <1>9 DEF Pause
  <2>4. QED
    BY <2>1, <2>2, <2>3 DEF msgs
<1>10. ASSUME NEW i \in Server, Resume(i)
       PROVE  TypeOK'
  BY <1>10 DEF Resume, msgs
<1>11. CASE UNCHANGED vars
  BY <1>11 DEF vars
<1> QED
  BY <1>1, <1>2, <1>3, <1>4, <1>5, <1>6, <1>7, <1>8, <1>9, <1>10, <1>11
     DEF Next

-----------------------------------------------------------------------------
\* A round never starts, and no election starts, at a server that has heard
\* from a leader a moment ago: contact has voided what was under way.
LEMMA NextContact ==
    ASSUME TypeOK, Rounds, ContactVoids, [Next]_vars
    PROVE  /\ ContactVoids'
           /\ \A i \in Server : fresh[i] => \A b \in ballots' \ ballots : b.from # i
<1> DEFINE Quiet == \A i \in Server :
               fresh[i] => \A b \in ballots' \ ballots : b.from # i
<1> SUFFICES ContactVoids' /\ Quiet
  OBVIOUS
<1> USE DEF ContactVoids
<1>1. ASSUME NEW i \in Server, Expire(i)
      PROVE  ContactVoids' /\ Quiet
  BY <1>1 DEF Expire, msgs, TypeOK
<1>2. ASSUME NEW i \in Server, StartPreVote(i)
      PROVE  ContactVoids' /\ Quiet
  BY <1>2 DEF StartPreVote, TypeOK
<1>3. ASSUME NEW j \in Server, NEW a \in asks, GrantPreVote(j, a)
      PROVE  ContactVoids' /\ Quiet
  BY <1>3 DEF GrantPreVote
<1>4. ASSUME NEW i \in Server, NEW g \in agrees, CountPreVote(i, g)
      PROVE  ContactVoids' /\ Quiet
  <2>1. g.round # 0 /\ token[i] = g.round
    <3>1. [from |-> g.to, term |-> g.term, round |-> g.round].round \in 1..polls
      BY DEF Rounds
    <3>2. QED
      BY <1>4, <3>1 DEF CountPreVote, Counts, TypeOK
  <2>2. ~fresh[i]
    BY <2>1
  <2>3. Quiet
    BY <1>4, <2>2 DEF CountPreVote, StartElection
  <2>4. QED
    BY <1>4, <2>3 DEF CountPreVote
<1>5. ASSUME NEW j \in Server, NEW b \in ballots, NEW granted \in BOOLEAN,
             HandleRequestVote(j, b, granted)
      PROVE  ContactVoids' /\ Quiet
  BY <1>5 DEF HandleRequestVote, BecomeFollower, TypeOK
<1>6. ASSUME NEW i \in Server, NEW g \in grants, CountVote(i, g)
      PROVE  ContactVoids' /\ Quiet
  BY <1>6 DEF CountVote
<1>7. ASSUME NEW i \in Server, NEW j \in Server, LearnTerm(i, j)
      PROVE  ContactVoids' /\ Quiet
  BY <1>7 DEF LearnTerm, BecomeFollower, msgs, TypeOK
<1>8. ASSUME NEW j \in Server, NEW l \in leaderships, HearLeader(j, l)
      PROVE  ContactVoids' /\ Quiet
  BY <1>8 DEF HearLeader, TokenAfterContact, msgs, TypeOK
<1>9. ASSUME NEW i \in Server, Pause(i) \/ Resume(i)
      PROVE  ContactVoids' /\ Quiet
  BY <1>9 DEF Pause, Resume, msgs, TypeOK
<1>10. CASE UNCHANGED vars
  BY <1>10 DEF vars
<1> QED
  BY <1>1, <1>2, <1>3, <1>4, <1>5, <1>6, <1>7, <1>8, <1>9, <1>10 DEF Next

-----------------------------------------------------------------------------
\* Every round and every election keeps to the one request it began with.
LEMMA NextRounds ==
    ASSUME TypeOK, Rounds, PollsAnswered, [Next]_vars
    PROVE  Rounds'
<1> USE DEF Rounds
<1>1. ASSUME NEW i \in Server, StartPreVote(i)
      PROVE  Rounds'
  <2> DEFINE a == [from |-> i, term |-> currentTerm[i] + 1, round |-> polls + 1]
  <2>1. asks' = asks \cup {a} /\ a.round = polls + 1 /\ polls' = polls + 1
    BY <1>1 DEF StartPreVote
  <2>2. polls \in Nat /\ \A x \in asks : x.round # a.round
    BY <2>1 DEF TypeOK
  <2>3. QED
    BY <1>1, <2>1, <2>2 DEF StartPreVote, server
<1>2. ASSUME NEW j \in Server, NEW a \in asks, GrantPreVote(j, a)
      PROVE  Rounds'
  <2>1. a = [from |-> a.from, term |-> a.term, round |-> a.round]
    BY DEF TypeOK
  <2>2. QED
    BY <1>2, <2>1 DEF GrantPreVote
<1>3. ASSUME NEW i \in Server, NEW g \in agrees, CountPreVote(i, g)
      PROVE  Rounds'
  <2>1. [from |-> i, term |-> currentTerm[i] + 1, round |-> token[i]] \in asks
    BY <1>3 DEF CountPreVote, Counts
  <2>2. ballots' \subseteq asks
    BY <1>3, <2>1 DEF CountPreVote, StartElection
  <2>3. QED
    BY <1>3, <2>2 DEF CountPreVote
<1>4. CASE UNCHANGED <<polls, asks, agrees, ballots>>
  BY <1>4
<1> QED
  BY <1>1, <1>2, <1>3, <1>4
     DEF Next, vars, Expire, HandleRequestVote, CountVote, LearnTerm,
         HearLeader, Pause, Resume, msgs

\* Whoever is counted in a poll has answered it.
LEMMA NextPolls ==
    ASSUME TypeOK, TypeOK', Rounds, PollsAnswered, [Next]_vars
    PROVE  PollsAnswered'
<1> USE DEF PollsAnswered
<1>1. ASSUME NEW i \in Server, StartPreVote(i)
      PROVE  PollsAnswered'
  BY <1>1 DEF StartPreVote, TypeOK
<1>2. ASSUME NEW j \in Server, NEW a \in asks, GrantPreVote(j, a)
      PROVE  PollsAnswered'
  BY <1>2 DEF GrantPreVote
<1>3. ASSUME NEW i \in Server, NEW g \in agrees, CountPreVote(i, g)
      PROVE  PollsAnswered'
  <2>1. g = [from |-> g.from, to |-> i, term |-> poll[i].term,
             round |-> poll[i].round]
    <3>1. [from |-> g.to, term |-> g.term, round |-> g.round] \in asks
      BY DEF Rounds
    <3>2. g.round # 0
      BY <3>1 DEF Rounds
    <3>3. g.to = i /\ token[i] = g.round
      BY <1>3 DEF CountPreVote, Counts
    <3>4. poll[i].round = g.round
      BY <3>2, <3>3
    <3>5. [from |-> i, term |-> poll[i].term, round |-> poll[i].round] \in asks
      BY <3>2, <3>4
    <3>6. poll[i].term = g.term
      BY <3>1, <3>3, <3>4, <3>5 DEF Rounds
    <3>7. QED
      BY <3>3, <3>4, <3>6 DEF TypeOK
  <2>2. poll' = [poll EXCEPT ![i].granted = @ \cup {g.from}]
    BY <1>3 DEF CountPreVote
  <2>3. UNCHANGED <<token, asks, agrees>>
    BY <1>3 DEF CountPreVote
  <2>4. ASSUME NEW k \in Server
        PROVE  /\ poll'[k].round = poll[k].round /\ poll'[k].term = poll[k].term
               /\ poll'[k].granted \subseteq
                     poll[k].granted \cup (IF k = i THEN {g.from} ELSE {})
    BY <2>2 DEF TypeOK, Poll
  <2>5. QED
    BY <2>1, <2>3, <2>4
<1>4. CASE /\ UNCHANGED <<poll, asks, agrees>>
           /\ \A i \in Server : token'[i] \in {0, token[i]}
  BY <1>4
<1>5. ASSUME NEW i \in Server, Expire(i) \/ Pause(i) \/ Resume(i)
      PROVE  PollsAnswered'
  BY <1>4, <1>5 DEF Expire, Pause, Resume, msgs, TypeOK
<1>6. ASSUME NEW j \in Server, NEW b \in ballots, NEW granted \in BOOLEAN,
             HandleRequestVote(j, b, granted)
      PROVE  PollsAnswered'
  BY <1>4, <1>6 DEF HandleRequestVote, BecomeFollower, TypeOK
<1>7. ASSUME NEW i \in Server, NEW g \in grants, CountVote(i, g)
      PROVE  PollsAnswered'
  BY <1>4, <1>7 DEF CountVote
<1>8. ASSUME NEW i \in Server, NEW j \in Server, LearnTerm(i, j)
      PROVE  PollsAnswered'
  BY <1>4, <1>8 DEF LearnTerm, BecomeFollower, msgs, TypeOK
<1>9. ASSUME NEW j \in Server, NEW l \in leaderships, HearLeader(j, l)
      PROVE  PollsAnswered'
  BY <1>4, <1>9 DEF HearLeader, TokenAfterContact, msgs, TypeOK
<1>10. CASE UNCHANGED vars
  BY <1>4, <1>10 DEF vars
<1> QED
  BY <1>1, <1>2, <1>3, <1>5, <1>6, <1>7, <1>8, <1>9, <1>10 DEF Next

\* An election starts with a majority's answers to its round on record.
LEMMA NextAgreed ==
    ASSUME PreVoteInv, TypeOK', PollsAnswered', [Next]_vars
    PROVE  ElectionsAgreed'
<1> USE DEF PreVoteInv
<1>1. ASSUME NEW i \in Server, NEW g \in agrees, CountPreVote(i, g),
             StartElection(i), poll'[i].granted \in Quorum
      PROVE  ElectionsAgreed'
  <2> DEFINE Agreed(b) == {b.from} \cup {x.from : x \in {x \in agrees :
                x.to = b.from /\ x.term = b.term /\ x.round = b.round}}
             new == [from |-> i, term |-> currentTerm[i] + 1, round |-> token[i]]
  <2>1. UNCHANGED <<agrees, token>> /\ token[i] = g.round /\ g.to = i
        /\ g.term = currentTerm[i] + 1
    BY <1>1 DEF CountPreVote, Counts
  <2>2. [from |-> i, term |-> g.term, round |-> g.round] \in asks /\ g.round # 0
    <3>1. [from |-> g.to, term |-> g.term, round |-> g.round] \in asks
      BY DEF Rounds
    <3>2. QED
      BY <2>1, <3>1 DEF Rounds
  <2>3. poll'[i].round = g.round /\ poll'[i].term = g.term
    <3>1. poll'[i].round = poll[i].round /\ poll'[i].term = poll[i].term
      BY <1>1 DEF CountPreVote, TypeOK, Poll
    <3>2. poll[i].round = g.round
      BY <2>1, <2>2 DEF PollsAnswered
    <3>3. [from |-> i, term |-> poll[i].term, round |-> poll[i].round] \in asks
      BY <2>2, <3>2 DEF PollsAnswered
    <3>4. QED
      BY <2>2, <3>1, <3>2, <3>3 DEF Rounds
  <2>4. \A j \in poll'[i].granted \ {i} :
           [from |-> j, to |-> i, term |-> g.term, round |-> g.round] \in agrees
    BY <2>1, <2>3 DEF PollsAnswered
  <2>5. poll'[i].granted \subseteq Agreed(new)
    <3>1. ASSUME NEW j \in poll'[i].granted, j # i
          PROVE  j \in Agreed(new)
      <4> DEFINE x == [from |-> j, to |-> i, term |-> g.term, round |-> g.round]
      <4>1. x \in agrees
        BY <2>4, <3>1
      <4>2. x.from = j /\ x.to = new.from /\ x.term = new.term
            /\ x.round = new.round
        BY <2>1
      <4>3. QED
        BY <4>1, <4>2
    <3>2. QED
      BY <3>1
  <2>6. \A b \in ballots \cup {new} : Agreed(b) \in SUBSET Server
    BY DEF TypeOK
  <2>7. poll'[i].granted \in Quorum
    BY <1>1
  <2>8. \A b \in ballots : Agreed(b) \in Quorum
    BY DEF ElectionsAgreed
  <2>9. ballots' = ballots \cup {new}
    BY <1>1 DEF StartElection
  <2> HIDE DEF Agreed, new
  <2>10. \A b \in ballots' : Agreed(b) \in Quorum
    BY <2>5, <2>6, <2>7, <2>8, <2>9, QuorumGrows
  <2>11. QED
    BY <2>1, <2>10 DEF ElectionsAgreed, Agreed
<1>2. CASE agrees \subseteq agrees' /\ ballots' = ballots
  BY <1>2, AgreementStays
<1>3. ASSUME NEW i \in Server, NEW g \in agrees, CountPreVote(i, g)
      PROVE  ElectionsAgreed'
  <2>1. poll'[i].granted = poll[i].granted \cup {g.from}
    BY <1>3 DEF CountPreVote, TypeOK, Poll
  <2>2. CASE StartElection(i) /\ poll[i].granted \cup {g.from} \in Quorum
    BY <1>1, <1>3, <2>1, <2>2
  <2>3. CASE UNCHANGED ballots
    BY <1>2, <1>3, <2>3 DEF CountPreVote
  <2>4. QED
    BY <1>3, <2>2, <2>3 DEF CountPreVote
<1> QED
  BY <1>2, <1>3
     DEF Next, vars, Expire, StartPreVote, GrantPreVote, HandleRequestVote,
         CountVote, LearnTerm, HearLeader, Pause, Resume, msgs

-----------------------------------------------------------------------------
\* Every step keeps the invariant.
LEMMA NextInv == PreVoteInv /\ [Next]_vars => PreVoteInv'
<1> SUFFICES ASSUME PreVoteInv, [Next]_vars PROVE PreVoteInv'
  OBVIOUS
<1>1. TypeOK'
  BY NextType DEF PreVoteInv
<1>2. ContactVoids'
  BY NextContact DEF PreVoteInv
<1>3. Rounds'
  BY NextRounds DEF PreVoteInv
<1>4. PollsAnswered'
  BY <1>1, NextPolls DEF PreVoteInv
<1>5. ElectionsAgreed'
  BY <1>1, <1>4, NextAgreed
<1> QED
  BY <1>1, <1>2, <1>3, <1>4, <1>5 DEF PreVoteInv

\* The invariant holds in every run of the election timer, pre-vote and vote
\* handlers.
THEOREM PreVoteInvariant == Spec => []PreVoteInv
<1>1. QED
  BY InitInv, NextInv, PTL DEF Spec

\* An election is always agreed to by a majority in one and the same round:
\* the token and the term that _startPreVote compares leave no way to count
\* the answers of another round.
THEOREM Agreed == Spec => []ElectionsAgreed
<1>1. PreVoteInv => ElectionsAgreed
  BY DEF PreVoteInv
<1>2. QED
  BY <1>1, PreVoteInvariant, PTL

\* A round leads to one election at most, although every answer from the
\* quorum's on calls _startElection: the first call has moved the term.
THEOREM OneElection == Spec => []OneElectionPerRound
<1>1. PreVoteInv => OneElectionPerRound
  BY DEF PreVoteInv, Rounds, OneElectionPerRound
<1>2. QED
  BY <1>1, PreVoteInvariant, PTL

\* A server that has just heard from a leader does not start an election:
\* _becomeFollower, which every AppendEntries runs, voids the round its timer
\* may have begun before.
THEOREM ContactPreventsElection == Spec => NoElectionAfterContact
<1>1. PreVoteInv /\ [Next]_vars =>
         [\A i \in Server : fresh[i] =>
             \A b \in ballots' \ ballots : b.from # i]_<<ballots, fresh>>
  BY NextContact DEF PreVoteInv
<1>2. QED
  BY <1>1, PreVoteInvariant, PTL DEF Spec, NoElectionAfterContact

=============================================================================
