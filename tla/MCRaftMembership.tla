-------------------------- MODULE MCRaftMembership --------------------------
(***************************************************************************)
(* Four servers, all of them voters at the beginning, for TLC. The run     *)
(* looks for one kind of history and cuts the others off: a term has one   *)
(* candidate and, before the next one begins, its leader; only in the last *)
(* one does everybody campaign. Whatever it finds is a behaviour of Spec.  *)
(***************************************************************************)
EXTENDS RaftMembership, TLC

\* Nothing tells one server from another.
Symmetry == Permutations(Server)

InTerm(t) == {i \in Server : state[i] # Follower /\ currentTerm[i] = t}

Orderly ==
    \A t \in 1..(MaxTerm - 1) :
        /\ Cardinality(InTerm(t)) <= 1
        /\ InTerm(t + 1) # {} => \E l \in leaders : l[1] = t

\* Two states that differ in what a server remembers of its votes and of its
\* peers while it does not stand or lead are explored once.
OfLeaders(f) == [i \in Server |-> IF state[i] = Leader THEN f[i] ELSE Nil]
OfCandidates(f) == [i \in Server |-> IF state[i] = Candidate THEN f[i] ELSE Nil]

View ==
    <<currentTerm, votedFor, state, log, commitIndex, OfCandidates(asked),
      OfCandidates(granted), OfLeaders(nextIndex), OfLeaders(matchIndex),
      changes, leaders>>

=============================================================================
