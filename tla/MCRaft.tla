------------------------------- MODULE MCRaft -------------------------------
(***************************************************************************)
(* What the TLC runs of Raft share: which states they take for the same,   *)
(* and what two of them leave out to stay small.                           *)
(***************************************************************************)
EXTENDS RaftRefinement, TLC

\* Nothing tells one voter from another.
Symmetry == Permutations(Server)

\* What no action reads again makes no difference between two states, nor
\* does the history variable written, which only the proofs read:
\*   - the indexes a server keeps of its peers once it no longer leads (it
\*     sets them afresh when it leads again);
\*   - a vote its candidate has counted, or no longer stands for.
OfLeaders(f) == [i \in Server |-> IF state[i] = Leader THEN f[i] ELSE Nil]

Awaited(g) == /\ state[g.to] = Candidate /\ g.term = currentTerm[g.to]
              /\ g.from \notin votes[g.to]

View ==
    <<currentTerm, votedFor, storedCommit, log, durable, state, paused, votes,
      commitIndex, OfLeaders(nextIndex), OfLeaders(matchIndex),
      rpc, ballots, {g \in grants : Awaited(g)}, late, leaders, decided,
      restarts, pauses>>

\* The run with many terms follows leaderships one after the other: an
\* election starts when the one before it has been won and the calls of
\* earlier leaders have ended, and two servers are the ones that campaign;
\* only a server that has led is paused.
Orderly ==
    /\ \A i, j \in Server : rpc[i][j] # Nil =>
          state[i] = Leader /\ \A b \in ballots : b.term <= currentTerm[i]
    /\ \A a, b \in ballots : /\ a.term = b.term => a = b
                             /\ a.term < b.term => <<a.term, a.from>> \in leaders
    /\ Cardinality({b.from : b \in ballots}) <= 2
    /\ \A i \in Server : paused[i] => \E l \in leaders : l[2] = i

\* The run with crashes has late requests, or a pause, but not both at once.
LateApart == pauses > 0 => late = {}

=============================================================================
