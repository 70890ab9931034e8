---------------------------- MODULE RaftRefinement ----------------------------
(***************************************************************************)
(* Raft implements ReplicatedLog: chosen is what leaders have committed,   *)
(* and what a server has applied is the part of its log up to its commit   *)
(* index (_applyCommittedEntries runs in the turn that advances it).       *)
(***************************************************************************)
EXTENDS Raft, FiniteSetsExt

\* Had two leaders decided differently on an index, one of them would now
\* apply an entry that is not the chosen one.
Chosen ==
    [k \in 1..Max({d.index : d \in decided} \cup {0}) |->
        (CHOOSE d \in decided : d.index = k).entry]

Applied == [i \in Server |-> SubSeq(log[i], 1, commitIndex[i])]

Abstract == INSTANCE ReplicatedLog WITH chosen <- Chosen, applied <- Applied

\* State machine safety (checkCommittedPrefix of sim/cluster.js), over all
\* time and restarts: every server applies, in order, the one sequence of
\* entries that leaders committed.
ImplementsReplicatedLog == Abstract!Spec

===============================================================================
