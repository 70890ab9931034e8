------------------------------- MODULE RaftLog -------------------------------
(***************************************************************************)
(* The functions on logs that replica/raft.js computes inside its RPC      *)
(* handlers: the up-to-date test of the vote handlers, the slice of the    *)
(* log one AppendEntries carries, and the truncate-and-append loop and the *)
(* conflict hint of the AppendEntries handler.                             *)
(*                                                                         *)
(* The code numbers entries from 0 and uses -1 for "nothing"; here a log   *)
(* is a sequence, numbered from 1, and 0 is "nothing": every index, match  *)
(* index, next index and commit index is the code's plus one.              *)
(***************************************************************************)
EXTENDS Integers, Sequences

\* An entry is a record with at least a field term.

Smaller(a, b) == IF a <= b THEN a ELSE b
Larger(a, b)  == IF a >= b THEN a ELSE b

TermAt(log, k) == IF k = 0 THEN 0 ELSE log[k].term

LastTerm(log) == TermAt(log, Len(log))

\* Mutant: any candidate's log will do.
AnyLog(lastTerm, lastIndex, log) == TRUE

\* A candidate whose last entry is (lastTerm, lastIndex) is at least as
\* up to date as log.
UpToDate(lastTerm, lastIndex, log) ==
    \/ lastTerm > LastTerm(log)
    \/ lastTerm = LastTerm(log) /\ lastIndex >= Len(log)

\* At most max entries of log from position next on.
Batch(log, next, max) == SubSeq(log, next, Smaller(Len(log), next + max - 1))

\* Mutant: the preceding entry need only exist.
LongEnough(log, prev, prevTerm) == prev <= Len(log)

\* The log holds the entry that precedes the new ones.
PrevMatches(log, prev, prevTerm) ==
    prev <= Len(log) /\ TermAt(log, prev) = prevTerm

\* Positions of entries at which log holds an entry of another term. Only
\* a difference of terms truncates: a shorter request never does.
Clashes(log, prev, entries) ==
    {k \in 1..Len(entries) : /\ prev + k <= Len(log)
                             /\ log[prev + k].term # entries[k].term}

\* Mutant: whatever follows prev is replaced by the request's entries.
KeptToPrev(log, prev, entries) == prev

\* How many entries of log survive the merge, and the log after it.
Kept(log, prev, entries) ==
    LET clashes == Clashes(log, prev, entries)
    IN  IF clashes = {}
        THEN Len(log)
        ELSE prev + (CHOOSE k \in clashes : \A m \in clashes : k <= m) - 1

Merge(log, prev, entries) ==
    LET kept == Kept(log, prev, entries)
    IN  SubSeq(log, 1, kept) \o SubSeq(entries, kept - prev + 1, Len(entries))

\* What a follower that cannot match prev tells the leader to try next:
\* the end of its log, or the first entry of the run of entries that have
\* the conflicting term.
ConflictHint(log, prev) ==
    IF prev > Len(log)
    THEN Len(log) + 1
    ELSE CHOOSE k \in 1..prev :
            /\ \A m \in k..prev : log[m].term = log[prev].term
            /\ k = 1 \/ log[k - 1].term # log[prev].term

\* Mutant: the next index is not kept inside the log.
BackedFreely(prev, hint) == IF hint > prev THEN prev ELSE hint

\* The next index of a leader whose request at prev was refused with hint:
\* it goes back at least one entry, and further when the hint says so.
Backed(prev, hint) == Larger(1, IF hint > prev THEN prev ELSE hint)

=============================================================================
