----------------------------- MODULE ReplicatedLog -----------------------------
(***************************************************************************)
(* What the consensus engine promises to the state machines on top of it:  *)
(* there is one sequence of chosen entries, it only grows, and every       *)
(* server applies a prefix of it, in order. A server that restarts may     *)
(* have to apply again what it had applied before.                         *)
(***************************************************************************)
EXTENDS Naturals, Sequences

CONSTANTS Server, Entry

VARIABLES
    chosen,     \* the entries chosen so far
    applied     \* what each server has applied since it last started

vars == <<chosen, applied>>

IsPrefixOf(s, t) == Len(s) <= Len(t) /\ s = SubSeq(t, 1, Len(s))

Init == chosen = <<>> /\ applied = [i \in Server |-> <<>>]

\* Entries are chosen; the server that chooses them applies them at once.
Choose(i) ==
    /\ chosen' \in Seq(Entry) \ {chosen}
    /\ IsPrefixOf(chosen, chosen')
    /\ applied' = [applied EXCEPT ![i] = chosen']

Apply(i) ==
    /\ applied'[i] # applied[i]
    /\ IsPrefixOf(applied[i], applied'[i]) /\ IsPrefixOf(applied'[i], chosen)
    /\ applied' = [applied EXCEPT ![i] = applied'[i]]
    /\ UNCHANGED chosen

Restart(i) ==
    /\ IsPrefixOf(applied'[i], applied[i])
    /\ applied' = [applied EXCEPT ![i] = applied'[i]]
    /\ UNCHANGED chosen

Next == \E i \in Server : Choose(i) \/ Apply(i) \/ Restart(i)

Spec == Init /\ [][Next]_vars

===============================================================================
