------------------------------ MODULE KeyValue ------------------------------
(***************************************************************************)
(* replica/state-machine.js: the keyspace that committed entries are       *)
(* applied to, its leases and its events. Every change has a revision of   *)
(* its own and one event, so that event r is that of revision r, and a     *)
(* replica that has applied less of the log is one whose events are a      *)
(* prefix of these.                                                        *)
(*                                                                         *)
(* Entries are applied one at a time. The clock of the entries is          *)
(* abstract: a lease may lapse before any entry, the way it does on a      *)
(* tick, whatever renewals the holder has sent; a renewal changes nothing  *)
(* else.                                                                   *)
(***************************************************************************)
EXTENDS Integers, Sequences

CONSTANTS
    Key,
    Value,      \* what keys hold; the holders of leases among them
    Nil

VARIABLES
    store,      \* the record of each key, or Nil
    leases,     \* the holder of each leased key, or Nil
    events      \* event r is the change of revision r

keyspace == <<store, leases, events>>

Entry == [value : Value, rev : Nat, lease : Value \cup {Nil}]

ASSUME NilAssumption == Nil \notin Value /\ Nil \notin Entry

Event == [key : Key, value : Value \cup {Nil}]

revision == Len(events)

Command == [op : {"set", "delete", "cas", "acquire", "release"},
            key : Key, value : Value \cup {Nil}, rev : Nat]

KeyspaceInit ==
    /\ store = [k \in Key |-> Nil]
    /\ leases = [k \in Key |-> Nil]
    /\ events = <<>>

-----------------------------------------------------------------------------
RevOf(k) == IF store[k] = Nil THEN 0 ELSE store[k].rev

\* Mutant: a change of the keyspace that no watcher is told of.
Untold(k, v) == IF v = Nil THEN events ELSE Append(events, [key |-> k, value |-> v])

\* _emit
Told(k, v) == Append(events, [key |-> k, value |-> v])

\* _put. The lease a key may have is not touched.
Put(k, v, lease) ==
    /\ store' = [store EXCEPT ![k] =
                    [value |-> v, rev |-> revision + 1, lease |-> lease]]
    /\ events' = Told(k, v)

\* _remove, and what _expireLeases does with a lapsed lease: key and lease go
\* together, with one event.
Remove(k) ==
    /\ store' = [store EXCEPT ![k] = Nil]
    /\ leases' = [leases EXCEPT ![k] = Nil]
    /\ events' = IF store[k] = Nil THEN events ELSE Told(k, Nil)

Lapse(k) == leases[k] # Nil /\ Remove(k)

-----------------------------------------------------------------------------
\* Mutant: the value is compared and not the revision, so that a value that
\* has come back passes for one that never changed.
MatchesValue(k, rev) ==
    IF rev = 0 THEN store[k] = Nil
    ELSE store[k] # Nil /\ store[k].value = events[rev].value

\* A swap with expectRev; 0 means that the key must not exist.
Matches(k, rev) == RevOf(k) = rev

Grantable(k, h) == leases[k] \in {Nil, h}

\* Mutant: anybody can release a lease.
ReleasableAlways(k, h) == TRUE

Releasable(k, h) == leases[k] \in {Nil, h}

\* The answer to a command: ok, or refused without an effect.
Accepts(c) ==
    CASE c.op = "cas"     -> Matches(c.key, c.rev)
      [] c.op = "acquire" -> Grantable(c.key, c.value)
      [] c.op = "release" -> Releasable(c.key, c.value)
      [] OTHER            -> TRUE

\* A swap to null is a conditional delete.
Deletes(c) == c.op = "delete" \/ (c.op = "cas" /\ c.value = Nil)

Apply(c) ==
    \/ /\ ~Accepts(c)
       /\ UNCHANGED keyspace
    \/ /\ Accepts(c) /\ Deletes(c)
       /\ Remove(c.key)
    \/ /\ Accepts(c) /\ ~Deletes(c) /\ c.op \in {"set", "cas"}
       /\ Put(c.key, c.value, Nil)
       /\ UNCHANGED leases
    \/ /\ Accepts(c) /\ c.op = "acquire"
       /\ Put(c.key, c.value, c.value)
       /\ leases' = [leases EXCEPT ![c.key] = c.value]
    \/ /\ Accepts(c) /\ c.op = "release"
       /\ IF leases[c.key] = Nil THEN UNCHANGED keyspace ELSE Remove(c.key)

-----------------------------------------------------------------------------
\* The last revision up to r at which k changed; 0 if it never did.
ChangeOf(k, r) ==
    LET changes == {n \in 1..r : events[n].key = k}
    IN  IF changes = {} THEN 0
        ELSE CHOOSE n \in changes : \A m \in changes : m <= n

\* What a replica that has applied the first r revisions answers for k.
ValueAt(k, r) == IF ChangeOf(k, r) = 0 THEN Nil ELSE events[ChangeOf(k, r)].value

KeyspaceTypeOK ==
    /\ store \in [Key -> Entry \cup {Nil}]
    /\ leases \in [Key -> Value \cup {Nil}]
    /\ events \in Seq(Event)

\* A watcher that follows the events knows the keyspace: the last event of a
\* key has its value, and the revision that a swap must name. Leases that
\* lapse, conditional deletes and refused commands included.
EventsTellStore ==
    \A k \in Key :
        /\ ValueAt(k, revision) = (IF store[k] = Nil THEN Nil ELSE store[k].value)
        /\ store[k] # Nil => store[k].rev = ChangeOf(k, revision)

=============================================================================
