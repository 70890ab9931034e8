----------------------------- MODULE RolloutProofs -----------------------------
(***************************************************************************)
(* The rollout, for any number of controllers, pods, versions and faults:  *)
(* the keyspace and its events agree, a run flips at most once and only to *)
(* a version that is loaded, it holds its lock, and pods follow the flips. *)
(* The invariant says what the writes still in flight may do (LateInv):    *)
(* everything else is about what an applied write changes (Applying).      *)
(***************************************************************************)
EXTENDS Rollout, FiniteSetTheorems, SequenceTheorems, TLAPS

-----------------------------------------------------------------------------
\* The keyspace

\* ChangeOf, of any sequence of events.
LastChange(es, k, r) ==
    LET changes == {n \in 1..r : es[n].key = k}
    IN  IF changes = {} THEN 0
        ELSE CHOOSE n \in changes : \A m \in changes : m <= n

LastValue(es, k, r) ==
    IF LastChange(es, k, r) = 0 THEN Nil ELSE es[LastChange(es, k, r)].value

IsLast(es, k, r, n) ==
    /\ n \in 0..r
    /\ n # 0 => es[n].key = k
    /\ \A m \in (n + 1)..r : es[m].key # k

ChangesKnown ==
    \A k \in Key : \A r \in 0..revision : IsLast(events, k, r, LastChange(events, k, r))

\* The events and the keyspace, as far as they do not depend on who writes.
StoreInv == KeyspaceTypeOK /\ ChangesKnown /\ EventsTellStore

\* What was answered as of a revision stays so.
Grown ==
    /\ revision <= revision'
    /\ \A k \in Key : \A r \in 0..revision :
          ChangeOf(k, r)' = ChangeOf(k, r) /\ ValueAt(k, r)' = ValueAt(k, r)

-----------------------------------------------------------------------------
\* The definition of the last change picks it.
LEMMA LastIsUnique ==
    ASSUME NEW es, NEW k, NEW r \in Nat, NEW n, IsLast(es, k, r, n)
    PROVE  LastChange(es, k, r) = n
<1> DEFINE C == {m \in 1..r : es[m].key = k}
<1>1. CASE n = 0
  <2>1. C = {}
    BY <1>1 DEF IsLast
  <2>2. QED
    BY <1>1, <2>1 DEF LastChange
<1>2. CASE n # 0
  <2>1. n \in C /\ n \in Nat
    BY <1>2 DEF IsLast
  <2>2. \A m \in C : m <= n
    BY <1>2 DEF IsLast
  <2>3. \A x \in C : (\A m \in C : m <= x) => x = n
    <3> SUFFICES ASSUME NEW x \in C, \A m \in C : m <= x PROVE x = n
      OBVIOUS
    <3>1. n <= x /\ x <= n /\ x \in Nat
      BY <2>1, <2>2
    <3>2. QED
      BY <2>1, <3>1
  <2>4. (CHOOSE x \in C : \A m \in C : m <= x) = n
    <3> HIDE DEF C
    <3>1. QED
      BY <2>1, <2>2, <2>3, Zenon
  <2>5. QED
    BY <2>1, <2>4 DEF LastChange
<1>3. QED
  BY <1>1, <1>2

\* An appended event is the last change of its key and of no other.
LEMMA LastAfterAppend ==
    ASSUME NEW es \in Seq(Event), NEW e \in Event, NEW k \in Key,
           \A r \in 0..Len(es) : IsLast(es, k, r, LastChange(es, k, r)),
           NEW r \in 0..(Len(es) + 1)
    PROVE  LET fs == Append(es, e)
               n  == IF r <= Len(es) THEN LastChange(es, k, r)
                     ELSE IF e.key = k THEN r ELSE LastChange(es, k, Len(es))
           IN  IsLast(fs, k, r, n) /\ LastChange(fs, k, r) = n
<1> DEFINE fs == Append(es, e)
           n  == IF r <= Len(es) THEN LastChange(es, k, r)
                 ELSE IF e.key = k THEN r ELSE LastChange(es, k, Len(es))
<1>1. /\ \A i \in 1..Len(es) : fs[i] = es[i]
      /\ fs[Len(es) + 1] = e
      /\ Len(es) \in Nat
  BY AppendProperties, LenProperties
<1> HIDE DEF fs
<1>2. IsLast(fs, k, r, n)
  <2>1. CASE r <= Len(es)
    <3>1. IsLast(es, k, r, n) /\ r \in Nat
      BY <1>1, <2>1
    <3> HIDE DEF n
    <3>2. \A i \in 1..r : fs[i] = es[i]
      BY <1>1, <2>1, <3>1
    <3>3. QED
      BY <3>1, <3>2 DEF IsLast
  <2>2. CASE r > Len(es) /\ e.key = k
    <3>1. n = r /\ r = Len(es) + 1
      BY <1>1, <2>2
    <3>2. QED
      BY <1>1, <2>2, <3>1 DEF IsLast
  <2>3. CASE r > Len(es) /\ e.key # k
    <3>1. r = Len(es) + 1 /\ n = LastChange(es, k, Len(es))
      BY <1>1, <2>3
    <3>2. IsLast(es, k, Len(es), n)
      BY <1>1, <3>1
    <3>3. QED
      BY <1>1, <2>3, <3>1, <3>2 DEF IsLast
  <2>4. QED
    BY <1>1, <2>1, <2>2, <2>3
<1>3. LastChange(fs, k, r) = n
  BY <1>1, <1>2, LastIsUnique
<1>4. QED
  BY <1>2, <1>3 DEF fs

\* Where the last change of a key is, and what a swap may expect.
LEMMA ChangeInRange ==
    ASSUME StoreInv, NEW k \in Key, NEW r \in 0..revision
    PROVE  /\ revision \in Nat
           /\ ChangeOf(k, r) = LastChange(events, k, r)
           /\ ChangeOf(k, r) \in 0..r
           /\ ChangeOf(k, r) # 0 => events[ChangeOf(k, r)] \in Event
           /\ ValueAt(k, r) \in Value \cup {Nil}
           /\ RevOf(k) \in 0..revision
<1>1. events \in Seq(Event) /\ revision \in Nat
  BY LenProperties DEF StoreInv, KeyspaceTypeOK, revision
<1>2. \A x \in 0..revision : ChangeOf(k, x) = LastChange(events, k, x) /\ ChangeOf(k, x) \in 0..x
  BY DEF StoreInv, ChangesKnown, IsLast, ChangeOf, LastChange
<1>3. ChangeOf(k, r) # 0 => events[ChangeOf(k, r)] \in Event
  BY <1>1, <1>2, ElementOfSeq DEF revision
<1>4. RevOf(k) \in 0..revision
  <2>1. revision \in 0..revision
    BY <1>1
  <2>2. ChangeOf(k, revision) \in 0..revision
    BY <1>2, <2>1
  <2>3. store[k] # Nil => store[k].rev = ChangeOf(k, revision)
    BY DEF StoreInv, EventsTellStore
  <2>4. QED
    BY <1>1, <2>2, <2>3 DEF RevOf
<1>5. QED
  BY <1>1, <1>2, <1>3, <1>4 DEF ValueAt, Event

\* A change of a key with its event, a put or a removal, keeps the keyspace
\* and the events together.
LEMMA ChangeKeeps ==
    ASSUME StoreInv, NEW k \in Key, NEW v \in Value \cup {Nil},
           NEW e \in Entry \cup {Nil},
           e = Nil => v = Nil,
           e # Nil => e.value = v /\ e.rev = revision + 1,
           store' = [store EXCEPT ![k] = e], events' = Told(k, v),
           leases' \in [Key -> Value \cup {Nil}]
    PROVE  StoreInv' /\ Grown /\ revision' = revision + 1
<1> DEFINE ev == [key |-> k, value |-> v]
<1>0. revision \in Nat
  BY LenProperties DEF StoreInv, KeyspaceTypeOK, revision
<1>1. /\ events \in Seq(Event) /\ ev \in Event /\ events' = Append(events, ev)
      /\ revision \in Nat
  BY <1>0 DEF StoreInv, KeyspaceTypeOK, Event, Told
<1>2. /\ events' \in Seq(Event) /\ revision' = revision + 1
      /\ \A i \in 1..revision : events'[i] = events[i]
      /\ events'[revision + 1] = ev
  BY <1>1, AppendProperties DEF revision
<1>3. KeyspaceTypeOK'
  BY <1>2 DEF StoreInv, KeyspaceTypeOK
<1>4. ASSUME NEW j \in Key, NEW r \in 0..(revision + 1)
      PROVE  LET n == IF r <= revision THEN LastChange(events, j, r)
                      ELSE IF ev.key = j THEN r ELSE LastChange(events, j, revision)
             IN  IsLast(events', j, r, n) /\ LastChange(events', j, r) = n
  <2>1. \A x \in 0..revision : IsLast(events, j, x, LastChange(events, j, x))
    BY DEF StoreInv, ChangesKnown
  <2>2. QED
    BY <1>1, <2>1, LastAfterAppend DEF revision
<1>5. ChangesKnown'
  BY <1>2, <1>4 DEF ChangesKnown
<1>6. Grown
  <2> SUFFICES ASSUME NEW j \in Key, NEW r \in 0..revision
               PROVE  ChangeOf(j, r)' = ChangeOf(j, r) /\ ValueAt(j, r)' = ValueAt(j, r)
    BY <1>1, <1>2 DEF Grown
  <2>1. LastChange(events', j, r) = LastChange(events, j, r)
    BY <1>1, <1>4
  <2>2. ChangeOf(j, r)' = LastChange(events', j, r) /\ ChangeOf(j, r) = LastChange(events, j, r)
    BY DEF ChangeOf, LastChange
  <2>3. ChangeOf(j, r) \in 0..r
    BY ChangeInRange
  <2>4. QED
    <3>1. LastValue(events', j, r) = LastValue(events, j, r)
      <4> DEFINE n == LastChange(events, j, r)
      <4>1. n # 0 => n \in 1..revision
        BY <1>0, <2>2, <2>3
      <4>2. n # 0 => events'[n] = events[n]
        BY <1>2, <4>1
      <4> HIDE DEF n
      <4>3. QED
        BY <2>1, <4>2 DEF LastValue, n
    <3>2. ValueAt(j, r)' = LastValue(events', j, r) /\ ValueAt(j, r) = LastValue(events, j, r)
      BY DEF ValueAt, ChangeOf, LastValue, LastChange
    <3>3. QED
      BY <2>1, <2>2, <3>1, <3>2
<1>7. EventsTellStore'
  <2> SUFFICES ASSUME NEW j \in Key
               PROVE  /\ ValueAt(j, revision)' =
                            (IF store'[j] = Nil THEN Nil ELSE store'[j].value)
                      /\ store'[j] # Nil => store'[j].rev = ChangeOf(j, revision)'
    BY DEF EventsTellStore
  <2>1. /\ ChangeOf(j, revision)' = LastChange(events', j, revision + 1)
        /\ ValueAt(j, revision)' = LastValue(events', j, revision + 1)
    BY <1>2 DEF ChangeOf, ValueAt, LastChange, LastValue
  <2>2. CASE j = k
    <3>1. ChangeOf(j, revision)' = revision + 1
      BY <1>1, <1>4, <2>1, <2>2
    <3>2. ValueAt(j, revision)' = v
      <4>1. LastChange(events', j, revision + 1) = revision + 1 /\ revision + 1 # 0
        BY <1>0, <2>1, <3>1
      <4>2. events'[revision + 1].value = v
        BY <1>2
      <4>3. QED
        BY <2>1, <4>1, <4>2 DEF LastValue
    <3>3. store'[j] = e
      BY <2>2 DEF StoreInv, KeyspaceTypeOK
    <3>4. QED
      BY <1>2, <3>1, <3>2, <3>3
  <2>3. CASE j # k
    <3>1. ChangeOf(j, revision)' = ChangeOf(j, revision)
      <4>1. LastChange(events', j, revision + 1) = LastChange(events, j, revision)
        BY <1>1, <1>4, <2>3
      <4>2. QED
        BY <2>1, <4>1 DEF ChangeOf, LastChange
    <3>2. ChangeOf(j, revision) \in 0..revision
      BY <1>1, ChangeInRange
    <3>3. ValueAt(j, revision)' = ValueAt(j, revision)
      <4> DEFINE n == ChangeOf(j, revision)
      <4>1. LastChange(events', j, revision + 1) = n
        BY <2>1, <3>1
      <4>2. n # 0 => events'[n] = events[n]
        BY <1>0, <1>2, <3>2
      <4> HIDE DEF n
      <4>3. QED
        BY <2>1, <4>1, <4>2 DEF ValueAt, LastValue, n
    <3>4. store'[j] = store[j]
      BY <2>3 DEF StoreInv, KeyspaceTypeOK
    <3>5. QED
      BY <3>1, <3>3, <3>4 DEF StoreInv, EventsTellStore
  <2>4. QED
    BY <2>2, <2>3
<1>8. QED
  BY <1>2, <1>3, <1>5, <1>6, <1>7 DEF StoreInv

\* So does a step that leaves the keyspace alone.
LEMMA SameKeyspace ==
    ASSUME StoreInv, UNCHANGED keyspace
    PROVE  StoreInv' /\ Grown /\ revision' = revision
<1>1. store' = store /\ leases' = leases /\ events' = events /\ revision \in Nat
  BY LenProperties DEF keyspace, StoreInv, KeyspaceTypeOK, revision
<1>2. revision' = revision
  BY <1>1 DEF revision
<1>3. Grown
  BY <1>1, <1>2 DEF Grown, ValueAt, ChangeOf
<1>4. KeyspaceTypeOK' /\ ChangesKnown'
  BY <1>1, <1>2 DEF StoreInv, KeyspaceTypeOK, ChangesKnown
<1>5. EventsTellStore'
  <2> SUFFICES ASSUME NEW k \in Key
               PROVE  /\ ValueAt(k, revision)' = ValueAt(k, revision)
                      /\ ChangeOf(k, revision)' = ChangeOf(k, revision)
    BY <1>1 DEF StoreInv, EventsTellStore
  <2>1. QED
    BY <1>1, <1>2 DEF ValueAt, ChangeOf
<1>6. QED
  BY <1>2, <1>3, <1>4, <1>5 DEF StoreInv

\* The effect of a write on its key and on the events.
Effect(k, v) ==
    /\ Grown
    /\ events' \in {events, Append(events, [key |-> k, value |-> v])}
    /\ \A j \in Key \ {k} : store'[j] = store[j] /\ leases'[j] = leases[j]

\* A removal, of a key that is there or is not.
LEMMA RemoveKeeps ==
    ASSUME StoreInv, NEW k \in Key, Remove(k)
    PROVE  StoreInv' /\ Effect(k, Nil)
<1>1. store \in [Key -> Entry \cup {Nil}] /\ leases \in [Key -> Value \cup {Nil}]
  BY DEF StoreInv, KeyspaceTypeOK
<1>2. /\ store' = [store EXCEPT ![k] = Nil]
      /\ leases' \in [Key -> Value \cup {Nil}]
      /\ \A j \in Key \ {k} : store'[j] = store[j] /\ leases'[j] = leases[j]
  BY <1>1 DEF Remove
<1>3. CASE store[k] # Nil
  <2>1. events' = Told(k, Nil)
    BY <1>3 DEF Remove
  <2>2. StoreInv' /\ Grown
    BY <1>2, <2>1, ChangeKeeps
  <2>3. QED
    BY <1>2, <2>1, <2>2 DEF Effect, Told
<1>4. CASE store[k] = Nil
  <2>1. store' = store /\ events' = events
    BY <1>1, <1>2, <1>4 DEF Remove
  <2>2. revision' = revision /\ revision \in Nat
    BY <2>1, LenProperties DEF revision, StoreInv, KeyspaceTypeOK
  <2>3. Grown
    BY <2>1, <2>2 DEF Grown, ValueAt, ChangeOf
  <2>4. KeyspaceTypeOK' /\ ChangesKnown'
    BY <1>2, <2>1, <2>2 DEF StoreInv, KeyspaceTypeOK, ChangesKnown
  <2>5. EventsTellStore'
    <3> SUFFICES ASSUME NEW j \in Key
                 PROVE  /\ ValueAt(j, revision)' = ValueAt(j, revision)
                        /\ ChangeOf(j, revision)' = ChangeOf(j, revision)
      BY <2>1 DEF StoreInv, EventsTellStore
    <3>1. QED
      BY <2>1, <2>2 DEF ValueAt, ChangeOf
  <2>6. QED
    BY <1>2, <2>1, <2>3, <2>4, <2>5 DEF Effect, StoreInv
<1>5. QED
  BY <1>3, <1>4

\* What a put writes is a record.
LEMMA PutKeeps ==
    ASSUME StoreInv, NEW k \in Key, NEW v \in Value, NEW lease \in Value \cup {Nil},
           Put(k, v, lease), leases' \in [Key -> Value \cup {Nil}],
           \A j \in Key \ {k} : leases'[j] = leases[j]
    PROVE  StoreInv' /\ Effect(k, v) /\ revision' = revision + 1
           /\ RevOf(k)' = revision + 1
<1> DEFINE e == [value |-> v, rev |-> revision + 1, lease |-> lease]
<1>1. revision \in Nat /\ store \in [Key -> Entry \cup {Nil}]
  BY LenProperties DEF revision, StoreInv, KeyspaceTypeOK
<1>2. e \in Entry /\ e # Nil /\ e.value = v /\ e.rev = revision + 1
  BY <1>1, NilAssumption DEF Entry
<1>3. store' = [store EXCEPT ![k] = e] /\ events' = Told(k, v)
  BY DEF Put
<1> HIDE DEF e
<1>4. StoreInv' /\ Grown /\ revision' = revision + 1
  BY <1>2, <1>3, ChangeKeeps
<1>5. store'[k] = e /\ \A j \in Key \ {k} : store'[j] = store[j]
  BY <1>1, <1>3
<1>6. RevOf(k)' = revision + 1
  BY <1>2, <1>5 DEF RevOf
<1>7. QED
  BY <1>3, <1>4, <1>5, <1>6 DEF Effect, Told

\* What a command does: nothing when it is refused, and otherwise a change of
\* its key to its value or to nothing.
LEMMA ApplyKeeps ==
    ASSUME StoreInv, NEW c \in Command, Apply(c),
           c.op \in {"set", "acquire"} => c.value # Nil
    PROVE  /\ StoreInv'
           /\ ~Accepts(c) => UNCHANGED keyspace
           /\ Effect(c.key, c.value) \/ Effect(c.key, Nil)
           /\ c.op \in {"set", "cas", "acquire"} /\ c.value # Nil =>
                 /\ Effect(c.key, c.value)
                 /\ Accepts(c) => RevOf(c.key)' = revision + 1 /\ revision' = revision + 1
           /\ c.op = "acquire" /\ Accepts(c) => leases'[c.key] = c.value
           /\ c.op = "release" => (leases[c.key] # Nil /\ Accepts(c)) \/ UNCHANGED keyspace
<1>1. /\ c.key \in Key /\ c.value \in Value \cup {Nil}
      /\ c.op \in {"set", "delete", "cas", "acquire", "release"}
      /\ leases \in [Key -> Value \cup {Nil}]
  BY DEF Command, StoreInv, KeyspaceTypeOK
<1>2. ASSUME UNCHANGED keyspace PROVE Effect(c.key, c.value) /\ Effect(c.key, Nil) /\ StoreInv'
  BY <1>1, <1>2, SameKeyspace DEF Effect, keyspace
<1>3. CASE ~Accepts(c) /\ UNCHANGED keyspace
  BY <1>2, <1>3 DEF keyspace
<1>4. CASE Accepts(c) /\ Deletes(c) /\ Remove(c.key)
  <2>1. StoreInv' /\ Effect(c.key, Nil)
    BY <1>1, <1>4, RemoveKeeps
  <2>2. c.op = "delete" \/ (c.op = "cas" /\ c.value = Nil)
    BY <1>4 DEF Deletes
  <2>3. QED
    BY <1>4, <2>1, <2>2
<1>5. CASE /\ Accepts(c) /\ ~Deletes(c) /\ c.op \in {"set", "cas"}
           /\ Put(c.key, c.value, Nil) /\ UNCHANGED leases
  <2>1. c.value \in Value
    BY <1>1, <1>5 DEF Deletes
  <2>2. /\ StoreInv' /\ Effect(c.key, c.value) /\ revision' = revision + 1
        /\ RevOf(c.key)' = revision + 1
    BY <1>1, <1>5, <2>1, PutKeeps
  <2>3. QED
    BY <1>5, <2>2
<1>6. CASE /\ Accepts(c) /\ c.op = "acquire" /\ Put(c.key, c.value, c.value)
           /\ leases' = [leases EXCEPT ![c.key] = c.value]
  <2>1. c.value \in Value
    BY <1>1, <1>6
  <2>2. /\ leases' \in [Key -> Value \cup {Nil}] /\ leases'[c.key] = c.value
        /\ \A j \in Key \ {c.key} : leases'[j] = leases[j]
    BY <1>1, <1>6, <2>1
  <2>3. /\ StoreInv' /\ Effect(c.key, c.value) /\ revision' = revision + 1
        /\ RevOf(c.key)' = revision + 1
    BY <1>1, <1>6, <2>1, <2>2, PutKeeps
  <2>4. QED
    BY <1>6, <2>2, <2>3
<1>7. CASE /\ Accepts(c) /\ c.op = "release"
           /\ IF leases[c.key] = Nil THEN UNCHANGED keyspace ELSE Remove(c.key)
  <2>1. CASE leases[c.key] = Nil
    BY <1>2, <1>7, <2>1
  <2>2. CASE leases[c.key] # Nil
    <3>1. StoreInv' /\ Effect(c.key, Nil)
      BY <1>1, <1>7, <2>2, RemoveKeeps
    <3>2. QED
      BY <1>7, <2>2, <3>1
  <2>3. QED
    BY <2>1, <2>2
<1>8. QED
  BY <1>3, <1>4, <1>5, <1>6, <1>7 DEF Apply

-----------------------------------------------------------------------------
\* The invariant

Stages == {"acquiring", "stage", "staging", "waiting", "activate", "flipping",
           "releasing", "done", "failed"}
Over   == {"releasing", "done", "failed"}
After  == Over \cup {"flipping"}

\* As many pods as a run expects have its version.
Enough(c) == Cardinality({p \in Pod : Target[c] \in loaded[p]}) >= ExpectedPods

RunsTyped ==
    /\ pc \in [Controller -> Stages]
    /\ read \in [Controller -> Nat]
    /\ \A c \in Controller : read[c] <= revision
    /\ loaded \in [Pod -> SUBSET (Value \cup {Nil})]
    /\ \A c \in Forward : pc[c] \in {"activate", "flipping"} => Enough(c)

\* A run's writes: a release only when it is over; a swap of model/current
\* with the one revision it has read, after it has seen enough pods.
RunWrite(w) ==
    /\ w.by \in Controller
    /\ \/ /\ w.key = Lock /\ w.op \in {"acquire", "release"} /\ w.value = w.by
          /\ w.op = "release" => pc[w.by] \in Over
       \/ w.key = Staged /\ w.op = "cas" /\ w.value \in Version
       \/ /\ w.key = Current /\ w.op = "cas" /\ w.value \in Version
          /\ w.rev = read[w.by] /\ pc[w.by] \in After
          /\ w.by \in Forward => Enough(w.by)

\* A pod writes only its own readiness, of a version it has loaded.
PodWrite(w) ==
    \E p \in Pod :
        /\ w.key = Ready(p)
        /\ \/ w.op = "delete" /\ w.value = Nil
           \/ w.op = "set" /\ w.value \in loaded[p] \ {Nil}

WriteType == [by : Controller \cup Pod, op : {"set", "delete", "cas", "acquire", "release"},
              key : Key, value : Value \cup {Nil}, rev : Nat]

Sent(w) == w \in WriteType /\ (RunWrite(w) \/ PodWrite(w))

LateInv == \A w \in late : Sent(w)

\* model/current is never removed, and what is acknowledged was loaded.
EventsFit ==
    \A n \in 1..revision :
        /\ events[n].key = Current => events[n].value # Nil
        /\ \A p \in Pod : events[n].key = Ready(p) => events[n].value \in loaded[p] \cup {Nil}

\* Once a run has flipped, the revision it had read is in the past.
FlipsInv ==
    /\ flips \subseteq Controller \X Nat
    /\ \A a \in flips :
          /\ pc[a[1]] \in After
          /\ read[a[1]] < RevOf(Current)
          /\ a[1] \in Forward => Enough(a[1])
    /\ FlipOnce

TaskType == [pc : {"idle", "reading", "preloading", "acking", "activating"},
             version : Value \cup {Nil}, next : Value \cup {Nil}]

PodType == [cursor : Nat, active : Value \cup {Nil}, shadow : Value \cup {Nil},
            retired : Value \cup {Nil}, watch : TaskType, boot : TaskType,
            follows : BOOLEAN]

\* The slots and tasks of a pod that has had the versions L in memory.
Fits(q, L) ==
    /\ q \in PodType
    /\ {q.active, q.shadow, q.retired} \subseteq L \cup {Nil}
    /\ q.watch.pc # "reading" /\ q.watch.next = Nil
    /\ \A s \in Slot :
          /\ q[s].pc \in {"preloading", "acking", "activating"} => q[s].version # Nil
          /\ q[s].pc = "acking" => q[s].version \in L

\* What a pod serves, or will when its watch has loaded it.
Serves(q) == IF q.watch.pc = "activating" THEN q.watch.version ELSE q.active

PodsInv ==
    /\ pods \in [Pod -> PodType]
    /\ \A p \in Pod :
          /\ Fits(pods[p], loaded[p])
          /\ pods[p].cursor <= revision
          /\ pods[p].follows =>
                /\ pods[p].boot = Idle
                /\ Serves(pods[p]) = ValueAt(Current, pods[p].cursor)
                /\ Serves(pods[p]) # Nil

Inv ==
    /\ StoreInv /\ EventsFit
    /\ RunsTyped /\ LateInv /\ FlipsInv /\ RunHoldsLock
    /\ PodsInv

-----------------------------------------------------------------------------
\* The keys of a rollout are different keys.
LEMMA KeysDiffer ==
    /\ Lock # Staged /\ Lock # Current /\ Staged # Current
    /\ \A p \in Pod : Ready(p) \notin {Lock, Staged, Current}
    /\ \A p, q \in Pod : Ready(p) = Ready(q) => p = q
<1>1. Len(Lock) = 1 /\ Len(Staged) = 1 /\ Len(Current) = 1
  BY DEF Lock, Staged, Current
<1>2. \A p \in Pod : Len(Ready(p)) = 2
  BY DEF Ready
<1>3. \A p, q \in Pod : Ready(p) = Ready(q) => p = q
  BY DEF Ready
<1>4. Lock # Staged /\ Lock # Current /\ Staged # Current
  BY DEF Lock, Staged, Current
<1>5. QED
  BY <1>1, <1>2, <1>3, <1>4

\* Pods forget nothing they have loaded, as far as Enough goes.
LEMMA EnoughKept ==
    ASSUME \A p \in Pod : loaded[p] \subseteq loaded'[p],
           NEW c \in Controller, Enough(c)
    PROVE  Enough(c)'
<1> DEFINE P == {p \in Pod : Target[c] \in loaded[p]}
           Q == {p \in Pod : Target[c] \in loaded'[p]}
<1>1. P \subseteq Q /\ IsFiniteSet(Q)
  BY RunAssumption, FS_Subset
<1>2. Cardinality(P) <= Cardinality(Q) /\ IsFiniteSet(P)
  BY <1>1, FS_Subset
<1>3. Cardinality(P) \in Nat /\ Cardinality(Q) \in Nat
  BY <1>1, <1>2, FS_CardinalityType
<1>4. Cardinality(P) >= ExpectedPods
  BY DEF Enough
<1> HIDE DEF P, Q
<1>5. Cardinality(Q) >= ExpectedPods
  BY <1>2, <1>3, <1>4, RunAssumption
<1>6. QED
  BY <1>5 DEF Q, Enough

\* The acknowledgements that some replica shows are of pods that have loaded.
LEMMA AcksAreLoaded ==
    ASSUME Inv, NEW c \in Controller, NEW r \in 0..revision,
           Cardinality(Acked(Target[c], r)) >= ExpectedPods
    PROVE  Enough(c)
<1> DEFINE P == Acked(Target[c], r)
           Q == {p \in Pod : Target[c] \in loaded[p]}
<1>1. Target[c] \in Value /\ Target[c] # Nil
  BY RunAssumption, KeyAssumption, NilAssumption
<1>2. ASSUME NEW p \in P PROVE p \in Q
  <2>1. p \in Pod /\ ValueAt(Ready(p), r) = Target[c] /\ Ready(p) \in Key
    BY <1>2, KeyAssumption DEF Acked
  <2> DEFINE n == ChangeOf(Ready(p), r)
  <2>2. n # 0 /\ events[n].value = Target[c]
    BY <1>1, <2>1 DEF ValueAt
  <2>3. n \in 0..r /\ n = LastChange(events, Ready(p), r) /\ revision \in Nat
    BY <2>1, ChangeInRange DEF Inv
  <2>4. n \in 1..revision
    BY <2>2, <2>3
  <2>5. events[n].key = Ready(p)
    BY <2>1, <2>2, <2>3 DEF Inv, StoreInv, ChangesKnown, IsLast
  <2>6. events[n].value \in loaded[p] \cup {Nil}
    BY <2>1, <2>4, <2>5 DEF Inv, EventsFit
  <2>7. QED
    BY <1>1, <2>1, <2>2, <2>6
<1>3. P \subseteq Q /\ IsFiniteSet(Q)
  BY <1>2, RunAssumption, FS_Subset DEF Acked
<1>4. Cardinality(P) <= Cardinality(Q) /\ IsFiniteSet(P)
  BY <1>3, FS_Subset
<1>5. Cardinality(P) \in Nat /\ Cardinality(Q) \in Nat
  BY <1>3, <1>4, FS_CardinalityType
<1> HIDE DEF P, Q
<1>6. Cardinality(Q) >= ExpectedPods
  BY <1>4, <1>5, RunAssumption DEF P
<1>7. QED
  BY <1>6 DEF Q, Enough

-----------------------------------------------------------------------------
\* Writes

\* An event of a key that fits.
LEMMA EventFits ==
    ASSUME EventsFit, StoreInv, NEW k \in Key, NEW v,
           events' \in {events, Append(events, [key |-> k, value |-> v])},
           k = Current => v # Nil,
           \A p \in Pod : k = Ready(p) => v \in loaded[p] \cup {Nil},
           \A p \in Pod : loaded[p] \subseteq loaded'[p], v \in Value \cup {Nil}
    PROVE  EventsFit'
<1>1. events \in Seq(Event) /\ [key |-> k, value |-> v] \in Event /\ revision \in Nat
  BY LenProperties DEF StoreInv, KeyspaceTypeOK, revision, Event
<1>2. CASE events' = events
  BY <1>2 DEF EventsFit, revision
<1>3. CASE events' = Append(events, [key |-> k, value |-> v])
  <2>1. /\ revision' = revision + 1
        /\ \A n \in 1..revision : events'[n] = events[n]
        /\ events'[revision + 1] = [key |-> k, value |-> v]
    BY <1>1, <1>3, AppendProperties DEF revision
  <2> SUFFICES ASSUME NEW n \in 1..(revision + 1)
               PROVE  /\ events'[n].key = Current => events'[n].value # Nil
                      /\ \A p \in Pod : events'[n].key = Ready(p) =>
                            events'[n].value \in loaded'[p] \cup {Nil}
    BY <2>1 DEF EventsFit, Ready, Current
  <2>2. CASE n = revision + 1
    BY <2>1, <2>2
  <2>3. CASE n # revision + 1
    <3>1. n \in 1..revision /\ events'[n] = events[n]
      BY <1>1, <2>1, <2>3
    <3>2. QED
      BY <3>1 DEF EventsFit
  <2>4. QED
    BY <2>2, <2>3
<1>4. QED
  BY <1>2, <1>3

\* What the application of any write in flight changes: model/current only
\* grows, the lock is taken from nobody, and a flip is a swap that expected
\* the present revision.
LEMMA Applying ==
    ASSUME Inv, NEW w, Sent(w), Applied(w), UNCHANGED loaded
    PROVE  /\ StoreInv' /\ EventsFit' /\ Grown
           /\ RevOf(Current) <= RevOf(Current)'
           /\ \A c \in Controller :
                 leases[Lock] = c /\ ~(w.op = "release" /\ w.by = c) => leases'[Lock] = c
           /\ \/ flips' = flips
              \/ /\ w.key = Current /\ w.rev = RevOf(Current)
                 /\ RevOf(Current)' = revision + 1
                 /\ flips' = flips \cup {<<w.by, revision + 1>>}
           /\ w.op = "acquire" /\ Accepts(w) => leases'[Lock] = w.value
<1> DEFINE c == [op |-> w.op, key |-> w.key, value |-> w.value, rev |-> w.rev]
<1>1. w \in WriteType /\ c \in Command
  BY DEF Sent, WriteType, Command
<1>2. Apply(c) /\ (Accepts(c) <=> Accepts(w))
  BY DEF Applied, Accepts
<1>3. /\ Current \in Key /\ Lock \in Key /\ Staged \in Key
      /\ Nil \notin Value /\ Version \subseteq Value /\ Controller \subseteq Value
  BY KeyAssumption, NilAssumption
<1>4. c.op \in {"set", "acquire"} => c.value # Nil
  BY <1>3 DEF Sent, RunWrite, PodWrite
<1>5. /\ StoreInv'
      /\ ~Accepts(c) => UNCHANGED keyspace
      /\ Effect(c.key, c.value) \/ Effect(c.key, Nil)
      /\ c.op \in {"set", "cas", "acquire"} /\ c.value # Nil =>
            /\ Effect(c.key, c.value)
            /\ Accepts(c) => RevOf(c.key)' = revision + 1 /\ revision' = revision + 1
      /\ c.op = "acquire" /\ Accepts(c) => leases'[c.key] = c.value
      /\ c.op = "release" => (leases[c.key] # Nil /\ Accepts(c)) \/ UNCHANGED keyspace
  <2> HIDE DEF c
  <2>1. QED
    BY <1>1, <1>2, <1>4, ApplyKeeps DEF Inv
<1>6. Grown
  BY <1>5 DEF Effect
<1>7. revision \in Nat /\ RevOf(Current) \in 0..revision
  <2>1. revision \in Nat
    BY LenProperties DEF Inv, StoreInv, KeyspaceTypeOK, revision
  <2>2. QED
    BY <1>3, <2>1, ChangeInRange DEF Inv
<1>8. w.key = Current => w.op = "cas" /\ w.value \in Version /\ w.value # Nil
  BY <1>3, KeysDiffer DEF Sent, RunWrite, PodWrite
<1>9. w.key = Lock => w.op \in {"acquire", "release"} /\ w.value = w.by /\ w.by \in Controller
  BY KeysDiffer DEF Sent, RunWrite, PodWrite
<1>10. EventsFit'
  <2>1. PICK v \in {c.value, Nil} : /\ Effect(c.key, v)
                                    /\ c.key = Current => v # Nil
    BY <1>5, <1>8
  <2>2. \A p \in Pod : c.key = Ready(p) => v \in loaded[p] \cup {Nil}
    BY KeysDiffer DEF Sent, RunWrite, PodWrite
  <2>3. \A p \in Pod : loaded[p] \subseteq loaded'[p]
    OBVIOUS
  <2>4. c.key \in Key /\ v \in Value \cup {Nil}
    BY <1>1 DEF Command
  <2>5. events' \in {events, Append(events, [key |-> c.key, value |-> v])}
    BY <2>1 DEF Effect
  <2>6. QED
    BY <2>1, <2>2, <2>3, <2>4, <2>5, EventFits DEF Inv
<1>11. CASE w.key = Current
  <2>1. c.op = "cas" /\ c.value # Nil /\ c.key = Current
    BY <1>8, <1>11
  <2>2. CASE Accepts(c)
    <3>1. RevOf(Current)' = revision + 1
      BY <1>5, <2>1, <2>2
    <3>2. w.rev = RevOf(Current)
      BY <1>11, <2>1, <2>2 DEF Accepts, Matches
    <3>3. flips' = flips \cup {<<w.by, revision + 1>>}
      BY <1>2, <1>11, <2>2 DEF Applied
    <3>4. leases'[Lock] = leases[Lock]
      BY <1>3, <1>5, <2>1, KeysDiffer DEF Effect
    <3>5. QED
      BY <1>5, <1>6, <1>7, <1>10, <1>11, <2>1, <3>1, <3>2, <3>3, <3>4
  <2>3. CASE ~Accepts(c)
    <3>1. UNCHANGED keyspace /\ flips' = flips
      BY <1>2, <1>5, <2>3 DEF Applied
    <3>2. RevOf(Current)' = RevOf(Current) /\ leases' = leases
      BY <3>1 DEF keyspace, RevOf
    <3>3. QED
      BY <1>2, <1>5, <1>6, <1>7, <1>10, <2>1, <2>3, <3>1, <3>2
  <2>4. QED
    BY <2>2, <2>3
<1>12. CASE w.key # Current
  <2>1. flips' = flips
    BY <1>12 DEF Applied
  <2>2. RevOf(Current)' = RevOf(Current)
    <3>1. store'[Current] = store[Current]
      BY <1>3, <1>5, <1>12 DEF Effect
    <3>2. QED
      BY <3>1 DEF RevOf
  <2>3. CASE w.key # Lock
    <3>1. leases'[Lock] = leases[Lock]
      BY <1>3, <1>5, <2>3 DEF Effect
    <3>2. w.op # "acquire"
      BY <2>3 DEF Sent, RunWrite, PodWrite
    <3>3. QED
      BY <1>5, <1>6, <1>7, <1>10, <2>1, <2>2, <3>1, <3>2
  <2>4. CASE w.key = Lock
    <3>1. w.op = "acquire" /\ Accepts(w) => leases'[Lock] = w.value
      BY <1>2, <1>5, <2>4
    <3>2. ASSUME NEW d \in Controller, leases[Lock] = d, ~(w.op = "release" /\ w.by = d)
          PROVE  leases'[Lock] = d
      <4>1. d # Nil
        BY <1>3
      <4>2. CASE w.op = "acquire"
        <5>1. Accepts(c) => w.value = d
          BY <2>4, <3>2, <4>1, <4>2 DEF Accepts, Grantable
        <5>2. QED
          BY <1>5, <2>4, <3>2, <4>2, <5>1 DEF keyspace
      <4>3. CASE w.op = "release"
        <5>1. ~Accepts(c)
          BY <1>9, <2>4, <3>2, <4>1, <4>3 DEF Accepts, Releasable
        <5>2. QED
          BY <1>5, <3>2, <5>1 DEF keyspace
      <4>4. QED
        BY <1>9, <2>4, <4>2, <4>3
    <3>3. QED
      BY <1>5, <1>6, <1>7, <1>10, <2>1, <2>2, <3>1, <3>2
  <2>5. QED
    BY <2>3, <2>4
<1>13. QED
  BY <1>11, <1>12

-----------------------------------------------------------------------------
\* What steps have in common

\* Runs go forward, and pods forget nothing.
Moves ==
    /\ pc' \in [Controller -> Stages] /\ read' \in [Controller -> Nat]
    /\ loaded' \in [Pod -> SUBSET (Value \cup {Nil})]
    /\ \A c \in Controller :
          /\ pc[c] \in After => pc'[c] \in After /\ read'[c] = read[c]
          /\ pc[c] \in Over => pc'[c] \in Over
    /\ \A p \in Pod : loaded[p] \subseteq loaded'[p]

\* A write that may be in flight may still be.
LEMMA SentStays ==
    ASSUME Inv, Moves, NEW w, Sent(w)
    PROVE  Sent(w)'
<1>1. ASSUME RunWrite(w) PROVE RunWrite(w)'
  <2>1. w.by \in Controller
    BY <1>1 DEF RunWrite
  <2>2. pc[w.by] \in Over => pc'[w.by] \in Over
    BY <2>1 DEF Moves
  <2>3. pc[w.by] \in After => pc'[w.by] \in After /\ read'[w.by] = read[w.by]
    BY <2>1 DEF Moves
  <2>4. Enough(w.by) => Enough(w.by)'
    BY <2>1, EnoughKept DEF Moves
  <2>5. QED
    BY <1>1, <2>2, <2>3, <2>4 DEF RunWrite, Lock, Staged, Current
<1>2. ASSUME PodWrite(w) PROVE PodWrite(w)'
  BY <1>2 DEF PodWrite, Moves, Ready
<1>3. QED
  BY <1>1, <1>2 DEF Sent, WriteType

\* The flips so far, when none is added.
LEMMA FlipsStay ==
    ASSUME Inv, Moves, StoreInv', flips' = flips, RevOf(Current) <= RevOf(Current)'
    PROVE  FlipsInv'
<1>1. RevOf(Current) \in Nat /\ RevOf(Current)' \in Nat
  <2>1. Current \in Key /\ revision \in Nat /\ revision' \in Nat
    BY KeyAssumption, LenProperties DEF Inv, StoreInv, KeyspaceTypeOK, revision
  <2>2. RevOf(Current) \in Nat
    <3>1. revision \in 0..revision
      BY <2>1
    <3>2. QED
      BY <2>1, <3>1, ChangeInRange DEF Inv
  <2>3. ChangeOf(Current, revision)' \in Nat
    <3>1. ChangeOf(Current, revision)' = LastChange(events', Current, revision')
      BY DEF ChangeOf, LastChange
    <3>2. IsLast(events', Current, revision', LastChange(events', Current, revision'))
      BY <2>1 DEF StoreInv, ChangesKnown
    <3>3. QED
      BY <2>1, <3>1, <3>2 DEF IsLast
  <2>4. store'[Current] # Nil => store'[Current].rev = ChangeOf(Current, revision)'
    BY <2>1 DEF StoreInv, EventsTellStore
  <2>5. QED
    BY <2>2, <2>3, <2>4 DEF RevOf
<1>2. FlipOnce'
  BY DEF Inv, FlipsInv, FlipOnce
<1>3. ASSUME NEW a \in flips
      PROVE  /\ pc'[a[1]] \in After /\ read'[a[1]] < RevOf(Current)'
             /\ a[1] \in Forward => Enough(a[1])'
  <2>1. a[1] \in Controller /\ pc[a[1]] \in After /\ read[a[1]] < RevOf(Current)
        /\ (a[1] \in Forward => Enough(a[1])) /\ read[a[1]] \in Nat
    BY DEF Inv, FlipsInv, RunsTyped
  <2>2. pc'[a[1]] \in After /\ read'[a[1]] = read[a[1]]
    BY <2>1 DEF Moves
  <2>3. a[1] \in Forward => Enough(a[1])'
    BY <2>1, EnoughKept DEF Moves
  <2>4. read'[a[1]] < RevOf(Current)'
    BY <1>1, <2>1, <2>2
  <2>5. QED
    BY <2>2, <2>3, <2>4
<1>4. QED
  BY <1>2, <1>3 DEF Inv, FlipsInv

\* A flip is a swap that has read the present revision: its run has flipped
\* nothing before, and all have read less than the revision it makes.
LEMMA FlipsGrow ==
    ASSUME Inv, Moves, NEW w, Sent(w), w.key = Current, w.rev = RevOf(Current),
           RevOf(Current)' = revision + 1,
           flips' = flips \cup {<<w.by, revision + 1>>}
    PROVE  FlipsInv'
<1>1. /\ w.by \in Controller /\ w.rev = read[w.by] /\ pc[w.by] \in After
      /\ w.by \in Forward => Enough(w.by)
  BY KeysDiffer DEF Sent, RunWrite, PodWrite
<1>2. revision \in Nat
  BY LenProperties DEF Inv, StoreInv, KeyspaceTypeOK, revision
<1>3. \A a \in flips : a[1] # w.by
  <2> SUFFICES ASSUME NEW a \in flips, a[1] = w.by PROVE FALSE
    OBVIOUS
  <2>1. read[a[1]] < RevOf(Current) /\ read[a[1]] \in Nat
    BY <1>1 DEF Inv, FlipsInv, RunsTyped
  <2>2. QED
    BY <1>1, <2>1
<1>4. FlipOnce'
  BY <1>3 DEF Inv, FlipsInv, FlipOnce
<1>5. ASSUME NEW c \in Controller, pc[c] \in After, c \in Forward => Enough(c)
      PROVE  /\ pc'[c] \in After /\ read'[c] < revision + 1
             /\ c \in Forward => Enough(c)'
  <2>1. pc'[c] \in After /\ read'[c] = read[c]
    BY <1>5 DEF Moves
  <2>2. c \in Forward => Enough(c)'
    BY <1>5, EnoughKept DEF Moves
  <2>3. read[c] <= revision /\ read[c] \in Nat
    BY DEF Inv, RunsTyped
  <2>4. QED
    BY <1>2, <2>1, <2>2, <2>3
<1>6. ASSUME NEW a \in flips'
      PROVE  /\ pc'[a[1]] \in After /\ read'[a[1]] < RevOf(Current)'
             /\ a[1] \in Forward => Enough(a[1])'
  <2>1. a[1] \in Controller /\ pc[a[1]] \in After /\ (a[1] \in Forward => Enough(a[1]))
    BY <1>1 DEF Inv, FlipsInv
  <2>2. QED
    BY <1>5, <2>1
<1>7. flips' \subseteq Controller \X Nat
  BY <1>1, <1>2 DEF Inv, FlipsInv
<1>8. QED
  BY <1>4, <1>6, <1>7 DEF FlipsInv

\* Pods that do nothing still follow.
LEMMA PodsStay ==
    ASSUME Inv, Moves, Grown, revision' \in Nat, pods' = pods
    PROVE  PodsInv'
<1> SUFFICES ASSUME NEW p \in Pod
             PROVE  /\ Fits(pods[p], loaded'[p])
                    /\ pods[p].cursor <= revision'
                    /\ ValueAt(Current, pods[p].cursor)' = ValueAt(Current, pods[p].cursor)
  BY DEF Inv, PodsInv
<1>1. Fits(pods[p], loaded[p]) /\ loaded[p] \subseteq loaded'[p]
  BY DEF Inv, PodsInv, Moves
<1>2. Fits(pods[p], loaded'[p])
  BY <1>1 DEF Fits
<1>3. revision \in Nat /\ revision' >= revision /\ pods[p].cursor \in 0..revision
  BY LenProperties DEF Inv, StoreInv, KeyspaceTypeOK, revision, PodsInv, PodType, Grown
<1>4. ValueAt(Current, pods[p].cursor)' = ValueAt(Current, pods[p].cursor)
  BY <1>3, KeyAssumption DEF Grown
<1>5. QED
  BY <1>2, <1>3, <1>4

\* A step of a pod keeps what the others follow.
LEMMA OnePod ==
    ASSUME Inv, Moves, Grown, revision' \in Nat, NEW p \in Pod, NEW q,
           pods' = [pods EXCEPT ![p] = q],
           Fits(q, loaded'[p]), q.cursor <= revision,
           q.follows => /\ q.boot = Idle
                        /\ Serves(q) = ValueAt(Current, q.cursor)
                        /\ Serves(q) # Nil
    PROVE  PodsInv'
<1>1. revision \in Nat /\ revision <= revision'
  BY LenProperties DEF Inv, StoreInv, KeyspaceTypeOK, revision, Grown
<1>2. pods' \in [Pod -> PodType]
  BY DEF Inv, PodsInv, Fits
<1>3. ASSUME NEW x \in Pod
      PROVE  /\ Fits(pods'[x], loaded'[x])
             /\ pods'[x].cursor \in 0..revision
             /\ pods'[x].follows =>
                   /\ pods'[x].boot = Idle
                   /\ Serves(pods'[x]) = ValueAt(Current, pods'[x].cursor)
                   /\ Serves(pods'[x]) # Nil
  <2>1. CASE x = p
    <3>1. pods'[x] = q /\ q.cursor \in Nat
      BY <2>1 DEF Inv, PodsInv, Fits, PodType
    <3>2. QED
      BY <1>1, <2>1, <3>1
  <2>2. CASE x # p
    <3>1. pods'[x] = pods[x] /\ Fits(pods[x], loaded[x]) /\ loaded[x] \subseteq loaded'[x]
      BY <2>2 DEF Inv, PodsInv, Moves
    <3>2. Fits(pods[x], loaded'[x])
      BY <3>1 DEF Fits
    <3>3. pods[x].cursor \in 0..revision
      BY <1>1 DEF Inv, PodsInv, PodType
    <3>4. QED
      BY <3>1, <3>2, <3>3 DEF Inv, PodsInv
  <2>3. QED
    BY <2>1, <2>2
<1>4. ASSUME NEW x \in Pod
      PROVE  ValueAt(Current, pods[x].cursor)' = ValueAt(Current, pods'[x].cursor)
  <2>1. \A r \in 0..revision : ValueAt(Current, r)' = ValueAt(Current, r)
    BY KeyAssumption DEF Grown
  <2>2. QED
    BY <1>3, <2>1 DEF ValueAt, ChangeOf
<1>5. \A x \in Pod : pods'[x].cursor <= revision'
  BY <1>1, <1>3
<1>6. QED
  BY <1>2, <1>3, <1>4, <1>5 DEF PodsInv

\* A step that writes nothing to the keyspace.
LEMMA Quiet ==
    ASSUME Inv, Moves, UNCHANGED keyspace, flips' = flips,
           \A w \in late' : w \in late \/ Sent(w)
    PROVE  /\ StoreInv' /\ EventsFit' /\ LateInv' /\ FlipsInv'
           /\ Grown /\ revision' = revision /\ revision \in Nat
           /\ pods' = pods => PodsInv'
<1>1. StoreInv' /\ Grown /\ revision' = revision /\ revision \in Nat
  BY SameKeyspace, LenProperties DEF Inv, StoreInv, KeyspaceTypeOK, revision
<1>2. EventsFit'
  BY <1>1 DEF Inv, EventsFit, keyspace, Moves, Current, Ready
<1>3. LateInv'
  BY SentStays DEF Inv, LateInv
<1>4. FlipsInv'
  <2>1. RevOf(Current)' = RevOf(Current)
    BY DEF keyspace, RevOf, Current
  <2>2. RevOf(Current) \in Nat
    <3>1. revision \in 0..revision /\ Current \in Key
      BY <1>1, KeyAssumption
    <3>2. QED
      BY <3>1, ChangeInRange DEF Inv
  <2>3. QED
    BY <1>1, <2>1, <2>2, FlipsStay
<1>5. QED
  BY <1>1, <1>2, <1>3, <1>4, PodsStay

\* A step in which a write is applied.
LEMMA Written ==
    ASSUME Inv, Moves, NEW w, Sent(w), Applied(w), UNCHANGED loaded,
           \A x \in late' : x \in late \/ Sent(x)
    PROVE  /\ StoreInv' /\ EventsFit' /\ LateInv' /\ FlipsInv'
           /\ Grown /\ revision' \in Nat
           /\ pods' = pods => PodsInv'
           /\ \A c \in Controller :
                 leases[Lock] = c /\ ~(w.op = "release" /\ w.by = c) => leases'[Lock] = c
           /\ w.op = "acquire" /\ Accepts(w) => leases'[Lock] = w.value
<1>1. /\ StoreInv' /\ EventsFit' /\ Grown
      /\ RevOf(Current) <= RevOf(Current)'
      /\ \A c \in Controller :
            leases[Lock] = c /\ ~(w.op = "release" /\ w.by = c) => leases'[Lock] = c
      /\ \/ flips' = flips
         \/ /\ w.key = Current /\ w.rev = RevOf(Current)
            /\ RevOf(Current)' = revision + 1
            /\ flips' = flips \cup {<<w.by, revision + 1>>}
      /\ w.op = "acquire" /\ Accepts(w) => leases'[Lock] = w.value
  BY Applying
<1>2. LateInv'
  BY SentStays DEF Inv, LateInv
<1>3. FlipsInv'
  BY <1>1, FlipsStay, FlipsGrow
<1>4. revision' \in Nat
  BY <1>1, LenProperties DEF StoreInv, KeyspaceTypeOK, revision
<1>5. QED
  BY <1>1, <1>2, <1>3, <1>4, PodsStay

\* Steps of pods and of the keyspace leave the runs where they are.
LEMMA RunsStay ==
    ASSUME Inv, Moves, Grown, revision' \in Nat, UNCHANGED runVars
    PROVE  RunsTyped'
<1>1. revision \in Nat /\ revision <= revision'
  BY LenProperties DEF Inv, StoreInv, KeyspaceTypeOK, revision, Grown
<1>2. \A c \in Controller : read'[c] <= revision'
  BY <1>1 DEF Inv, RunsTyped, runVars
<1>3. \A c \in Forward : pc'[c] \in {"activate", "flipping"} => Enough(c)'
  <2> SUFFICES ASSUME NEW c \in Forward, pc'[c] \in {"activate", "flipping"} PROVE Enough(c)'
    OBVIOUS
  <2>1. c \in Controller
    BY RunAssumption
  <2>2. Enough(c)
    BY DEF Inv, RunsTyped, runVars
  <2>3. QED
    BY <2>1, <2>2, EnoughKept DEF Moves
<1>4. QED
  BY <1>2, <1>3 DEF Inv, RunsTyped, runVars, Moves

-----------------------------------------------------------------------------
\* Controllers

\* What a run waits for may be in flight.
LEMMA PendingSent ==
    ASSUME Inv, NEW c \in Controller, pc[c] \in Writing
    PROVE  Sent(Pending(c)) /\ Pending(c).by = c
<1>1. /\ read \in [Controller -> Nat] /\ Target[c] \in Version
      /\ Version \subseteq Value /\ Controller \subseteq Value
      /\ {Lock, Staged, Current} \subseteq Key
  BY RunAssumption, KeyAssumption DEF Inv, RunsTyped
<1>2. CASE pc[c] = "acquiring"
  BY <1>1, <1>2 DEF Pending, Write, Sent, RunWrite, WriteType
<1>3. CASE pc[c] = "staging"
  BY <1>1, <1>3 DEF Pending, Write, Sent, RunWrite, WriteType
<1>4. CASE pc[c] = "flipping"
  <2>1. c \in Forward => Enough(c)
    BY <1>4 DEF Inv, RunsTyped
  <2>2. Pending(c) = Write(c, "cas", Current, Target[c], read[c])
    BY <1>4 DEF Pending
  <2>3. QED
    BY <1>1, <1>4, <2>1, <2>2 DEF Write, Sent, RunWrite, WriteType, After
<1>5. CASE pc[c] = "releasing"
  <2>1. Pending(c) = Write(c, "release", Lock, c, 0)
    BY <1>5 DEF Pending
  <2>2. QED
    BY <1>1, <1>5, <2>1 DEF Write, Sent, RunWrite, WriteType, Over
<1>6. QED
  BY <1>2, <1>3, <1>4, <1>5 DEF Writing

\* A step of one run to another stage.
LEMMA RunMoves ==
    ASSUME Inv, NEW c \in Controller, NEW to \in Stages, Goes(c, to), UNCHANGED loaded,
           read' = read \/ (pc[c] \notin After /\ \E n \in Nat : read' = [read EXCEPT ![c] = n]),
           pc[c] \in After => to \in After,
           pc[c] \in Over => to \in Over
    PROVE  Moves
<1>1. pc \in [Controller -> Stages] /\ read \in [Controller -> Nat]
  BY DEF Inv, RunsTyped
<1>2. pc' \in [Controller -> Stages] /\ pc'[c] = to /\ \A d \in Controller \ {c} : pc'[d] = pc[d]
  BY <1>1 DEF Goes
<1>3. read' \in [Controller -> Nat] /\ \A d \in Controller : pc[d] \in After => read'[d] = read[d]
  BY <1>1
<1>4. loaded' \in [Pod -> SUBSET (Value \cup {Nil})]
  BY DEF Inv, RunsTyped
<1>5. QED
  BY <1>2, <1>3, <1>4 DEF Moves

\* The runs are typed after such a step, if it reads nothing too new and goes
\* on with enough pods.
LEMMA RunTypedAfter ==
    ASSUME Inv, Moves, Grown, revision' \in Nat, NEW c \in Controller, NEW to,
           Goes(c, to), UNCHANGED loaded,
           read' = read \/ (\E n \in 0..revision : read' = [read EXCEPT ![c] = n]),
           c \in Forward /\ to \in {"activate", "flipping"} => Enough(c)
    PROVE  RunsTyped'
<1>1. /\ revision \in Nat /\ revision <= revision'
      /\ pc \in [Controller -> Stages] /\ read \in [Controller -> Nat]
  BY LenProperties DEF Inv, StoreInv, KeyspaceTypeOK, revision, Grown, RunsTyped
<1>2. \A d \in Controller : read'[d] <= revision'
  <2> SUFFICES ASSUME NEW d \in Controller PROVE read'[d] \in 0..revision
    BY <1>1
  <2>1. read[d] \in 0..revision
    BY <1>1 DEF Inv, RunsTyped
  <2>2. QED
    BY <1>1, <2>1
<1>3. ASSUME NEW d \in Forward, pc'[d] \in {"activate", "flipping"} PROVE Enough(d)'
  <2>1. d \in Controller
    BY RunAssumption
  <2>2. Enough(d)
    <3>1. CASE d = c
      BY <1>1, <1>3, <3>1 DEF Goes
    <3>2. CASE d # c
      <4>1. pc'[d] = pc[d]
        BY <1>1, <2>1, <3>2 DEF Goes
      <4>2. QED
        BY <1>3, <4>1 DEF Inv, RunsTyped
    <3>3. QED
      BY <3>1, <3>2
  <2>3. QED
    BY <2>1, <2>2, EnoughKept DEF Moves
<1>4. QED
  BY <1>2, <1>3 DEF Moves, RunsTyped

\* A run that has its lock keeps it over a step that leaves it there.
LEMMA LockKept ==
    ASSUME Inv, NEW c \in Controller, NEW to, Goes(c, to), UNCHANGED lapsed,
           \A d \in Controller \ {c} : leases[Lock] = d => leases'[Lock] = d,
           c \notin lapsed /\ to \in {"stage", "staging", "waiting", "activate", "flipping"}
              => leases'[Lock] = c
    PROVE  RunHoldsLock'
<1>1. pc \in [Controller -> Stages]
  BY DEF Inv, RunsTyped
<1> SUFFICES ASSUME NEW d \in Controller \ lapsed,
                    pc'[d] \in {"stage", "staging", "waiting", "activate", "flipping"}
             PROVE  leases'[Lock] = d
  BY DEF RunHoldsLock, HasLock, Lock
<1>2. CASE d = c
  BY <1>1, <1>2 DEF Goes
<1>3. CASE d # c
  <2>1. HasLock(d)
    BY <1>1, <1>3 DEF Goes, HasLock
  <2>2. leases[Lock] = d
    BY <2>1 DEF Inv, RunHoldsLock
  <2>3. QED
    BY <1>3, <2>2
<1>4. QED
  BY <1>2, <1>3

\* A write of a run is applied and answered.
LEMMA AnsweredInv == ASSUME Inv, NEW c \in Controller, Answered(c) PROVE Inv'
<1> DEFINE w == Pending(c)
<1>1. PICK to \in AfterAnswer(c) : Goes(c, to)
  BY DEF Answered
<1>2. pc[c] \in Writing /\ Applied(w) /\ UNCHANGED <<read, pods, late, loaded, lapsed, faults>>
  BY DEF Answered
<1>3. Sent(w) /\ w.by = c
  BY <1>2, PendingSent
<1>4. /\ to \in Stages
      /\ pc[c] \in After => to \in After
      /\ pc[c] \in Over => to \in Over
      /\ c \in Forward => to \notin {"activate", "flipping"}
  BY <1>2 DEF AfterAnswer, Writing, Stages, After, Over
<1>5. Moves
  BY <1>1, <1>2, <1>4, RunMoves
<1>6. /\ StoreInv' /\ EventsFit' /\ LateInv' /\ FlipsInv' /\ PodsInv'
      /\ Grown /\ revision' \in Nat
      /\ \A d \in Controller :
            leases[Lock] = d /\ ~(w.op = "release" /\ w.by = d) => leases'[Lock] = d
      /\ w.op = "acquire" /\ Accepts(w) => leases'[Lock] = w.value
  <2> HIDE DEF w
  <2>1. QED
    BY <1>2, <1>3, <1>5, Written
<1>7. RunsTyped'
  BY <1>1, <1>2, <1>4, <1>5, <1>6, RunTypedAfter
<1>8. RunHoldsLock'
  <2>1. \A d \in Controller \ {c} : leases[Lock] = d => leases'[Lock] = d
    BY <1>3, <1>6
  <2>2. ASSUME c \notin lapsed, to \in {"stage", "staging", "waiting", "activate", "flipping"}
        PROVE  leases'[Lock] = c
    <3>1. CASE pc[c] = "acquiring"
      <4>1. Accepts(w) /\ w.op = "acquire" /\ w.value = c
        BY <1>1, <2>2, <3>1 DEF AfterAnswer, Pending, Write
      <4>2. QED
        BY <1>6, <4>1
    <3>2. CASE pc[c] = "staging"
      <4>1. w.op = "cas" /\ HasLock(c)
        BY <3>2 DEF Pending, Write, HasLock
      <4>2. leases[Lock] = c
        BY <2>2, <4>1 DEF Inv, RunHoldsLock
      <4>3. QED
        BY <1>6, <4>1, <4>2
    <3>3. QED
      BY <1>1, <1>2, <2>2, <3>1, <3>2 DEF AfterAnswer, Writing
  <2>3. QED
    BY <1>1, <1>2, <2>1, <2>2, LockKept
<1>9. QED
  BY <1>6, <1>7, <1>8 DEF Inv

\* A step of a run in which nothing is applied.
LEMMA RunQuiet ==
    ASSUME Inv, NEW c \in Controller, NEW to \in Stages, Goes(c, to),
           UNCHANGED <<keyspace, pods, histVars>>,
           read' = read \/ (pc[c] \notin After /\ \E n \in 0..revision : read' = [read EXCEPT ![c] = n]),
           pc[c] \in After => to \in After,
           pc[c] \in Over => to \in Over,
           c \in Forward /\ to \in {"activate", "flipping"} => Enough(c),
           to \in {"stage", "staging", "waiting", "activate", "flipping"} => HasLock(c),
           \A w \in late' : w \in late \/ Sent(w)
    PROVE  Inv'
<1>1. Moves
  <2>1. revision \in Nat
    BY LenProperties DEF Inv, StoreInv, KeyspaceTypeOK, revision
  <2>2. read' = read \/ (pc[c] \notin After /\ \E n \in Nat : read' = [read EXCEPT ![c] = n])
    BY <2>1
  <2>3. QED
    BY <2>2, RunMoves DEF histVars
<1>2. /\ StoreInv' /\ EventsFit' /\ LateInv' /\ FlipsInv' /\ PodsInv'
      /\ Grown /\ revision' \in Nat
  BY <1>1, Quiet DEF histVars
<1>3. RunsTyped'
  BY <1>1, <1>2, RunTypedAfter DEF histVars
<1>4. RunHoldsLock'
  <2>1. leases' = leases /\ lapsed' = lapsed
    BY DEF keyspace, histVars
  <2>2. c \notin lapsed /\ HasLock(c) => leases[Lock] = c
    BY DEF Inv, RunHoldsLock
  <2>3. QED
    BY <2>1, <2>2, LockKept
<1>5. QED
  BY <1>2, <1>3, <1>4 DEF Inv

\* No attempt is answered.
LEMMA UnansweredInv == ASSUME Inv, NEW c \in Controller, Unanswered(c) PROVE Inv'
<1>1. PICK to \in {pc[c], AfterThrow(c)} : Goes(c, to)
  BY DEF Unanswered
<1>2. /\ pc[c] \in Writing /\ Loses(Pending(c))
      /\ UNCHANGED <<keyspace, read, pods, histVars>>
  BY DEF Unanswered
<1>3. \A w \in late' : w \in late \/ Sent(w)
  BY <1>2, PendingSent DEF Loses
<1>4. /\ to \in Stages
      /\ pc[c] \in After => to \in After
      /\ pc[c] \in Over => to \in Over
      /\ to \in {"stage", "staging", "waiting", "activate", "flipping"} => to = pc[c]
  BY <1>2 DEF AfterThrow, Writing, Stages, After, Over
<1>5. c \in Forward /\ to \in {"activate", "flipping"} => Enough(c)
  BY <1>4 DEF Inv, RunsTyped
<1>6. QED
  BY <1>1, <1>2, <1>3, <1>4, <1>5, RunQuiet DEF HasLock

\* A job is killed.
LEMMA KilledInv == ASSUME Inv, NEW c \in Controller, Killed(c) PROVE Inv'
<1>1. \A w \in late' : w \in late \/ Sent(w)
  BY PendingSent DEF Killed
<1>2. QED
  BY <1>1, RunQuiet DEF Killed, Stages, After, Over

\* The reads of a run, and its wait for the pods.
LEMMA ReadsInv ==
    ASSUME Inv, NEW c \in Controller,
           ReadStaged(c) \/ SeesAcks(c) \/ StageFails(c) \/ ReadCurrent(c)
    PROVE  Inv'
<1>1. ASSUME NEW k \in {Staged, Current}, NEW r \in 0..revision
      PROVE  ChangeOf(k, r) \in 0..revision
  BY ChangeInRange, KeyAssumption DEF Inv
<1>2. CASE ReadStaged(c)
  <2>1. \E n \in 0..revision : read' = [read EXCEPT ![c] = n]
    BY <1>1, <1>2 DEF ReadStaged
  <2>2. QED
    BY <1>2, <2>1, RunQuiet DEF ReadStaged, Stages, After, Over, HasLock
<1>3. CASE SeesAcks(c)
  <2>1. Enough(c)
    BY <1>3, AcksAreLoaded DEF SeesAcks
  <2>2. QED
    BY <1>3, <2>1, RunQuiet DEF SeesAcks, Stages, After, Over, HasLock
<1>4. CASE StageFails(c)
  BY <1>4, RunQuiet DEF StageFails, Stages, After, Over, HasLock
<1>5. CASE ReadCurrent(c)
  <2>1. pc[c] = "activate" /\ UNCHANGED <<keyspace, pods, late, histVars>>
    BY <1>5 DEF ReadCurrent
  <2>2. c \in Forward => Enough(c)
    BY <2>1 DEF Inv, RunsTyped
  <2>3. \/ Goes(c, "releasing") /\ read' = read
        \/ Goes(c, "flipping") /\ \E n \in 0..revision : read' = [read EXCEPT ![c] = n]
    BY <1>1, <1>5 DEF ReadCurrent
  <2>4. QED
    BY <2>1, <2>2, <2>3, RunQuiet DEF Stages, After, Over, HasLock
<1>6. QED
  BY <1>2, <1>3, <1>4, <1>5

-----------------------------------------------------------------------------
\* Pods

\* A task that activates: the slots stay what was loaded, and a watch serves
\* what it activates.
LEMMA ActivatesFits ==
    ASSUME NEW L \in SUBSET (Value \cup {Nil}), NEW q, Fits(q, L), NEW s \in Slot,
           NEW v \in Value \cup {Nil}
    PROVE  LET a == Activates(q, s, v)
           IN  /\ Fits(a, L) /\ a.cursor = q.cursor /\ a.follows = q.follows
               /\ s = "watch" =>
                     a.boot = q.boot /\ Serves(a) = (IF v = Nil THEN q.active ELSE v)
<1> DEFINE a == Activates(q, s, v)
<1>1. /\ q \in PodType /\ Idle \in TaskType /\ Idle.pc = "idle" /\ Idle.next = Nil
      /\ Task("activating", v, Nil) \in TaskType
  BY DEF Fits, Idle, Task, TaskType
<1>2. CASE s = "watch"
  <2>1. CASE v \in {Nil, q.active}
    <3>1. a = [q EXCEPT !.watch = Idle]
      BY <1>2, <2>1 DEF Activates, Ends
    <3>2. QED
      BY <1>1, <1>2, <2>1, <3>1 DEF Fits, PodType, Serves, Slot
  <2>2. CASE v \notin {Nil, q.active} /\ v \in {q.shadow, q.retired}
    <3>1. a = [q EXCEPT !.active = v, !.retired = q.active,
                        !.shadow = IF q.shadow = v THEN Nil ELSE @, !.watch = Idle]
      BY <1>2, <2>2 DEF Activates, Ends, Swapped
    <3>2. /\ a \in PodType /\ a.active = v /\ a.retired = q.active
          /\ a.shadow \in {q.shadow, Nil} /\ a.watch = Idle /\ a.boot = q.boot
          /\ a.cursor = q.cursor /\ a.follows = q.follows
      BY <1>1, <3>1 DEF PodType
    <3> HIDE DEF a
    <3>3. Fits(a, L) /\ Serves(a) = v
      BY <1>1, <1>2, <2>2, <3>2 DEF Fits, Serves, Slot
    <3>4. QED
      BY <1>2, <2>2, <3>2, <3>3 DEF a
  <2>3. CASE v \notin {Nil, q.active, q.shadow, q.retired}
    <3>1. a = [q EXCEPT !.watch = Task("activating", v, Nil)]
      BY <1>2, <2>3 DEF Activates
    <3>2. QED
      BY <1>1, <1>2, <2>3, <3>1 DEF Fits, PodType, Serves, Slot, Task
  <2>4. QED
    BY <2>1, <2>2, <2>3
<1>3. CASE s = "boot"
  <2>1. CASE v \in {Nil, q.active}
    <3>1. a = [q EXCEPT !.boot = Idle]
      BY <1>3, <2>1 DEF Activates, Ends
    <3>2. QED
      BY <1>1, <1>3, <2>1, <3>1 DEF Fits, PodType, Slot
  <2>2. CASE v \notin {Nil, q.active} /\ v \in {q.shadow, q.retired}
    <3>1. a = [q EXCEPT !.active = v, !.retired = q.active,
                        !.shadow = IF q.shadow = v THEN Nil ELSE @, !.boot = Idle]
      BY <1>3, <2>2 DEF Activates, Ends, Swapped
    <3>2. /\ a \in PodType /\ a.active = v /\ a.retired = q.active
          /\ a.shadow \in {q.shadow, Nil} /\ a.boot = Idle /\ a.watch = q.watch
          /\ a.cursor = q.cursor /\ a.follows = q.follows
      BY <1>1, <3>1 DEF PodType
    <3> HIDE DEF a
    <3>3. Fits(a, L)
      BY <1>1, <1>3, <2>2, <3>2 DEF Fits, Slot
    <3>4. QED
      BY <1>3, <2>2, <3>2, <3>3 DEF a
  <2>3. CASE v \notin {Nil, q.active, q.shadow, q.retired}
    <3>1. a = [q EXCEPT !.boot = Task("activating", v, Nil)]
      BY <1>3, <2>3 DEF Activates
    <3>2. QED
      BY <1>1, <1>3, <2>3, <3>1 DEF Fits, PodType, Slot, Task
  <2>4. QED
    BY <2>1, <2>2, <2>3
<1>4. QED
  BY <1>2, <1>3 DEF Slot

\* A task that preloads: a watch goes on serving what it serves.
LEMMA PreloadsFits ==
    ASSUME NEW L \in SUBSET (Value \cup {Nil}), NEW q, Fits(q, L), NEW s \in Slot,
           NEW v \in Value \cup {Nil}, NEW next \in Value \cup {Nil},
           s = "watch" => next = Nil
    PROVE  LET a == Preloads(q, s, v, next)
           IN  /\ Fits(a, L) /\ a.cursor = q.cursor /\ a.follows = q.follows
               /\ s = "watch" => a.boot = q.boot /\ Serves(a) = q.active
<1> DEFINE a == Preloads(q, s, v, next)
<1>1. q \in PodType /\ Task("preloading", v, next) \in TaskType
  BY DEF Fits, Task, TaskType
<1>2. CASE v \in {Nil, q.shadow, q.active}
  <2>1. a = Activates(q, s, next)
    BY <1>2 DEF Preloads
  <2>2. QED
    BY <2>1, ActivatesFits
<1>3. CASE v \notin {Nil, q.shadow, q.active} /\ s = "watch"
  <2>1. a = [q EXCEPT !.watch = Task("preloading", v, next)]
    BY <1>3 DEF Preloads
  <2>2. QED
    BY <1>1, <1>3, <2>1 DEF Fits, PodType, Serves, Slot, Task
<1>4. CASE v \notin {Nil, q.shadow, q.active} /\ s = "boot"
  <2>1. a = [q EXCEPT !.boot = Task("preloading", v, next)]
    BY <1>4 DEF Preloads
  <2>2. QED
    BY <1>1, <1>4, <2>1 DEF Fits, PodType, Slot, Task
<1>5. QED
  BY <1>2, <1>3, <1>4 DEF Slot

\* The next event a watcher is given is the next flip, or none is between it
\* and the last one.
LEMMA OfferedIsNext ==
    ASSUME Inv, NEW p \in Pod, NEW r \in Offered(p)
    PROVE  /\ r \in 1..revision /\ r > pods[p].cursor
           /\ events[r].key \in {Staged, Current} /\ events[r].value \in Value
           /\ ValueAt(Current, r) = IF events[r].key = Current THEN events[r].value
                                    ELSE ValueAt(Current, pods[p].cursor)
<1> DEFINE cur == pods[p].cursor
           n == IF events[r].key = Current THEN r ELSE LastChange(events, Current, cur)
<1>1. revision \in Nat /\ cur \in 0..revision /\ events \in Seq(Event) /\ Current \in Key
  BY LenProperties, KeyAssumption DEF Inv, StoreInv, KeyspaceTypeOK, revision, PodsInv, PodType
<1>2. /\ r \in (cur + 1)..revision
      /\ events[r].key \in {Staged, Current} /\ events[r].value # Nil
      /\ \A x \in (cur + 1)..revision :
            events[x].key \in {Staged, Current} /\ events[x].value # Nil => r <= x
  BY DEF Offered
<1>3. r \in 1..revision /\ r > cur
  BY <1>1, <1>2
<1>4. events[r].value \in Value
  <2>1. events[r] \in Event
    BY <1>1, <1>3, ElementOfSeq DEF revision
  <2>2. QED
    BY <1>2, <2>1 DEF Event
<1>5. \A m \in (cur + 1)..(r - 1) : events[m].key # Current
  <2> SUFFICES ASSUME NEW m \in (cur + 1)..(r - 1), events[m].key = Current PROVE FALSE
    OBVIOUS
  <2>1. m \in (cur + 1)..revision /\ m \in 1..revision /\ m < r
    BY <1>1, <1>2
  <2>2. events[m].value # Nil
    BY <2>1 DEF Inv, EventsFit
  <2>3. QED
    BY <1>2, <1>3, <2>1, <2>2
<1>6. IsLast(events, Current, cur, LastChange(events, Current, cur))
  BY <1>1 DEF Inv, StoreInv, ChangesKnown
<1>7. IsLast(events, Current, r, n)
  <2>1. CASE events[r].key = Current
    BY <1>3, <2>1 DEF IsLast
  <2>2. CASE events[r].key # Current
    <3>1. \A m \in (n + 1)..r : m \in (n + 1)..cur \/ m \in (cur + 1)..(r - 1) \/ m = r
      BY <1>1, <1>3, <1>6, <2>2 DEF IsLast
    <3>2. QED
      BY <1>1, <1>3, <1>5, <1>6, <2>2, <3>1 DEF IsLast
  <2>3. QED
    BY <2>1, <2>2
<1>8. LastChange(events, Current, r) = n
  BY <1>3, <1>7, LastIsUnique
<1>9. ChangeOf(Current, r) = n /\ ChangeOf(Current, cur) = LastChange(events, Current, cur)
  BY <1>8 DEF ChangeOf, LastChange
<1>10. QED
  BY <1>2, <1>3, <1>4, <1>9 DEF ValueAt

\* A step of one pod in which nothing is applied.
LEMMA PodQuiet ==
    ASSUME Inv, NEW p \in Pod, NEW q, Becomes(p, q),
           UNCHANGED <<keyspace, runVars, late, flips, lapsed>>,
           loaded' \in [Pod -> SUBSET (Value \cup {Nil})],
           \A x \in Pod : loaded[x] \subseteq loaded'[x],
           Fits(q, loaded'[p]), q.cursor <= revision,
           q.follows => /\ q.boot = Idle
                        /\ Serves(q) = ValueAt(Current, q.cursor)
                        /\ Serves(q) # Nil
    PROVE  Inv'
<1>1. Moves
  BY DEF Moves, runVars, Inv, RunsTyped
<1>2. /\ StoreInv' /\ EventsFit' /\ LateInv' /\ FlipsInv'
      /\ Grown /\ revision' \in Nat
  BY <1>1, Quiet
<1>3. RunsTyped'
  BY <1>1, <1>2, RunsStay
<1>4. RunHoldsLock'
  BY DEF Inv, RunHoldsLock, HasLock, runVars, keyspace, Lock
<1>5. PodsInv'
  BY <1>1, <1>2, OnePod DEF Becomes
<1>6. QED
  BY <1>2, <1>3, <1>4, <1>5 DEF Inv

\* What is known of a pod.
LEMMA PodKnown ==
    ASSUME Inv, NEW p \in Pod
    PROVE  /\ Fits(pods[p], loaded[p]) /\ loaded[p] \in SUBSET (Value \cup {Nil})
           /\ loaded \in [Pod -> SUBSET (Value \cup {Nil})]
           /\ pods[p].cursor <= revision
           /\ pods[p] \in PodType
           /\ pods[p].follows =>
                 /\ pods[p].boot = Idle
                 /\ Serves(pods[p]) = ValueAt(Current, pods[p].cursor)
                 /\ Serves(pods[p]) # Nil
BY DEF Inv, PodsInv, RunsTyped

\* A pod handles an event.
LEMMA WatchInv == ASSUME Inv, NEW p \in Pod, Watch(p) PROVE Inv'
<1> DEFINE o == pods[p]
           L == loaded[p]
<1>1. PICK r \in Offered(p) :
          LET q == [o EXCEPT !.cursor = IF r > @ THEN r ELSE @]
              v == events[r].value
          IN  Becomes(p, IF events[r].key = Staged THEN Preloads(q, "watch", v, Nil)
                         ELSE Activates([q EXCEPT !.follows = q.boot = Idle], "watch", v))
  BY DEF Watch
<1> DEFINE q == [o EXCEPT !.cursor = r]
           f == [o EXCEPT !.cursor = r, !.follows = o.boot = Idle]
           v == events[r].value
<1>2. /\ r \in 1..revision /\ r > o.cursor /\ events[r].key \in {Staged, Current}
      /\ v \in Value
      /\ ValueAt(Current, r) = IF events[r].key = Current THEN v
                               ELSE ValueAt(Current, o.cursor)
  BY OfferedIsNext
<1>3. /\ Fits(o, L) /\ L \in SUBSET (Value \cup {Nil}) /\ o.cursor <= revision
      /\ o \in PodType
      /\ o.follows => o.boot = Idle /\ Serves(o) = ValueAt(Current, o.cursor) /\ Serves(o) # Nil
  BY PodKnown
<1>4. revision \in Nat /\ r \in Nat /\ r <= revision
  BY <1>2, LenProperties DEF Inv, StoreInv, KeyspaceTypeOK, revision
<1>5. Fits(q, L) /\ Fits(f, L) /\ q \in PodType /\ f \in PodType
  BY <1>3, <1>4 DEF Fits, PodType, Slot
<1>6. /\ o.watch = Idle
      /\ UNCHANGED <<keyspace, runVars, late, flips, lapsed, loaded>>
  BY DEF Watch, histVars
<1>7. v # Nil
  BY <1>2, NilAssumption
<1>8. CASE events[r].key = Staged
  <2> DEFINE a == Preloads(q, "watch", v, Nil)
  <2>1. Becomes(p, a)
    BY <1>1, <1>2, <1>8
  <2>2. /\ Fits(a, L) /\ a.cursor = q.cursor /\ a.follows = q.follows
        /\ a.boot = q.boot /\ Serves(a) = q.active
    <3> HIDE DEF q, v, L
    <3>1. "watch" \in Slot
      BY DEF Slot
    <3>2. QED
      BY <1>2, <1>3, <1>5, <3>1, PreloadsFits
  <2>3. q.cursor = r /\ q.follows = o.follows /\ q.boot = o.boot /\ q.active = o.active
    BY <1>3 DEF PodType
  <2>4. Serves(o) = o.active
    BY <1>6 DEF Serves, Idle
  <2>5. events[r].key # Current
    BY <1>8, KeysDiffer
  <2> HIDE DEF a
  <2>6. a.follows => a.boot = Idle /\ Serves(a) = ValueAt(Current, a.cursor) /\ Serves(a) # Nil
    BY <1>2, <1>3, <2>2, <2>3, <2>4, <2>5
  <2>7. QED
    BY <1>3, <1>4, <1>6, <2>1, <2>2, <2>3, <2>6, PodKnown, PodQuiet
<1>9. CASE events[r].key = Current
  <2> DEFINE a == Activates(f, "watch", v)
  <2>1. Becomes(p, a)
    BY <1>1, <1>2, <1>3, <1>9, KeysDiffer DEF PodType
  <2>2. /\ Fits(a, L) /\ a.cursor = f.cursor /\ a.follows = f.follows
        /\ a.boot = f.boot /\ Serves(a) = v
    <3> HIDE DEF f, v, L
    <3>1. "watch" \in Slot
      BY DEF Slot
    <3>2. QED
      BY <1>2, <1>3, <1>5, <1>7, <3>1, ActivatesFits
  <2>3. f.cursor = r /\ f.follows = (o.boot = Idle) /\ f.boot = o.boot
    BY <1>3 DEF PodType
  <2> HIDE DEF a
  <2>4. a.follows => a.boot = Idle /\ Serves(a) = ValueAt(Current, a.cursor) /\ Serves(a) # Nil
    BY <1>2, <1>7, <1>9, <2>2, <2>3
  <2>5. QED
    BY <1>3, <1>4, <1>6, <2>1, <2>2, <2>3, <2>4, PodKnown, PodQuiet
<1>10. QED
  BY <1>2, <1>8, <1>9

\* Bootstrap reads both keys.
LEMMA BootReadsInv == ASSUME Inv, NEW p \in Pod, BootReads(p) PROVE Inv'
<1>1. PICK r1, r2 \in 0..revision :
          Becomes(p, Preloads(pods[p], "boot", ValueAt(Staged, r1), ValueAt(Current, r2)))
  BY DEF BootReads
<1> DEFINE a == Preloads(pods[p], "boot", ValueAt(Staged, r1), ValueAt(Current, r2))
<1>2. ValueAt(Staged, r1) \in Value \cup {Nil} /\ ValueAt(Current, r2) \in Value \cup {Nil}
  BY ChangeInRange, KeyAssumption DEF Inv
<1>3. Fits(a, loaded[p]) /\ a.cursor = pods[p].cursor /\ a.follows = pods[p].follows
  <2> DEFINE q == pods[p]
             L == loaded[p]
             v == ValueAt(Staged, r1)
             next == ValueAt(Current, r2)
  <2>1. Fits(q, L) /\ L \in SUBSET (Value \cup {Nil})
    BY PodKnown
  <2>2. "boot" \in Slot /\ v \in Value \cup {Nil} /\ next \in Value \cup {Nil}
    BY <1>2 DEF Slot
  <2> HIDE DEF q, L, v, next
  <2>3. LET b == Preloads(q, "boot", v, next)
        IN  Fits(b, L) /\ b.cursor = q.cursor /\ b.follows = q.follows
    BY <2>1, <2>2, PreloadsFits
  <2>4. QED
    BY <2>3 DEF q, L, v, next
<1>4. ~pods[p].follows
  BY PodKnown DEF BootReads, Idle
<1> HIDE DEF a
<1>5. Becomes(p, a) /\ UNCHANGED <<keyspace, runVars, late, flips, lapsed, loaded>>
  BY <1>1 DEF a, BootReads, histVars
<1>6. QED
  BY <1>3, <1>4, <1>5, PodKnown, PodQuiet

\* A version has been loaded.
LEMMA LoadsInv == ASSUME Inv, NEW p \in Pod, NEW s \in Slot, Loads(p, s) PROVE Inv'
<1> DEFINE q == pods[p]
           v == q[s].version
           L == loaded'[p]
<1>1. /\ Fits(q, loaded[p]) /\ q \in PodType /\ q.cursor <= revision
      /\ loaded \in [Pod -> SUBSET (Value \cup {Nil})]
      /\ q.follows => q.boot = Idle /\ Serves(q) = ValueAt(Current, q.cursor) /\ Serves(q) # Nil
  BY PodKnown
<1>2. /\ q[s].pc \in {"preloading", "activating"}
      /\ loaded' = [loaded EXCEPT ![p] = @ \cup {v}]
      /\ UNCHANGED <<keyspace, runVars, late, flips, lapsed>>
      /\ Becomes(p, IF q[s].pc = "preloading" THEN [q EXCEPT !.shadow = v, ![s].pc = "acking"]
                    ELSE Ends(SwappedLoaded(q, v), s))
  BY DEF Loads
<1>3. q[s] \in TaskType /\ v \in Value \cup {Nil} /\ v # Nil
  BY <1>1, <1>2 DEF PodType, TaskType, Slot, Fits
<1>4. /\ loaded' \in [Pod -> SUBSET (Value \cup {Nil})]
      /\ \A x \in Pod : loaded[x] \subseteq loaded'[x]
      /\ L = loaded[p] \cup {v}
  BY <1>1, <1>2, <1>3
<1>5. Idle \in TaskType /\ Idle.pc = "idle" /\ Idle.next = Nil
  BY DEF Idle, TaskType
<1>6. ASSUME NEW a, Becomes(p, a), Fits(a, L), a.cursor = q.cursor, a.follows = q.follows,
             q.follows => a.boot = q.boot /\ Serves(a) = Serves(q)
      PROVE  Inv'
  BY <1>1, <1>2, <1>4, <1>6, PodQuiet
<1>7. CASE s = "watch" /\ q[s].pc = "preloading"
  <2> DEFINE a == [q EXCEPT !.shadow = v, !.watch = [@ EXCEPT !.pc = "acking"]]
  <2>1. Becomes(p, a)
    BY <1>2, <1>7 DEF Becomes
  <2>2. Fits(a, L)
    <3>1. /\ a \in PodType /\ a.active = q.active /\ a.retired = q.retired /\ a.shadow = v
          /\ a.watch.pc = "acking" /\ a.watch.version = v /\ a.watch.next = q.watch.next
          /\ a.boot = q.boot
      BY <1>1, <1>3, <1>7 DEF PodType, TaskType
    <3> HIDE DEF a
    <3>2. QED
      BY <1>1, <1>3, <1>4, <1>7, <3>1 DEF Fits, Slot
  <2>3. a.cursor = q.cursor /\ a.follows = q.follows /\ a.boot = q.boot /\ Serves(a) = Serves(q)
    BY <1>1, <1>7 DEF PodType, TaskType, Serves
  <2>4. QED
    BY <1>6, <2>1, <2>2, <2>3
<1>8. CASE s = "boot" /\ q[s].pc = "preloading"
  <2> DEFINE a == [q EXCEPT !.shadow = v, !.boot = [@ EXCEPT !.pc = "acking"]]
  <2>1. Becomes(p, a)
    BY <1>2, <1>8 DEF Becomes
  <2>2. Fits(a, L)
    <3>1. /\ a \in PodType /\ a.active = q.active /\ a.retired = q.retired /\ a.shadow = v
          /\ a.boot.pc = "acking" /\ a.boot.version = v /\ a.boot.next = q.boot.next
          /\ a.watch = q.watch
      BY <1>1, <1>3, <1>8 DEF PodType, TaskType
    <3> HIDE DEF a
    <3>2. QED
      BY <1>1, <1>3, <1>4, <1>8, <3>1 DEF Fits, Slot
  <2>3. a.cursor = q.cursor /\ a.follows = q.follows /\ ~q.follows
    BY <1>1, <1>5, <1>8 DEF PodType
  <2>4. QED
    BY <1>6, <2>1, <2>2, <2>3
<1>9. CASE s = "watch" /\ q[s].pc = "activating"
  <2> DEFINE a == [q EXCEPT !.active = v, !.retired = q.active, !.watch = Idle]
  <2>1. Becomes(p, a)
    BY <1>2, <1>9 DEF Ends, SwappedLoaded
  <2>2. Fits(a, L)
    BY <1>1, <1>3, <1>4, <1>5, <1>9 DEF Fits, PodType, Slot
  <2>3. a.cursor = q.cursor /\ a.follows = q.follows /\ a.boot = q.boot /\ Serves(a) = Serves(q)
    BY <1>1, <1>5, <1>9 DEF PodType, Serves
  <2>4. QED
    BY <1>6, <2>1, <2>2, <2>3
<1>10. CASE s = "boot" /\ q[s].pc = "activating"
  <2> DEFINE a == [q EXCEPT !.active = v, !.retired = q.active, !.boot = Idle]
  <2>1. Becomes(p, a)
    BY <1>2, <1>10 DEF Ends, SwappedLoaded
  <2>2. Fits(a, L)
    BY <1>1, <1>3, <1>4, <1>5, <1>10 DEF Fits, PodType, Slot
  <2>3. a.cursor = q.cursor /\ a.follows = q.follows /\ ~q.follows
    BY <1>1, <1>5, <1>10 DEF PodType
  <2>4. QED
    BY <1>6, <2>1, <2>2, <2>3
<1>11. QED
  BY <1>2, <1>7, <1>8, <1>9, <1>10 DEF Slot

\* A pod as it starts fits.
LEMMA StartedFits ==
    ASSUME NEW L
    PROVE  Fits(Started, L) /\ Started.cursor = 0 /\ ~Started.follows
BY DEF Fits, Started, Idle, Task, PodType, TaskType, Slot

\* What a task does next, after a preload that failed or was acknowledged.
LEMMA NextFits ==
    ASSUME Inv, NEW p \in Pod, NEW s \in Slot, pods[p][s].pc \in {"preloading", "acking"}
    PROVE  LET q == pods[p]
               a == Activates(q, s, q[s].next)
           IN  /\ Fits(a, loaded[p]) /\ a.cursor = q.cursor
               /\ a.follows => /\ a.boot = Idle
                               /\ Serves(a) = ValueAt(Current, a.cursor)
                               /\ Serves(a) # Nil
<1> DEFINE q == pods[p]
           a == Activates(q, s, q[s].next)
<1>1. /\ Fits(q, loaded[p]) /\ q \in PodType /\ loaded[p] \in SUBSET (Value \cup {Nil})
      /\ q.follows => q.boot = Idle /\ Serves(q) = ValueAt(Current, q.cursor) /\ Serves(q) # Nil
  BY PodKnown
<1>2. q[s].next \in Value \cup {Nil} /\ (s = "watch" => q[s].next = Nil)
  BY <1>1 DEF Fits, PodType, TaskType, Slot
<1>3. /\ Fits(a, loaded[p]) /\ a.cursor = q.cursor /\ a.follows = q.follows
      /\ s = "watch" => a.boot = q.boot /\ Serves(a) = q.active
  <2> DEFINE L == loaded[p]
             v == q[s].next
  <2>1. Fits(q, L) /\ L \in SUBSET (Value \cup {Nil}) /\ v \in Value \cup {Nil}
    BY <1>1, <1>2
  <2> HIDE DEF q, L, v
  <2>2. LET b == Activates(q, s, v)
        IN  /\ Fits(b, L) /\ b.cursor = q.cursor /\ b.follows = q.follows
            /\ s = "watch" => b.boot = q.boot /\ Serves(b) = (IF v = Nil THEN q.active ELSE v)
    BY <2>1, ActivatesFits
  <2>3. QED
    BY <1>2, <2>2 DEF q, L, v
<1>4. CASE s = "watch"
  <2>1. Serves(q) = q.active
    BY <1>4 DEF Serves
  <2> HIDE DEF a
  <2>2. QED
    BY <1>1, <1>3, <1>4, <2>1 DEF a
<1>5. CASE s = "boot"
  <2>1. ~q.follows
    BY <1>1, <1>5 DEF Idle
  <2>2. QED
    BY <1>3, <2>1
<1>6. QED
  BY <1>4, <1>5 DEF Slot

\* A version could not be loaded.
LEMMA LoadFailsInv == ASSUME Inv, NEW p \in Pod, NEW s \in Slot, LoadFails(p, s) PROVE Inv'
<1> DEFINE q == pods[p]
<1>1. /\ UNCHANGED <<keyspace, runVars, late, flips, lapsed, loaded>>
      /\ q[s].pc \in {"preloading", "activating"}
      /\ Becomes(p, IF q[s].pc = "preloading" THEN Activates(q, s, q[s].next)
                    ELSE IF s = "watch" THEN [Ends(q, s) EXCEPT !.follows = FALSE]
                    ELSE Started)
  BY DEF LoadFails, histVars
<1>2. /\ Fits(q, loaded[p]) /\ q \in PodType /\ q.cursor <= revision
      /\ loaded' \in [Pod -> SUBSET (Value \cup {Nil})]
      /\ \A x \in Pod : loaded[x] \subseteq loaded'[x]
      /\ loaded'[p] = loaded[p]
  BY <1>1, PodKnown
<1>3. CASE q[s].pc = "preloading"
  <2> DEFINE a == Activates(q, s, q[s].next)
  <2>1. /\ Fits(a, loaded[p]) /\ a.cursor = q.cursor
        /\ a.follows => a.boot = Idle /\ Serves(a) = ValueAt(Current, a.cursor) /\ Serves(a) # Nil
    BY <1>3, NextFits
  <2>2. Becomes(p, a)
    BY <1>1, <1>3
  <2> HIDE DEF a
  <2>3. QED
    BY <1>1, <1>2, <2>1, <2>2, PodQuiet
<1>4. CASE q[s].pc = "activating" /\ s = "watch"
  <2> DEFINE a == [q EXCEPT !.watch = Idle, !.follows = FALSE]
  <2>1. Becomes(p, a)
    BY <1>1, <1>4 DEF Ends
  <2>2. Fits(a, loaded[p]) /\ a.cursor = q.cursor /\ ~a.follows
    BY <1>2 DEF Fits, PodType, TaskType, Slot, Idle
  <2> HIDE DEF a
  <2>3. QED
    BY <1>1, <1>2, <2>1, <2>2, PodQuiet
<1>5. CASE q[s].pc = "activating" /\ s = "boot"
  <2>1. Becomes(p, Started)
    BY <1>1, <1>5
  <2>2. revision \in Nat
    BY LenProperties DEF Inv, StoreInv, KeyspaceTypeOK, revision
  <2>3. Started.cursor <= revision
    BY <2>2, StartedFits
  <2>4. QED
    BY <1>1, <1>2, <2>1, <2>3, StartedFits, PodQuiet
<1>6. QED
  BY <1>1, <1>3, <1>4, <1>5 DEF Slot

\* A step of a pod in which its write is applied.
LEMMA PodWritten ==
    ASSUME Inv, NEW p \in Pod, NEW q, Becomes(p, q), NEW w, Sent(w), Applied(w),
           w.op # "release",
           UNCHANGED <<runVars, late, loaded, lapsed>>,
           Fits(q, loaded[p]), q.cursor <= revision,
           q.follows => /\ q.boot = Idle
                        /\ Serves(q) = ValueAt(Current, q.cursor)
                        /\ Serves(q) # Nil
    PROVE  Inv'
<1>1. Moves
  BY DEF Moves, runVars, Inv, RunsTyped
<1>2. /\ StoreInv' /\ EventsFit' /\ LateInv' /\ FlipsInv'
      /\ Grown /\ revision' \in Nat
      /\ \A c \in Controller : leases[Lock] = c => leases'[Lock] = c
  BY <1>1, Written
<1>3. RunsTyped'
  BY <1>1, <1>2, RunsStay
<1>4. RunHoldsLock'
  BY <1>2 DEF Inv, RunHoldsLock, HasLock, runVars, Lock
<1>5. PodsInv'
  BY <1>1, <1>2, OnePod DEF Becomes
<1>6. QED
  BY <1>2, <1>3, <1>4, <1>5 DEF Inv

\* A step of a pod in which its write is lost, or none is made.
LEMMA PodLoses ==
    ASSUME Inv, NEW p \in Pod, NEW q, Becomes(p, q), NEW w, Sent(w),
           late' \in {late, late \cup {w}},
           UNCHANGED <<keyspace, runVars, flips, loaded, lapsed>>,
           Fits(q, loaded[p]), q.cursor <= revision,
           q.follows => /\ q.boot = Idle
                        /\ Serves(q) = ValueAt(Current, q.cursor)
                        /\ Serves(q) # Nil
    PROVE  Inv'
<1>1. Moves
  BY DEF Moves, runVars, Inv, RunsTyped
<1>2. /\ StoreInv' /\ EventsFit' /\ LateInv' /\ FlipsInv'
      /\ Grown /\ revision' \in Nat
  BY <1>1, Quiet
<1>3. RunsTyped'
  BY <1>1, <1>2, RunsStay
<1>4. RunHoldsLock'
  BY DEF Inv, RunHoldsLock, HasLock, runVars, keyspace, Lock
<1>5. PodsInv'
  BY <1>1, <1>2, OnePod DEF Becomes
<1>6. QED
  BY <1>2, <1>3, <1>4, <1>5 DEF Inv

\* A pod acknowledges.
LEMMA AckPutInv == ASSUME Inv, NEW p \in Pod, NEW s \in Slot, AckPut(p, s) PROVE Inv'
<1> DEFINE q == pods[p]
           a == Activates(q, s, q[s].next)
           w == ReadyWrite(p, q[s].version)
<1>1. /\ q[s].pc = "acking" /\ Becomes(p, a) /\ UNCHANGED <<runVars, loaded, lapsed>>
      /\ \/ Applied(w) /\ UNCHANGED late
         \/ late' \in {late, late \cup {w}} /\ UNCHANGED <<keyspace, flips>>
  BY DEF AckPut, Acks, Loses
<1>2. /\ Fits(a, loaded[p]) /\ a.cursor = q.cursor
      /\ a.follows => a.boot = Idle /\ Serves(a) = ValueAt(Current, a.cursor) /\ Serves(a) # Nil
  BY <1>1, NextFits
<1>3. q.cursor <= revision /\ Fits(q, loaded[p]) /\ q \in PodType
      /\ loaded[p] \in SUBSET (Value \cup {Nil})
  BY PodKnown
<1>4. q[s].version \in loaded[p] \ {Nil} /\ q[s].version \in Value \cup {Nil}
  BY <1>1, <1>3 DEF Fits, Slot
<1>5. Sent(w) /\ w.op # "release"
  BY <1>4, KeyAssumption DEF ReadyWrite, Write, Sent, PodWrite, WriteType
<1> HIDE DEF a, w
<1>6. CASE Applied(w) /\ UNCHANGED late
  BY <1>1, <1>2, <1>3, <1>5, <1>6, PodWritten DEF runVars
<1>7. CASE late' \in {late, late \cup {w}} /\ UNCHANGED <<keyspace, flips>>
  BY <1>1, <1>2, <1>3, <1>5, <1>7, PodLoses DEF runVars
<1>8. QED
  BY <1>1, <1>6, <1>7

\* A pod restarts.
LEMMA PodRestartsInv == ASSUME Inv, NEW p \in Pod, PodRestarts(p) PROVE Inv'
<1> DEFINE w == Write(p, "delete", Ready(p), Nil, 0)
<1>1. /\ Becomes(p, Started) /\ UNCHANGED <<runVars, loaded, lapsed>>
      /\ \/ Applied(w) /\ UNCHANGED late
         \/ late' \in {late, late \cup {w}} /\ UNCHANGED <<keyspace, flips>>
  BY DEF PodRestarts
<1>2. Sent(w) /\ w.op # "release"
  <2>1. w \in WriteType /\ w.op # "release"
    BY KeyAssumption DEF Write, WriteType
  <2>2. PodWrite(w)
    BY DEF Write, PodWrite
  <2>3. QED
    BY <2>1, <2>2 DEF Sent
<1>3. revision \in Nat
  BY LenProperties DEF Inv, StoreInv, KeyspaceTypeOK, revision
<1>4. Fits(Started, loaded[p]) /\ Started.cursor <= revision /\ ~Started.follows
  BY <1>3, StartedFits
<1> HIDE DEF w
<1>5. CASE Applied(w) /\ UNCHANGED late
  BY <1>1, <1>2, <1>4, <1>5, PodWritten DEF runVars
<1>6. CASE late' \in {late, late \cup {w}} /\ UNCHANGED <<keyspace, flips>>
  BY <1>1, <1>2, <1>4, <1>6, PodLoses DEF runVars
<1>7. QED
  BY <1>1, <1>5, <1>6

-----------------------------------------------------------------------------
\* The keyspace by itself

\* A write that was given up is applied after all.
LEMMA LateWriteInv == ASSUME Inv, NEW w \in late, LateWrite(w) PROVE Inv'
<1>1. Sent(w)
  BY DEF Inv, LateInv
<1>2. /\ Applied(w) /\ late' = late \ {w}
      /\ UNCHANGED <<runVars, pods, loaded, lapsed>>
  BY DEF LateWrite
<1>3. Moves
  BY <1>2 DEF Moves, runVars, Inv, RunsTyped
<1>4. /\ StoreInv' /\ EventsFit' /\ LateInv' /\ FlipsInv' /\ PodsInv'
      /\ Grown /\ revision' \in Nat
      /\ \A c \in Controller :
            leases[Lock] = c /\ ~(w.op = "release" /\ w.by = c) => leases'[Lock] = c
  BY <1>1, <1>2, <1>3, Written
<1>5. RunsTyped'
  BY <1>2, <1>3, <1>4, RunsStay
<1>6. RunHoldsLock'
  <2> SUFFICES ASSUME NEW c \in Controller \ lapsed, HasLock(c) PROVE leases'[Lock] = c
    BY <1>2 DEF RunHoldsLock, HasLock, runVars, Lock
  <2>1. leases[Lock] = c
    BY DEF Inv, RunHoldsLock
  <2>2. ~(w.op = "release" /\ w.by = c)
    BY <1>1 DEF Sent, RunWrite, PodWrite, HasLock, Over
  <2>3. QED
    BY <1>4, <2>1, <2>2
<1>7. QED
  BY <1>4, <1>5, <1>6 DEF Inv

\* The lease of the lock lapses.
LEMMA LockLapsesInv == ASSUME Inv, LockLapses PROVE Inv'
<1>1. /\ Remove(Lock) /\ lapsed' = lapsed \cup {leases[Lock]}
      /\ UNCHANGED <<runVars, pods, late, flips, loaded>>
  BY DEF LockLapses, Lapse
<1>2. Moves
  BY <1>1 DEF Moves, runVars, Inv, RunsTyped
<1>3. /\ Lock \in Key /\ Current \in Key
      /\ StoreInv' /\ Effect(Lock, Nil) /\ Grown /\ revision' \in Nat
  BY <1>1, RemoveKeeps, KeyAssumption, LenProperties
  DEF Inv, Effect, StoreInv, KeyspaceTypeOK, revision
<1>4. EventsFit'
  <2>1. events' \in {events, Append(events, [key |-> Lock, value |-> Nil])}
    BY <1>3 DEF Effect
  <2>2. \A p \in Pod : loaded[p] \subseteq loaded'[p]
    BY <1>1
  <2>3. QED
    BY <1>3, <2>1, <2>2, KeysDiffer, EventFits DEF Inv
<1>5. LateInv'
  BY <1>1, <1>2, SentStays DEF Inv, LateInv
<1>6. FlipsInv'
  <2>1. RevOf(Current)' = RevOf(Current)
    BY <1>3, KeysDiffer DEF Effect, RevOf, Current
  <2>2. RevOf(Current) \in Nat
    <3>1. revision \in Nat
      BY LenProperties DEF Inv, StoreInv, KeyspaceTypeOK, revision
    <3>2. revision \in 0..revision
      BY <3>1
    <3>3. QED
      BY <1>3, <3>1, <3>2, ChangeInRange DEF Inv
  <2>3. QED
    BY <1>1, <1>2, <1>3, <2>1, <2>2, FlipsStay
<1>7. RunsTyped'
  BY <1>1, <1>2, <1>3, RunsStay
<1>8. RunHoldsLock'
  BY <1>1 DEF Inv, RunHoldsLock, HasLock, runVars, Lock
<1>9. PodsInv'
  BY <1>1, <1>2, <1>3, PodsStay
<1>10. QED
  BY <1>3, <1>4, <1>5, <1>6, <1>7, <1>8, <1>9 DEF Inv

-----------------------------------------------------------------------------
\* The fleet serves the first version, and the events say so.
LEMMA InitStore == Init => StoreInv /\ revision = 2
<1> SUFFICES ASSUME Init PROVE StoreInv /\ revision = 2
  OBVIOUS
<1>1. /\ Staged \in Key /\ Current \in Key /\ First \in Value /\ Staged # Current
      /\ First # Nil
  BY RunAssumption, KeyAssumption, NilAssumption, KeysDiffer
<1> DEFINE e == <<[key |-> Staged, value |-> First], [key |-> Current, value |-> First]>>
<1>2. /\ events = e /\ events \in Seq(Event) /\ revision = 2
      /\ events[1] = [key |-> Staged, value |-> First]
      /\ events[2] = [key |-> Current, value |-> First]
  BY <1>1 DEF Init, Event, revision
<1> HIDE DEF e
<1>3. KeyspaceTypeOK
  <2>1. store \in [Key -> Entry \cup {Nil}]
    BY <1>1 DEF Init, Entry
  <2>2. QED
    BY <1>2, <2>1 DEF Init, KeyspaceTypeOK
<1>4. ASSUME NEW k \in Key, NEW r \in 0..2
      PROVE  LET n == IF k = Staged /\ r >= 1 THEN 1 ELSE IF k = Current /\ r = 2 THEN 2 ELSE 0
             IN  IsLast(events, k, r, n) /\ LastChange(events, k, r) = n
  <2> DEFINE n == IF k = Staged /\ r >= 1 THEN 1 ELSE IF k = Current /\ r = 2 THEN 2 ELSE 0
  <2>1. events[1].key = Staged /\ events[2].key = Current
    BY <1>2
  <2>2. IsLast(events, k, r, n)
    <3>1. CASE r = 0
      BY <3>1 DEF IsLast
    <3>2. CASE r = 1
      BY <1>1, <2>1, <3>2 DEF IsLast
    <3>3. CASE r = 2
      BY <1>1, <2>1, <3>3 DEF IsLast
    <3>4. QED
      BY <3>1, <3>2, <3>3
  <2>3. r \in Nat
    OBVIOUS
  <2> HIDE DEF n
  <2>4. LastChange(events, k, r) = n
    BY <2>2, <2>3, LastIsUnique
  <2>5. QED
    BY <2>2, <2>4 DEF n
<1>5. ChangesKnown
  BY <1>2, <1>4 DEF ChangesKnown
<1>6. EventsTellStore
  <2> SUFFICES ASSUME NEW k \in Key
               PROVE  /\ ValueAt(k, 2) = (IF store[k] = Nil THEN Nil ELSE store[k].value)
                      /\ store[k] # Nil => store[k].rev = ChangeOf(k, 2)
    BY <1>2 DEF EventsTellStore
  <2>1. ChangeOf(k, 2) = IF k = Staged THEN 1 ELSE IF k = Current THEN 2 ELSE 0
    <3>1. LastChange(events, k, 2) = IF k = Staged THEN 1 ELSE IF k = Current THEN 2 ELSE 0
      BY <1>4
    <3>2. QED
      BY <3>1 DEF ChangeOf, LastChange
  <2>2. \A rv, l, v : [value |-> v, rev |-> rv, lease |-> l] \in Entry
                         => [value |-> v, rev |-> rv, lease |-> l] # Nil
    BY NilAssumption
  <2>3. CASE k = Staged
    <3>1. store[k] = [value |-> First, rev |-> 1, lease |-> Nil]
      BY <2>3 DEF Init
    <3>2. [value |-> First, rev |-> 1, lease |-> Nil] \in Entry
      BY <1>1 DEF Entry
    <3>3. QED
      BY <1>2, <2>1, <2>2, <2>3, <3>1, <3>2 DEF ValueAt
  <2>4. CASE k = Current
    <3>1. store[k] = [value |-> First, rev |-> 2, lease |-> Nil]
      BY <1>1, <2>4 DEF Init
    <3>2. [value |-> First, rev |-> 2, lease |-> Nil] \in Entry
      BY <1>1 DEF Entry
    <3>3. QED
      BY <1>1, <1>2, <2>1, <2>2, <2>4, <3>1, <3>2 DEF ValueAt
  <2>5. CASE k \notin {Staged, Current}
    <3>1. store[k] = Nil
      BY <2>5 DEF Init
    <3>2. QED
      BY <2>1, <2>5, <3>1 DEF ValueAt
  <2>6. QED
    BY <2>3, <2>4, <2>5
<1>7. QED
  BY <1>2, <1>3, <1>5, <1>6 DEF StoreInv

\* The invariant holds at first.
LEMMA InitInv == Init => Inv
<1> SUFFICES ASSUME Init PROVE Inv
  OBVIOUS
<1>1. StoreInv /\ revision = 2
  BY InitStore
<1>2. /\ First \in Value /\ First # Nil /\ Current \in Key /\ Staged # Current
  BY RunAssumption, KeyAssumption, NilAssumption, KeysDiffer
<1>3. /\ events[1] = [key |-> Staged, value |-> First]
      /\ events[2] = [key |-> Current, value |-> First]
  BY DEF Init
<1>4. EventsFit
  <2> SUFFICES ASSUME NEW n \in {1, 2}
               PROVE  /\ events[n].value # Nil
                      /\ \A p \in Pod : events[n].key # Ready(p)
    BY <1>1 DEF EventsFit
  <2>1. QED
    BY <1>2, <1>3, KeysDiffer
<1>5. RunsTyped
  BY <1>1, <1>2, RunAssumption DEF Init, RunsTyped, Stages
<1>6. LateInv /\ FlipsInv /\ RunHoldsLock
  BY DEF Init, LateInv, FlipsInv, FlipOnce, RunHoldsLock, HasLock
<1>7. ValueAt(Current, 2) = First
  <2>1. store[Current] = [value |-> First, rev |-> 2, lease |-> Nil]
    BY <1>2 DEF Init
  <2>2. store[Current] # Nil
    BY <1>2, <2>1, NilAssumption DEF Entry
  <2>3. QED
    BY <1>1, <1>2, <2>1, <2>2 DEF StoreInv, EventsTellStore
<1>8. PodsInv
  <2> DEFINE q == [Started EXCEPT !.cursor = 2, !.active = First, !.boot = Idle, !.follows = TRUE]
  <2>1. \A p \in Pod : pods[p] = q /\ loaded[p] = {First}
    BY DEF Init
  <2>2. /\ q \in PodType /\ q.cursor = 2 /\ q.watch = Idle /\ q.boot = Idle
        /\ q.active = First /\ q.shadow = Nil /\ q.retired = Nil
    <3>1. Idle \in TaskType
      BY DEF Idle, TaskType
    <3>2. QED
      BY <1>2, <3>1 DEF Started, PodType
  <2>4. pods = [p \in Pod |-> q]
    BY DEF Init
  <2> HIDE DEF q
  <2>3. Fits(q, {First}) /\ Serves(q) = First
    BY <2>2 DEF Fits, Serves, Idle, Slot
  <2>5. pods \in [Pod -> PodType]
    BY <2>2, <2>4
  <2>6. QED
    BY <1>1, <1>2, <1>7, <2>1, <2>2, <2>3, <2>5 DEF PodsInv
<1>9. QED
  BY <1>1, <1>4, <1>5, <1>6, <1>8 DEF Inv

\* Every step keeps it.
LEMMA NextInv == ASSUME Inv, [Next]_vars PROVE Inv'
<1>1. CASE ControllerStep
  BY <1>1, AnsweredInv, UnansweredInv, KilledInv, ReadsInv DEF ControllerStep
<1>2. CASE PodStep
  BY <1>2, WatchInv, BootReadsInv, PodRestartsInv, LoadsInv, LoadFailsInv, AckPutInv DEF PodStep
<1>3. CASE KeyspaceStep
  BY <1>3, LockLapsesInv, LateWriteInv DEF KeyspaceStep
<1>4. CASE UNCHANGED vars
  <2>1. UNCHANGED <<keyspace, runVars, pods, late, flips, loaded, lapsed>>
    BY <1>4 DEF vars, histVars
  <2>2. Moves
    BY <2>1 DEF Moves, runVars, Inv, RunsTyped
  <2>3. /\ StoreInv' /\ EventsFit' /\ LateInv' /\ FlipsInv' /\ PodsInv'
        /\ Grown /\ revision' \in Nat
    BY <2>1, <2>2, Quiet
  <2>4. RunsTyped' /\ RunHoldsLock'
    BY <2>1, <2>2, <2>3, RunsStay DEF Inv, RunHoldsLock, HasLock, runVars, keyspace, Lock
  <2>5. QED
    BY <2>3, <2>4 DEF Inv
<1>5. QED
  BY <1>1, <1>2, <1>3, <1>4 DEF Next

\* The invariant is one of the rollout.
THEOREM Invariance == Spec => []Inv
<1>1. Inv /\ [Next]_vars => Inv'
  BY NextInv
<1>2. QED
  BY InitInv, <1>1, PTL DEF Spec

-----------------------------------------------------------------------------
\* The variables range over what the code can store in them; a pod that
\* follows serves something.
THEOREM RolloutTypeCorrect == Spec => []TypeOK
<1>1. Inv => TypeOK
  <2> SUFFICES ASSUME Inv PROVE TypeOK
    OBVIOUS
  <2>1. KeyspaceTypeOK /\ \A c \in Controller : read[c] <= revision
    BY DEF Inv, StoreInv, RunsTyped
  <2>2. ASSUME NEW p \in Pod
        PROVE  /\ pods[p].cursor <= revision
               /\ {pods[p].active, pods[p].shadow, pods[p].retired} \subseteq loaded[p] \cup {Nil}
               /\ pods[p].follows /\ pods[p].watch = Idle => pods[p].active # Nil
    BY PodKnown DEF Fits, Serves, Idle
  <2>3. QED
    BY <2>1, <2>2 DEF TypeOK
<1>2. QED
  BY Invariance, <1>1, PTL

\* The events of state-machine.js tell a watcher what the keyspace holds.
THEOREM EventsTell == Spec => []EventsTellStore
<1>1. Inv => EventsTellStore
  BY DEF Inv, StoreInv
<1>2. QED
  BY Invariance, <1>1, PTL

\* No run of rollout-controller.js flips model/current twice.
THEOREM FlipsOnce == Spec => []FlipOnce
<1>1. Inv => FlipOnce
  BY DEF Inv, FlipsInv
<1>2. QED
  BY Invariance, <1>1, PTL

\* A forward run flips to a version that enough pods have had in memory.
THEOREM FlipsAreLoaded == Spec => []FlipIsLoaded
<1>1. Inv => FlipIsLoaded
  BY DEF Inv, FlipsInv, FlipIsLoaded, Enough
<1>2. QED
  BY Invariance, <1>1, PTL

\* A run whose lock has not lapsed holds it until it releases it.
THEOREM RunsHoldLock == Spec => []RunHoldsLock
<1>1. Inv => RunHoldsLock
  BY DEF Inv
<1>2. QED
  BY Invariance, <1>1, PTL

\* A pod of serving/index.js serves the last flip its watch has handled.
THEOREM PodsFollow == Spec => []FollowsCurrent
<1>1. Inv => FollowsCurrent
  BY PodKnown DEF FollowsCurrent, Serves
<1>2. QED
  BY Invariance, <1>1, PTL

=============================================================================
