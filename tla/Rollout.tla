------------------------------ MODULE Rollout ------------------------------
(***************************************************************************)
(* A model rollout: controllers (serving/rollout-controller.js, one run of *)
(* rollout-cli.js each) that take the lock, stage a version, wait for the  *)
(* pods to acknowledge it and flip model/current; serving pods             *)
(* (serving/index.js) that preload what is staged and activate what is     *)
(* current; both over serving/consensus-client.js on the keyspace.         *)
(*                                                                         *)
(* A read that names no leader is answered by any replica, and one that    *)
(* does by a leader that trusts its lease: both are answered as of some    *)
(* revision, and a read that fails counts as one of revision 0. A write    *)
(* carries no client id: a copy of it whose answer did not come in time    *)
(* may still be applied, once, at any later time.                          *)
(***************************************************************************)
EXTENDS KeyValue, FiniteSets

CONSTANTS
    Controller, Pod, Version,
    Target,         \* the version of each controller's run
    Forward,        \* the controllers that roll out; the others roll back
    First,          \* the version the fleet serves at the beginning
    ExpectedPods,   \* EXPECTED_PODS of the forward runs
    MaxFaults       \* bound: lost answers, lapses of the lock, jobs killed,
                    \* artifacts that cannot be loaded, restarts of pods

ASSUME RunAssumption ==
    /\ Target \in [Controller -> Version] /\ First \in Version
    /\ Forward \subseteq Controller /\ ExpectedPods \in Nat \ {0}
    /\ IsFiniteSet(Pod)

Lock     == <<"rollout/lock">>
Staged   == <<"model/staged">>
Current  == <<"model/current">>
Ready(p) == <<"model/ready", p>>

ASSUME KeyAssumption ==
    /\ {Lock, Staged, Current} \subseteq Key
    /\ \A p \in Pod : Ready(p) \in Key
    /\ Version \subseteq Value /\ Controller \subseteq Value

VARIABLES
    pc,             \* where each controller's run is
    read,           \* the revision its next swap expects
    pods,           \* the state of each pod
    late            \* writes that were given up and may still be applied

VARIABLES           \* history and fault counts
    flips,          \* who changed model/current, and the revision it became
    loaded,         \* per pod, the versions it has ever had in memory
    lapsed,         \* the controllers whose lock lapsed
    faults

runVars    == <<pc, read>>
histVars   == <<flips, loaded, lapsed>>
vars       == <<keyspace, runVars, pods, late, histVars, faults>>

\* A task of a pod. The watch handles one event at a time; bootstrap first
\* reads what is staged and current, then handles the one and the other.
Idle == [pc |-> "idle", version |-> Nil, next |-> Nil]

Task(at, v, next) == [pc |-> at, version |-> v, next |-> next]

\* A pod as its process starts.
Started ==
    [cursor |-> 0, active |-> Nil, shadow |-> Nil, retired |-> Nil,
     watch |-> Idle, boot |-> Task("reading", Nil, Nil),
     \* History: the last change of model/current that the watch handled was
     \* handled after bootstrap had ended, and could be loaded.
     follows |-> FALSE]

\* The fleet serves the first version.
Init ==
    /\ events = <<[key |-> Staged, value |-> First], [key |-> Current, value |-> First]>>
    /\ store = [k \in Key |->
            IF k = Staged THEN [value |-> First, rev |-> 1, lease |-> Nil]
            ELSE IF k = Current THEN [value |-> First, rev |-> 2, lease |-> Nil]
            ELSE Nil]
    /\ leases = [k \in Key |-> Nil]
    /\ pc = [c \in Controller |-> "acquiring"]
    /\ read = [c \in Controller |-> 0]
    /\ pods = [p \in Pod |-> [Started EXCEPT !.cursor = 2, !.active = First,
                                             !.boot = Idle, !.follows = TRUE]]
    /\ late = {} /\ flips = {} /\ lapsed = {}
    /\ loaded = [p \in Pod |-> {First}]
    /\ faults = 0

-----------------------------------------------------------------------------
\* Writes

Write(by, op, k, v, rev) ==
    [by |-> by, op |-> op, key |-> k, value |-> v, rev |-> rev]

\* The entry of a write is committed and applied.
Applied(w) ==
    /\ Apply([op |-> w.op, key |-> w.key, value |-> w.value, rev |-> w.rev])
    /\ flips' = IF w.key = Current /\ Accepts(w)
                THEN flips \cup {<<w.by, revision + 1>>} ELSE flips

\* A restart, which brings a bootstrap with it, counts for two.
FailsFor(n) == faults + n <= MaxFaults /\ faults' = faults + n

Fails == FailsFor(1)

\* The answer of a write does not come in time.
Loses(w) ==
    /\ Fails
    /\ late' \in {late, late \cup {w}}

LateWrite(w) ==
    /\ w \in late
    /\ late' = late \ {w}
    /\ Applied(w)
    /\ UNCHANGED <<runVars, pods, loaded, lapsed, faults>>

\* The holder has not renewed its lease in time.
LockLapses ==
    /\ Fails /\ Lapse(Lock)
    /\ lapsed' = lapsed \cup {leases[Lock]}
    /\ UNCHANGED <<runVars, pods, late, flips, loaded>>

-----------------------------------------------------------------------------
\* Controllers

\* The write a controller waits for.
Pending(c) ==
    CASE pc[c] = "acquiring" -> Write(c, "acquire", Lock, c, 0)
      [] pc[c] = "staging"   -> Write(c, "cas", Staged, Target[c], read[c])
      [] pc[c] = "flipping"  -> Write(c, "cas", Current, Target[c], read[c])
      [] pc[c] = "releasing" -> Write(c, "release", Lock, c, 0)

Writing == {"acquiring", "staging", "flipping", "releasing"}

Goes(c, to) == pc' = [pc EXCEPT ![c] = to]

\* Where a run goes with the answer to its write. A refused lock is asked for
\* again until the wait is over.
AfterAnswer(c) ==
    CASE pc[c] = "acquiring" ->
            IF Accepts(Pending(c)) THEN {IF c \in Forward THEN "stage" ELSE "activate"}
            ELSE {"acquiring", "failed"}
      [] pc[c] = "staging"   -> {IF Accepts(Pending(c)) THEN "waiting" ELSE "releasing"}
      [] pc[c] = "flipping"  -> {"releasing"}
      [] pc[c] = "releasing" -> {"done"}

\* Where it goes when no attempt is answered: write throws, and what has the
\* lock releases it.
AfterThrow(c) ==
    CASE pc[c] = "acquiring" -> "failed"
      [] pc[c] = "releasing" -> "done"
      [] OTHER               -> "releasing"

Answered(c) ==
    /\ pc[c] \in Writing
    /\ Applied(Pending(c))
    /\ \E to \in AfterAnswer(c) : Goes(c, to)
    /\ UNCHANGED <<read, pods, late, loaded, lapsed, faults>>

\* write tries again, at this or another replica, or throws.
Unanswered(c) ==
    /\ pc[c] \in Writing
    /\ Loses(Pending(c))
    /\ \E to \in {pc[c], AfterThrow(c)} : Goes(c, to)
    /\ UNCHANGED <<keyspace, read, pods, histVars>>

\* The job is killed.
Killed(c) ==
    /\ pc[c] \notin {"done", "failed"} /\ Fails
    /\ late' = IF pc[c] \in Writing THEN late \cup {Pending(c)} ELSE late
    /\ Goes(c, "failed")
    /\ UNCHANGED <<keyspace, read, pods, histVars>>

\* A read that asks for no stale answer is answered as of now, unless it
\* fails or the leader that answers it has been succeeded.
AsOf(r) == IF r = revision THEN UNCHANGED faults ELSE Fails

\* stage reads the revision its swap expects.
ReadStaged(c) ==
    /\ pc[c] = "stage"
    /\ \E r \in 0..revision :
          AsOf(r) /\ read' = [read EXCEPT ![c] = ChangeOf(Staged, r)]
    /\ Goes(c, "staging")
    /\ UNCHANGED <<keyspace, pods, late, histVars>>

Acked(v, r) == {p \in Pod : ValueAt(Ready(p), r) = v}

\* acks lists the pods that are ready, on the replica of its client.
SeesAcks(c) ==
    /\ pc[c] = "waiting"
    /\ \E r \in 0..revision : Cardinality(Acked(Target[c], r)) >= ExpectedPods
    /\ Goes(c, "activate")
    /\ UNCHANGED <<keyspace, read, pods, late, histVars, faults>>

\* The pods did not acknowledge in time.
StageFails(c) ==
    /\ pc[c] = "waiting"
    /\ Goes(c, "releasing")
    /\ UNCHANGED <<keyspace, read, pods, late, histVars, faults>>

\* activate does nothing about a version that is current.
ReadCurrent(c) ==
    /\ pc[c] = "activate"
    /\ \E r \in 0..revision :
          /\ AsOf(r)
          /\ IF ValueAt(Current, r) = Target[c]
             THEN Goes(c, "releasing") /\ UNCHANGED read
             ELSE /\ Goes(c, "flipping")
                  /\ read' = [read EXCEPT ![c] = ChangeOf(Current, r)]
    /\ UNCHANGED <<keyspace, pods, late, histVars>>

ControllerStep ==
    \E c \in Controller :
        \/ Answered(c) \/ Unanswered(c) \/ Killed(c)
        \/ ReadStaged(c) \/ SeesAcks(c) \/ StageFails(c) \/ ReadCurrent(c)

-----------------------------------------------------------------------------
\* Pods: what the tasks do to the slots

Slot == {"watch", "boot"}

\* Task s of a pod has nothing left to do.
Ends(q, s) == [q EXCEPT ![s] = Idle]

\* Mutant: the pointer is always taken from the shadow slot.
SwappedShadow(q, v) == [q EXCEPT !.active = q.shadow, !.retired = q.active, !.shadow = Nil]

\* The pointer swap. Only a version taken from the shadow slot leaves it.
Swapped(q, v) ==
    [q EXCEPT !.active = v, !.retired = q.active,
              !.shadow = IF q.shadow = v THEN Nil ELSE @]

SwappedLoaded(q, v) == [q EXCEPT !.active = v, !.retired = q.active]

\* activate, up to its await: a swap if a slot has the version.
Activates(q, s, v) ==
    IF v \in {Nil, q.active} THEN Ends(q, s)
    ELSE IF v \in {q.shadow, q.retired} THEN Ends(Swapped(q, v), s)
    ELSE [q EXCEPT ![s] = Task("activating", v, Nil)]

\* preload, up to its await, for a task that then activates next.
Preloads(q, s, v, next) ==
    IF v \in {Nil, q.shadow, q.active} THEN Activates(q, s, next)
    ELSE [q EXCEPT ![s] = Task("preloading", v, next)]

Becomes(p, q) == pods' = [pods EXCEPT ![p] = q]

-----------------------------------------------------------------------------
\* Pods: steps

\* Mutant: a replica that is behind wakes a watcher with an event that the
\* watcher has seen.
OfferedAny(p) ==
    {r \in 1..revision : events[r].key \in {Staged, Current} /\ events[r].value # Nil}

\* The next event a watcher is given, by any replica that has it; those that
\* onModelEvent ignores are passed over.
Offered(p) ==
    LET new == {r \in (pods[p].cursor + 1)..revision :
                  events[r].key \in {Staged, Current} /\ events[r].value # Nil}
    IN  {r \in new : \A x \in new : r <= x}

\* onModelEvent, up to its first await. The cursor has moved by then.
Watch(p) ==
    /\ pods[p].watch = Idle
    /\ \E r \in Offered(p) :
          LET q == [pods[p] EXCEPT !.cursor = IF r > @ THEN r ELSE @]
              v == events[r].value
          IN  Becomes(p, IF events[r].key = Staged THEN Preloads(q, "watch", v, Nil)
                         ELSE Activates([q EXCEPT !.follows = q.boot = Idle],
                                        "watch", v))
    /\ UNCHANGED <<keyspace, runVars, late, histVars, faults>>

\* bootstrap has read both keys, as of two revisions.
BootReads(p) ==
    /\ pods[p].boot.pc = "reading"
    /\ \E r1, r2 \in 0..revision :
          Becomes(p, Preloads(pods[p], "boot", ValueAt(Staged, r1), ValueAt(Current, r2)))
    /\ UNCHANGED <<keyspace, runVars, late, histVars, faults>>

\* Mutant: the pod acknowledges before it has loaded.
EarlyAck(q, s) == q[s].pc = "preloading"

\* The tasks that write their readiness.
Acks(q, s) == q[s].pc = "acking"

\* loadVersion is done, and what follows up to the next await.
Loads(p, s) ==
    LET q == pods[p]
        v == q[s].version
    IN  /\ q[s].pc \in {"preloading", "activating"}
        /\ Becomes(p, IF q[s].pc = "preloading"
                      THEN [q EXCEPT !.shadow = v, ![s].pc = "acking"]
                      ELSE Ends(SwappedLoaded(q, v), s))
        /\ loaded' = [loaded EXCEPT ![p] = @ \cup {v}]
        /\ UNCHANGED <<keyspace, runVars, late, flips, lapsed, faults>>

\* loadVersion throws. A preload gives up quietly; the watch loses the event
\* it was handling; an unhandled rejection of bootstrap ends the process.
LoadFails(p, s) ==
    LET q == pods[p]
    IN  /\ q[s].pc \in {"preloading", "activating"} /\ Fails
        /\ Becomes(p, IF q[s].pc = "preloading" THEN Activates(q, s, q[s].next)
                      ELSE IF s = "watch" THEN [Ends(q, s) EXCEPT !.follows = FALSE]
                      ELSE Started)
        /\ UNCHANGED <<keyspace, runVars, late, histVars>>

ReadyWrite(p, v) == Write(p, "set", Ready(p), v, 0)

\* The put of the acknowledgement is applied, or fails and is not repeated.
AckPut(p, s) ==
    LET q == pods[p]
    IN  /\ Acks(q, s)
        /\ Becomes(p, Activates(q, s, q[s].next))
        /\ \/ Applied(ReadyWrite(p, q[s].version)) /\ UNCHANGED <<late, faults>>
           \/ Loses(ReadyWrite(p, q[s].version)) /\ UNCHANGED <<keyspace, flips>>
        /\ UNCHANGED <<runVars, loaded, lapsed>>

\* The pod crashes, or is told to stop and withdraws its acknowledgement; in
\* its place one of the same name starts.
PodRestarts(p) ==
    /\ FailsFor(2)
    /\ Becomes(p, Started)
    /\ LET withdrawal == Write(p, "delete", Ready(p), Nil, 0)
       IN  \/ UNCHANGED <<keyspace, flips>> /\ late' \in {late, late \cup {withdrawal}}
           \/ Applied(withdrawal) /\ UNCHANGED late
    /\ UNCHANGED <<runVars, loaded, lapsed>>

PodStep ==
    \E p \in Pod :
        \/ Watch(p) \/ BootReads(p) \/ PodRestarts(p)
        \/ \E s \in Slot : Loads(p, s) \/ LoadFails(p, s) \/ AckPut(p, s)

KeyspaceStep == LockLapses \/ \E w \in late : LateWrite(w)

Next == ControllerStep \/ PodStep \/ KeyspaceStep

Spec == Init /\ [][Next]_vars

-----------------------------------------------------------------------------
\* The variables range over what the code can store in them.
TypeOK ==
    /\ KeyspaceTypeOK
    /\ \A c \in Controller : read[c] <= revision
    /\ \A p \in Pod :
          /\ pods[p].cursor <= revision
          /\ {pods[p].active, pods[p].shadow, pods[p].retired}
                \subseteq loaded[p] \cup {Nil}
          /\ pods[p].follows /\ pods[p].watch = Idle => pods[p].active # Nil

\* Each run flips model/current at most once, however often its swap is sent
\* and whatever others flipped in between: a late copy does not undo a
\* rollback.
FlipOnce == \A a, b \in flips : a[1] = b[1] => a = b

\* A forward run flips only to a version that as many pods as it expects have
\* had in memory, although it learns so from a replica that may be behind.
FlipIsLoaded ==
    \A a \in flips :
        a[1] \in Forward =>
            Cardinality({p \in Pod : Target[a[1]] \in loaded[p]}) >= ExpectedPods

\* A run between lock and release holds the lock unless it has lapsed: late
\* and repeated acquisitions and releases take it from nobody.
HasLock(c) == pc[c] \in {"stage", "staging", "waiting", "activate", "flipping"}

RunHoldsLock ==
    \A c \in Controller \ lapsed : HasLock(c) => leases[Lock] = c

\* A pod whose watch handled the last flip it was told of, after bootstrap,
\* serves it: moving between replicas neither skips a flip nor repeats one.
FollowsCurrent ==
    \A p \in Pod :
        pods[p].follows /\ pods[p].watch.pc # "activating" =>
            pods[p].active = ValueAt(Current, pods[p].cursor)

=============================================================================
