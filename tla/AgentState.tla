------------------------------ MODULE AgentState ------------------------------
(***************************************************************************)
(* The reducer of replica/agent-state.js: what each committed agent.*      *)
(* command does to the executions and to their ledger of external effects. *)
(* Commands come one by one, in log order, from any client; a command that *)
(* is refused (409) or repeats what is already recorded changes nothing.   *)
(* Every operation has a parameter ok: whether it is answered 200.         *)
(*                                                                         *)
(* A record's version and history, the workflow's own state and the text   *)
(* of commands are left out. An effect id is the digest of its execution,  *)
(* action and parameters, so it determines them.                           *)
(***************************************************************************)
EXTENDS Integers, FiniteSets

CONSTANTS
    Execution, Effect, Snapshot, Nil,
    Owner,        \* the execution an effect belongs to
    Result,       \* what the provider may return
    MaxStep,      \* bound: steps of an execution
    MaxAttempts   \* bound: dispatches of an effect

ASSUME NilAssumption == Nil \notin Snapshot \cup Result
ASSUME OwnerAssumption == Owner \in [Effect -> Execution]
ASSUME AgentBoundAssumption == {MaxStep, MaxAttempts} \subseteq Nat

Running  == "RUNNING"
Paused   == "PAUSED_SEMANTIC_CONFLICT"
Complete == "COMPLETE"

Intended  == "INTENT_RECORDED"
Uncertain == "RECONCILIATION_REQUIRED"
Returned  == "RESULT_RECORDED"
Committed == "EFFECT_COMMITTED"

VARIABLES
    executions,   \* the pinned snapshot, step, status and semantic conflict
                  \* (its available snapshot) of each execution, or Nil
    effects       \* the ledger entry of each effect, or Nil

agent == <<executions, effects>>

ExecutionRecord ==
    [snapshot : Snapshot, step : Nat, status : {Running, Paused, Complete},
     conflict : Snapshot \cup {Nil}]

EffectRecord ==
    [snapshot : Snapshot, status : {Intended, Uncertain, Returned, Committed},
     attempts : Nat, result : Result \cup {Nil}]

ASSUME RecordAssumption == Nil \notin ExecutionRecord \cup EffectRecord

AgentInit ==
    /\ executions = [e \in Execution |-> Nil]
    /\ effects = [f \in Effect |-> Nil]

-----------------------------------------------------------------------------
\* A command applies, repeats what is recorded, or is refused.

OnExecution(e, applies, repeats, x, ok) ==
    /\ ok = (applies \/ repeats)
    /\ executions' = IF applies THEN [executions EXCEPT ![e] = x] ELSE executions
    /\ UNCHANGED effects

OnEffect(f, applies, repeats, x, ok) ==
    /\ ok = (applies \/ repeats)
    /\ effects' = IF applies THEN [effects EXCEPT ![f] = x] ELSE effects
    /\ UNCHANGED executions

IsRunning(e) == executions[e] # Nil /\ executions[e].status = Running

Settled(f) == effects[f] # Nil => effects[f].status = Committed

HasResult(f) == effects[f] # Nil /\ effects[f].status \in {Returned, Committed}

-----------------------------------------------------------------------------
\* Executions

\* Creating it again is confirmed as long as nothing has happened to it.
Create(e, s, ok) ==
    LET x == executions[e] IN
    OnExecution(e, x = Nil,
                x # Nil /\ x.snapshot = s /\ x.step = 0,
                [snapshot |-> s, step |-> 0, status |-> Running, conflict |-> Nil],
                ok)

\* expectedStep fences the workers that lost the race.
Advance(e, expectedStep, ok) ==
    LET x == executions[e] IN
    OnExecution(e, IsRunning(e) /\ x.step = expectedStep, FALSE,
                [x EXCEPT !.step = @ + 1], ok)

\* Mutant: an effect in doubt does not count as unfinished.
MayCompleteInDoubt(e, expectedStep) ==
    /\ IsRunning(e) /\ executions[e].step = expectedStep
    /\ \A f \in Effect : Owner[f] = e => Settled(f) \/ effects[f].status = Uncertain

MayComplete(e, expectedStep) ==
    /\ IsRunning(e) /\ executions[e].step = expectedStep
    /\ \A f \in Effect : Owner[f] = e => Settled(f)

Finish(e, expectedStep, ok) ==
    LET x == executions[e] IN
    OnExecution(e, MayComplete(e, expectedStep),
                x # Nil /\ x.step = expectedStep /\ x.status = Complete,
                [x EXCEPT !.status = Complete], ok)

\* No guard on the status. The conflict records the index of its command, so
\* reporting it again counts as another one.
DetectConflict(e, available, ok) ==
    LET x == executions[e] IN
    OnExecution(e, x # Nil /\ available # x.snapshot,
                x # Nil /\ available = x.snapshot,
                [x EXCEPT !.conflict = available, !.status = Paused], ok)

\* Mutant: the conflict outlives the transition.
ResolvedButKept(x, to) == [x EXCEPT !.snapshot = to, !.status = Running]

Resolved(x, to) ==
    [x EXCEPT !.snapshot = to, !.conflict = Nil, !.status = Running]

\* The tests of the conflict are nested in the tests of the starting snapshot
\* and of the approval, so an approved transition needs no conflict. One that
\* is not approved, with no conflict to compare with, throws in the middle of
\* the reducer: nothing changes, no result is kept for its index, and a
\* missing result is answered 200 (propose, replica/index.js).
TransitionSnapshot(e, from, to, approved, ok) ==
    LET x == executions[e] IN
    OnExecution(e, x # Nil /\ x.snapshot = from /\ approved,
                x # Nil /\ x.snapshot = from /\ ~approved /\ x.conflict = Nil,
                Resolved(x, to), ok)

-----------------------------------------------------------------------------
\* The effect ledger

\* Mutant: an intent is accepted whatever the status of the execution.
MayIntendAnytime(f, s) ==
    /\ executions[Owner[f]] # Nil /\ executions[Owner[f]].snapshot = s
    /\ effects[f] = Nil

MayIntend(f, s) ==
    /\ IsRunning(Owner[f]) /\ executions[Owner[f]].snapshot = s
    /\ effects[f] = Nil

NewEffect(s) ==
    [snapshot |-> s, status |-> Intended, attempts |-> 0, result |-> Nil]

RecordIntent(f, s, ok) ==
    OnEffect(f, MayIntend(f, s),
             /\ IsRunning(Owner[f]) /\ executions[Owner[f]].snapshot = s
             /\ effects[f] # Nil /\ effects[f].snapshot = s,
             NewEffect(s), ok)

\* Mutant: an effect that awaits reconciliation is never dispatched again.
MayDispatchOnce(f) ==
    /\ effects[f] # Nil /\ IsRunning(Owner[f])
    /\ effects[f].status = Intended

\* Mutant: a dispatch does not look at the status of the execution.
MayDispatchAnytime(f) ==
    effects[f] # Nil /\ effects[f].status \in {Intended, Uncertain}

MayDispatch(f) ==
    /\ effects[f] # Nil /\ IsRunning(Owner[f])
    /\ effects[f].status \in {Intended, Uncertain}

Dispatch(f, ok) ==
    OnEffect(f, MayDispatch(f), FALSE, [effects[f] EXCEPT !.attempts = @ + 1], ok)

\* Mutant: an effect with a result can be thrown back.
MayReconcileAgain(f) == effects[f] # Nil /\ effects[f].status # Uncertain

MayReconcile(f) == effects[f] # Nil /\ effects[f].status = Intended

RequireReconciliation(f, ok) ==
    OnEffect(f, MayReconcile(f), effects[f] # Nil,
             [effects[f] EXCEPT !.status = Uncertain], ok)

\* The results of an effect whose execution is paused or complete are recorded
\* and committed all the same.
RecordResult(f, r, ok) ==
    OnEffect(f, effects[f] # Nil /\ ~HasResult(f),
             HasResult(f) /\ effects[f].result = r,
             [effects[f] EXCEPT !.result = r, !.status = Returned], ok)

CommitEffect(f, ok) ==
    OnEffect(f, effects[f] # Nil /\ effects[f].status = Returned,
             effects[f] # Nil /\ effects[f].status = Committed,
             [effects[f] EXCEPT !.status = Committed], ok)

-----------------------------------------------------------------------------
\* Clients that send any command at any time

ExecutionStep ==
    \E e \in Execution, s \in Snapshot, ok \in BOOLEAN :
        \/ Create(e, s, ok)
        \/ \E n \in 0..MaxStep : Advance(e, n, ok) /\ n < MaxStep
        \/ \E n \in 0..MaxStep : Finish(e, n, ok)
        \/ DetectConflict(e, s, ok)
        \/ \E to \in Snapshot, approved \in BOOLEAN :
               TransitionSnapshot(e, s, to, approved, ok)

EffectStep ==
    \E f \in Effect, ok \in BOOLEAN :
        \/ \E s \in Snapshot : RecordIntent(f, s, ok)
        \/ effects[f] # Nil /\ effects[f].attempts < MaxAttempts /\ Dispatch(f, ok)
        \/ RequireReconciliation(f, ok)
        \/ \E r \in Result : RecordResult(f, r, ok)
        \/ CommitEffect(f, ok)

AgentNext == ExecutionStep \/ EffectStep

AgentSpec == AgentInit /\ [][AgentNext]_agent

-----------------------------------------------------------------------------
\* The records are well formed: an execution is paused exactly while a
\* semantic conflict is open, and an effect has a result exactly from
\* agent.effect.result on (_detectSemanticConflict, _transitionSnapshot,
\* _recordResult).
AgentTypeOK ==
    /\ executions \in [Execution -> ExecutionRecord \cup {Nil}]
    /\ effects \in [Effect -> EffectRecord \cup {Nil}]
    /\ \A e \in Execution : executions[e] # Nil =>
          (executions[e].status = Paused <=> executions[e].conflict # Nil)
    /\ \A f \in Effect : effects[f] # Nil =>
          (HasResult(f) <=> effects[f].result # Nil)

\* An execution that is complete has no effect in doubt: none is recorded after
\* it completes, and none of its effects leaves EFFECT_COMMITTED (_complete,
\* _intent, _requireReconciliation).
CompleteIsSettled ==
    \A e \in Execution : executions[e] # Nil /\ executions[e].status = Complete =>
        \A f \in Effect : Owner[f] = e => Settled(f)

\* While a semantic conflict is open, nothing starts: no step, no intent, no
\* dispatch, until a transition ends it. What is under way may still be
\* settled (the RUNNING guards of the reducer).
ConflictStopsExecution ==
    [][\A e \in Execution : executions[e] # Nil /\ executions[e].status = Paused =>
          /\ executions'[e].step = executions[e].step
          /\ \A f \in Effect : Owner[f] = e =>
                /\ effects[f] = Nil => effects'[f] = Nil
                /\ effects[f] # Nil => effects'[f].attempts = effects[f].attempts]_agent

\* A result, once recorded, is never changed, dropped or put in doubt again,
\* and a committed effect stays committed, whoever sends what
\* (_recordResult, _requireReconciliation, _commitEffect).
ResultIsFinal ==
    [][\A f \in Effect : HasResult(f) =>
          /\ HasResult(f)' /\ effects'[f].result = effects[f].result
          /\ effects[f].status = Committed => effects'[f].status = Committed]_agent

\* A snapshot transition answers a semantic conflict: it takes a paused
\* execution to the snapshot the conflict found available. _transitionSnapshot
\* has the refusals SEMANTIC_CONFLICT_REQUIRED and SEMANTIC_TRANSITION_MISMATCH
\* for the other cases, out of reach of an approved transition.
TransitionAnswersConflict ==
    [][\A e \in Execution :
          executions[e] # Nil /\ executions'[e].snapshot # executions[e].snapshot =>
              /\ executions[e].status = Paused
              /\ executions'[e].snapshot = executions[e].conflict]_agent

=============================================================================
