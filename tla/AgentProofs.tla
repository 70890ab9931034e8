------------------------------ MODULE AgentProofs ------------------------------
(***************************************************************************)
(* The reducer of AgentState keeps its records well formed and completes   *)
(* no execution with an effect in doubt, for any executions, effects and   *)
(* number of commands, whoever sends them in whatever order. The end of    *)
(* the module is about the versioned resources beside it.                  *)
(***************************************************************************)
EXTENDS AgentResources, TLAPS

\* Any command on an execution, with any arguments.
ExecutionCommand(e) ==
    \E ok \in BOOLEAN :
        \/ \E s \in Snapshot : Create(e, s, ok)
        \/ \E n \in Int : Advance(e, n, ok)
        \/ \E n \in Int : Finish(e, n, ok)
        \/ \E s \in Snapshot : DetectConflict(e, s, ok)
        \/ \E from, to \in Snapshot, approved \in BOOLEAN :
               TransitionSnapshot(e, from, to, approved, ok)

\* Any command on an effect.
EffectCommand(f) ==
    \E ok \in BOOLEAN :
        \/ \E s \in Snapshot : RecordIntent(f, s, ok)
        \/ Dispatch(f, ok)
        \/ RequireReconciliation(f, ok)
        \/ \E r \in Result : RecordResult(f, r, ok)
        \/ CommitEffect(f, ok)

\* What a reader may assume of a ledger that is well formed and has no
\* complete execution with an effect in doubt.
AgentInv == AgentTypeOK /\ CompleteIsSettled

-----------------------------------------------------------------------------
LEMMA NextIsCommand ==
    AgentNext => \/ \E e \in Execution : ExecutionCommand(e)
                 \/ \E f \in Effect : EffectCommand(f)
BY AgentBoundAssumption
   DEF AgentNext, ExecutionStep, EffectStep, ExecutionCommand, EffectCommand

\* An execution is changed by replacing its record by a well-formed one.
LEMMA ExecutionReplaced ==
    ASSUME AgentTypeOK, NEW e \in Execution, NEW x \in ExecutionRecord,
           x.status = Paused <=> x.conflict # Nil,
           executions' = [executions EXCEPT ![e] = x], effects' = effects
    PROVE  AgentTypeOK'
BY NilAssumption DEF AgentTypeOK, HasResult

\* So is an effect.
LEMMA EffectReplaced ==
    ASSUME AgentTypeOK, NEW f \in Effect, NEW x \in EffectRecord,
           x.status \in {Returned, Committed} <=> x.result # Nil,
           effects' = [effects EXCEPT ![f] = x], executions' = executions
    PROVE  AgentTypeOK'
BY NilAssumption DEF AgentTypeOK, HasResult

LEMMA ExecutionCommandType ==
    ASSUME AgentTypeOK, NEW e \in Execution, ExecutionCommand(e)
    PROVE  AgentTypeOK'
<1> USE DEF Running, Paused, Complete, OnExecution
<1>0. CASE UNCHANGED agent
  BY <1>0 DEF AgentTypeOK, HasResult, agent
<1>1. ASSUME NEW s \in Snapshot, NEW ok \in BOOLEAN, Create(e, s, ok)
      PROVE  AgentTypeOK'
  BY <1>0, <1>1, ExecutionReplaced DEF Create, ExecutionRecord, agent
<1>2. ASSUME NEW n \in Int, NEW ok \in BOOLEAN, Advance(e, n, ok)
      PROVE  AgentTypeOK'
  <2>1. CASE IsRunning(e) /\ executions[e].step = n
    <3> DEFINE x == [executions[e] EXCEPT !.step = @ + 1]
    <3>1. executions[e] \in ExecutionRecord /\ (x.status = Paused <=> x.conflict # Nil)
      BY <2>1 DEF IsRunning, AgentTypeOK, ExecutionRecord
    <3>2. x \in ExecutionRecord
      BY <3>1 DEF ExecutionRecord
    <3> QED
      BY <1>2, <2>1, <3>1, <3>2, ExecutionReplaced DEF Advance
  <2> QED
    BY <1>0, <1>2, <2>1 DEF Advance, agent
<1>3. ASSUME NEW n \in Int, NEW ok \in BOOLEAN, Finish(e, n, ok)
      PROVE  AgentTypeOK'
  BY <1>0, <1>3, ExecutionReplaced
     DEF Finish, MayComplete, ExecutionRecord, IsRunning, AgentTypeOK, agent
<1>4. ASSUME NEW s \in Snapshot, NEW ok \in BOOLEAN, DetectConflict(e, s, ok)
      PROVE  AgentTypeOK'
  BY <1>0, <1>4, ExecutionReplaced, NilAssumption
     DEF DetectConflict, ExecutionRecord, AgentTypeOK, agent
<1>5. ASSUME NEW from \in Snapshot, NEW to \in Snapshot, NEW approved \in BOOLEAN,
             NEW ok \in BOOLEAN, TransitionSnapshot(e, from, to, approved, ok)
      PROVE  AgentTypeOK'
  <2>1. CASE executions[e] # Nil /\ executions[e].snapshot = from /\ approved
    <3>1. executions[e] \in ExecutionRecord
      BY <2>1 DEF AgentTypeOK
    <3>2. /\ Resolved(executions[e], to) \in ExecutionRecord
          /\ Resolved(executions[e], to).status # Paused
          /\ Resolved(executions[e], to).conflict = Nil
      BY <3>1 DEF Resolved, ExecutionRecord
    <3> QED
      BY <1>5, <2>1, <3>2, ExecutionReplaced DEF TransitionSnapshot
  <2> QED
    BY <1>0, <1>5, <2>1 DEF TransitionSnapshot, agent
<1>6. QED
  BY <1>1, <1>2, <1>3, <1>4, <1>5 DEF ExecutionCommand

LEMMA EffectCommandType ==
    ASSUME AgentTypeOK, NEW f \in Effect, EffectCommand(f)
    PROVE  AgentTypeOK'
<1> USE DEF Intended, Uncertain, Returned, Committed, OnEffect
<1>0. CASE UNCHANGED agent
  BY <1>0 DEF AgentTypeOK, HasResult, agent
<1>1. ASSUME NEW s \in Snapshot, NEW ok \in BOOLEAN, RecordIntent(f, s, ok)
      PROVE  AgentTypeOK'
  BY <1>0, <1>1, EffectReplaced DEF RecordIntent, NewEffect, EffectRecord, agent
<1>2. ASSUME NEW ok \in BOOLEAN, Dispatch(f, ok)
      PROVE  AgentTypeOK'
  BY <1>0, <1>2, EffectReplaced
     DEF Dispatch, MayDispatch, EffectRecord, AgentTypeOK, HasResult, agent
<1>3. ASSUME NEW ok \in BOOLEAN, RequireReconciliation(f, ok)
      PROVE  AgentTypeOK'
  BY <1>0, <1>3, EffectReplaced
     DEF RequireReconciliation, MayReconcile, EffectRecord, AgentTypeOK, HasResult, agent
<1>4. ASSUME NEW r \in Result, NEW ok \in BOOLEAN, RecordResult(f, r, ok)
      PROVE  AgentTypeOK'
  BY <1>0, <1>4, EffectReplaced, NilAssumption
     DEF RecordResult, EffectRecord, AgentTypeOK, agent
<1>5. ASSUME NEW ok \in BOOLEAN, CommitEffect(f, ok)
      PROVE  AgentTypeOK'
  BY <1>0, <1>5, EffectReplaced
     DEF CommitEffect, EffectRecord, AgentTypeOK, HasResult, agent
<1>6. QED
  BY <1>1, <1>2, <1>3, <1>4, <1>5 DEF EffectCommand

-----------------------------------------------------------------------------
\* Complete executions
LEMMA ExecutionCommandSettled ==
    ASSUME AgentInv, NEW e \in Execution, ExecutionCommand(e)
    PROVE  CompleteIsSettled'
<1> USE DEF Running, Paused, Complete, OnExecution
<1>1. effects' = effects
  BY DEF ExecutionCommand, Create, Advance, Finish, DetectConflict, TransitionSnapshot
<1>2. \A d \in Execution \ {e} : executions'[d] = executions[d]
  BY DEF ExecutionCommand, Create, Advance, Finish, DetectConflict,
         TransitionSnapshot, AgentInv, AgentTypeOK
<1>3. ASSUME executions'[e] # Nil, executions'[e].status = Complete
      PROVE  \/ executions[e] # Nil /\ executions[e].status = Complete
             \/ \A f \in Effect : Owner[f] = e => Settled(f)
  <2> USE <1>3 DEF AgentInv, AgentTypeOK, ExecutionRecord, IsRunning
  <2>1. CASE executions' = executions
    BY <2>1
  <2>2. ASSUME NEW s \in Snapshot, NEW ok \in BOOLEAN, Create(e, s, ok)
        PROVE  executions' = executions
    BY <2>2 DEF Create
  <2>3. ASSUME NEW n \in Int, NEW ok \in BOOLEAN, Advance(e, n, ok)
        PROVE  executions' = executions
    BY <2>3 DEF Advance
  <2>4. ASSUME NEW n \in Int, NEW ok \in BOOLEAN, Finish(e, n, ok)
        PROVE  \/ executions' = executions
               \/ \A f \in Effect : Owner[f] = e => Settled(f)
    BY <2>4 DEF Finish, MayComplete
  <2>5. ASSUME NEW s \in Snapshot, NEW ok \in BOOLEAN, DetectConflict(e, s, ok)
        PROVE  executions' = executions
    BY <2>5 DEF DetectConflict
  <2>6. ASSUME NEW from \in Snapshot, NEW to \in Snapshot, NEW approved \in BOOLEAN,
               NEW ok \in BOOLEAN, TransitionSnapshot(e, from, to, approved, ok)
        PROVE  executions' = executions
    BY <2>6 DEF TransitionSnapshot, Resolved
  <2> QED
    BY <2>1, <2>2, <2>3, <2>4, <2>5, <2>6 DEF ExecutionCommand
<1>4. QED
  BY <1>1, <1>2, <1>3 DEF AgentInv, CompleteIsSettled, Settled

LEMMA EffectCommandSettled ==
    ASSUME AgentInv, NEW f \in Effect, EffectCommand(f)
    PROVE  CompleteIsSettled'
<1> USE DEF Intended, Uncertain, Returned, Committed, OnEffect
<1>1. executions' = executions
  BY DEF EffectCommand, RecordIntent, Dispatch, RequireReconciliation,
         RecordResult, CommitEffect
<1>2. \A g \in Effect \ {f} : effects'[g] = effects[g]
  BY DEF EffectCommand, RecordIntent, Dispatch, RequireReconciliation,
         RecordResult, CommitEffect, AgentInv, AgentTypeOK
<1>3. ASSUME executions[Owner[f]] # Nil, executions[Owner[f]].status = Complete,
             Settled(f)
      PROVE  Settled(f)'
  <2>1. ~ IsRunning(Owner[f])
    BY <1>3 DEF IsRunning, Complete, Running
  <2>2. \A s \in Snapshot : ~ MayIntend(f, s)
    BY <2>1 DEF MayIntend
  <2>3. ~ MayDispatch(f)
    BY <2>1 DEF MayDispatch
  <2>4. ~ MayReconcile(f) /\ (effects[f] # Nil => HasResult(f))
    BY <1>3 DEF MayReconcile, HasResult, Settled
  <2>5. CASE effects' = effects
    BY <2>5, <1>3 DEF Settled
  <2>6. CASE \E ok \in BOOLEAN : CommitEffect(f, ok)
    <3>1. CASE effects[f] # Nil /\ effects[f].status = Returned
      BY <1>3, <3>1 DEF Settled
    <3>2. QED
      BY <2>5, <2>6, <3>1 DEF CommitEffect
  <2>7. QED
    BY <2>2, <2>3, <2>4, <2>5, <2>6
       DEF EffectCommand, RecordIntent, Dispatch, RequireReconciliation, RecordResult
<1>4. QED
  BY <1>1, <1>2, <1>3, OwnerAssumption DEF AgentInv, CompleteIsSettled, Settled

\* An entry of the ledger stays.
LEMMA EffectCommandStays ==
    ASSUME AgentTypeOK, NEW g \in Effect, EffectCommand(g),
           NEW f \in Effect, effects[f] # Nil
    PROVE  effects'[f] # Nil
<1>1. CASE effects'[f] = effects[f]
  BY <1>1
<1>2. CASE g # f
  BY <1>1, <1>2
     DEF EffectCommand, RecordIntent, Dispatch, RequireReconciliation, RecordResult,
         CommitEffect, OnEffect, AgentTypeOK
<1>3. CASE g = f
  <2>1. effects[f] \in EffectRecord
    BY DEF AgentTypeOK
  <2>2. ~ \E s \in Snapshot : MayIntend(f, s)
    BY DEF MayIntend
  <2>3. \/ effects'[f] = effects[f]
        \/ effects'[f] = [effects[f] EXCEPT !.attempts = @ + 1]
        \/ effects'[f] = [effects[f] EXCEPT !.status = Uncertain]
        \/ \E r \in Result :
              effects'[f] = [effects[f] EXCEPT !.result = r, !.status = Returned]
        \/ effects'[f] = [effects[f] EXCEPT !.status = Committed]
    BY <1>3, <2>2
       DEF EffectCommand, RecordIntent, Dispatch, RequireReconciliation, RecordResult,
           CommitEffect, OnEffect, AgentTypeOK
  <2>4. ASSUME NEW x \in EffectRecord
        PROVE  /\ [x EXCEPT !.attempts = @ + 1] \in EffectRecord
               /\ [x EXCEPT !.status = Uncertain] \in EffectRecord
               /\ [x EXCEPT !.status = Committed] \in EffectRecord
    BY DEF EffectRecord, Uncertain, Committed
  <2>5. ASSUME NEW x \in EffectRecord, NEW r \in Result
        PROVE  [x EXCEPT !.result = r, !.status = Returned] \in EffectRecord
    BY DEF EffectRecord, Returned
  <2>6. effects'[f] \in EffectRecord
    <3>1. CASE \E r \in Result :
              effects'[f] = [effects[f] EXCEPT !.result = r, !.status = Returned]
      BY <2>1, <2>5, <3>1
    <3>2. QED
      BY <2>1, <2>3, <2>4, <3>1
  <2>7. QED
    BY <2>6, RecordAssumption
<1>4. QED
  BY <1>2, <1>3

LEMMA EffectsStay ==
    ASSUME AgentTypeOK, AgentNext, NEW f \in Effect, effects[f] # Nil
    PROVE  effects'[f] # Nil
<1>1. ASSUME NEW e \in Execution, ExecutionCommand(e) PROVE effects' = effects
  BY <1>1 DEF ExecutionCommand, Create, Advance, Finish, DetectConflict,
              TransitionSnapshot, OnExecution
<1>2. QED
  BY <1>1, EffectCommandStays, NextIsCommand

\* A command keeps the ledger well formed and complete executions settled.
LEMMA ExecutionCommandInv ==
    ASSUME AgentInv, NEW e \in Execution, ExecutionCommand(e) PROVE AgentInv'
BY ExecutionCommandType, ExecutionCommandSettled DEF AgentInv

LEMMA EffectCommandInv ==
    ASSUME AgentInv, NEW f \in Effect, EffectCommand(f) PROVE AgentInv'
BY EffectCommandType, EffectCommandSettled DEF AgentInv

LEMMA AgentInitInv == AgentInit => AgentInv
BY NilAssumption DEF AgentInit, AgentInv, AgentTypeOK, CompleteIsSettled, HasResult

-----------------------------------------------------------------------------
\* The records are always well formed: an execution is paused exactly while a
\* conflict is open, an effect has a result exactly once one was recorded.
THEOREM AgentTypeCorrect == AgentSpec => []AgentTypeOK
<1>1. ASSUME AgentTypeOK, [AgentNext]_agent PROVE AgentTypeOK'
  <2>1. CASE UNCHANGED agent
    BY <1>1, <2>1 DEF AgentTypeOK, HasResult, agent
  <2>2. CASE AgentNext
    BY <1>1, <2>2, NextIsCommand, ExecutionCommandType, EffectCommandType
  <2>3. QED
    BY <1>1, <2>1, <2>2
<1>2. QED
  BY <1>1, AgentInitInv, PTL DEF AgentSpec, AgentInv

\* No execution is ever complete with an effect in doubt.
THEOREM CompleteSettled == AgentSpec => []CompleteIsSettled
<1>1. ASSUME AgentInv, [AgentNext]_agent PROVE AgentInv'
  <2>1. CASE UNCHANGED agent
    BY <1>1, <2>1 DEF AgentInv, AgentTypeOK, HasResult, CompleteIsSettled, Settled, agent
  <2>2. CASE AgentNext
    BY <1>1, <2>2, NextIsCommand, ExecutionCommandInv, EffectCommandInv
  <2>3. QED
    BY <1>1, <2>1, <2>2
<1>2. AgentInv => CompleteIsSettled
  BY DEF AgentInv
<1>3. QED
  BY <1>1, <1>2, AgentInitInv, PTL DEF AgentSpec

-----------------------------------------------------------------------------
\* What no command does to an effect that has a result
ResultKept(f) ==
    HasResult(f) =>
        /\ HasResult(f)' /\ effects'[f].result = effects[f].result
        /\ effects[f].status = Committed => effects'[f].status = Committed

LEMMA EffectCommandKeepsResults ==
    ASSUME AgentTypeOK, NEW f \in Effect, NEW g \in Effect, EffectCommand(g)
    PROVE  ResultKept(f)
<1> USE DEF Intended, Uncertain, Returned, Committed, OnEffect
<1>0. CASE effects' = effects
  BY <1>0 DEF ResultKept, HasResult
<1>1. CASE f # g
  <2>1. effects'[f] = effects[f]
    BY <1>1 DEF EffectCommand, RecordIntent, Dispatch, RequireReconciliation,
                RecordResult, CommitEffect, AgentTypeOK
  <2>2. QED
    BY <2>1 DEF ResultKept, HasResult
<1>2. CASE f = g
  <2> SUFFICES ASSUME HasResult(f) PROVE ResultKept(f)
    BY DEF ResultKept
  <2>1. /\ \A s \in Snapshot : ~ MayIntend(f, s)
        /\ ~ MayDispatch(f) /\ ~ MayReconcile(f)
    BY DEF HasResult, MayIntend, MayDispatch, MayReconcile
  <2>2. ASSUME NEW ok \in BOOLEAN, CommitEffect(g, ok), effects' # effects
        PROVE  ResultKept(f)
    <3> DEFINE x == [effects[f] EXCEPT !.status = Committed]
    <3>1. effects' = [effects EXCEPT ![f] = x] /\ effects[f] \in EffectRecord
      BY <1>2, <2>2 DEF CommitEffect, HasResult, AgentTypeOK
    <3>2. effects'[f] = x /\ x \in EffectRecord
          /\ x.result = effects[f].result /\ x.status = Committed
      BY <3>1 DEF AgentTypeOK, EffectRecord
    <3> QED
      BY <3>2, RecordAssumption DEF ResultKept, HasResult
  <2>3. QED
    BY <1>0, <1>2, <2>1, <2>2
       DEF EffectCommand, RecordIntent, Dispatch, RequireReconciliation, RecordResult
<1>3. QED
  BY <1>1, <1>2

\* A recorded result is never changed, dropped or put in doubt again.
THEOREM ResultFinal == AgentSpec => ResultIsFinal
<1>1. ASSUME AgentTypeOK, [AgentNext]_agent, NEW f \in Effect PROVE ResultKept(f)
  <2>1. CASE effects' = effects
    BY <2>1 DEF ResultKept, HasResult
  <2>2. ASSUME NEW e \in Execution, ExecutionCommand(e) PROVE effects' = effects
    BY <2>2 DEF ExecutionCommand, Create, Advance, Finish, DetectConflict,
                TransitionSnapshot, OnExecution
  <2>3. QED
    BY <1>1, <2>1, <2>2, NextIsCommand, EffectCommandKeepsResults DEF agent
<1>2. AgentTypeOK /\ [AgentNext]_agent
        => [\A f \in Effect : HasResult(f) =>
              /\ HasResult(f)' /\ effects'[f].result = effects[f].result
              /\ effects[f].status = Committed => effects'[f].status = Committed]_agent
  BY <1>1 DEF ResultKept
<1>3. QED
  BY <1>2, AgentTypeCorrect, PTL DEF AgentSpec, ResultIsFinal

-----------------------------------------------------------------------------
\* What no command does to the effects of an execution that is paused, nor to
\* its step
Stopped(e) ==
    executions[e] # Nil /\ executions[e].status = Paused =>
        /\ executions'[e].step = executions[e].step
        /\ \A f \in Effect : Owner[f] = e =>
              /\ effects[f] = Nil => effects'[f] = Nil
              /\ effects[f] # Nil => effects'[f].attempts = effects[f].attempts

LEMMA ExecutionCommandStops ==
    ASSUME AgentTypeOK, NEW e \in Execution, NEW d \in Execution, ExecutionCommand(d)
    PROVE  Stopped(e)
<1> USE DEF Running, Paused, Complete, OnExecution
<1> SUFFICES ASSUME executions[e] # Nil, executions[e].status = Paused
             PROVE  effects' = effects /\ executions'[e].step = executions[e].step
  BY DEF Stopped
<1>1. effects' = effects
  BY DEF ExecutionCommand, Create, Advance, Finish, DetectConflict, TransitionSnapshot
<1>2. executions[e] \in ExecutionRecord
  BY DEF AgentTypeOK
<1>3. CASE executions'[e] = executions[e]
  BY <1>1, <1>3
<1>4. CASE d # e
  BY <1>3, <1>4 DEF ExecutionCommand, Create, Advance, Finish, DetectConflict,
                    TransitionSnapshot, AgentTypeOK
<1>5. CASE d = e
  <2>1. ASSUME NEW s \in Snapshot, NEW ok \in BOOLEAN, DetectConflict(e, s, ok)
        PROVE  executions'[e].step = executions[e].step
    BY <1>2, <2>1 DEF DetectConflict, AgentTypeOK, ExecutionRecord
  <2>2. ASSUME NEW from \in Snapshot, NEW to \in Snapshot, NEW approved \in BOOLEAN,
               NEW ok \in BOOLEAN, TransitionSnapshot(e, from, to, approved, ok)
        PROVE  executions'[e].step = executions[e].step
    BY <1>2, <2>2 DEF TransitionSnapshot, Resolved, AgentTypeOK, ExecutionRecord
  <2>3. ~ IsRunning(e)
    BY DEF IsRunning
  <2>4. QED
    BY <1>1, <1>3, <1>5, <2>1, <2>2, <2>3
       DEF ExecutionCommand, Create, Advance, Finish, MayComplete
<1>6. QED
  BY <1>4, <1>5

LEMMA EffectCommandStops ==
    ASSUME AgentTypeOK, NEW e \in Execution, NEW g \in Effect, EffectCommand(g)
    PROVE  Stopped(e)
<1> USE DEF Intended, Uncertain, Returned, Committed, OnEffect
<1> SUFFICES ASSUME executions[e] # Nil, executions[e].status = Paused,
                    NEW f \in Effect, Owner[f] = e
             PROVE  /\ executions' = executions
                    /\ effects[f] = Nil => effects'[f] = Nil
                    /\ effects[f] # Nil => effects'[f].attempts = effects[f].attempts
  BY DEF Stopped, EffectCommand, RecordIntent, Dispatch, RequireReconciliation,
         RecordResult, CommitEffect
<1>1. executions' = executions
  BY DEF EffectCommand, RecordIntent, Dispatch, RequireReconciliation,
         RecordResult, CommitEffect
<1>2. CASE effects'[f] = effects[f]
  BY <1>1, <1>2
<1>3. CASE g # f
  BY <1>2, <1>3 DEF EffectCommand, RecordIntent, Dispatch, RequireReconciliation,
                    RecordResult, CommitEffect, AgentTypeOK
<1>4. CASE g = f
  <2>1. (\A s \in Snapshot : ~ MayIntend(f, s)) /\ ~ MayDispatch(f)
    BY DEF MayIntend, MayDispatch, IsRunning, Running, Paused
  <2>2. effects[f] # Nil => effects[f] \in EffectRecord
    BY DEF AgentTypeOK
  <2>3. ASSUME NEW ok \in BOOLEAN, RequireReconciliation(f, ok), effects' # effects
        PROVE  effects[f] # Nil /\ effects'[f].attempts = effects[f].attempts
    BY <2>2, <2>3 DEF RequireReconciliation, MayReconcile, AgentTypeOK, EffectRecord
  <2>4. ASSUME NEW r \in Result, NEW ok \in BOOLEAN, RecordResult(f, r, ok),
               effects' # effects
        PROVE  effects[f] # Nil /\ effects'[f].attempts = effects[f].attempts
    BY <2>2, <2>4 DEF RecordResult, AgentTypeOK, EffectRecord
  <2>5. ASSUME NEW ok \in BOOLEAN, CommitEffect(f, ok), effects' # effects
        PROVE  effects[f] # Nil /\ effects'[f].attempts = effects[f].attempts
    BY <2>2, <2>5 DEF CommitEffect, AgentTypeOK, EffectRecord
  <2>6. QED
    BY <1>1, <1>2, <1>4, <2>1, <2>3, <2>4, <2>5
       DEF EffectCommand, RecordIntent, Dispatch
<1>5. QED
  BY <1>3, <1>4

\* While a semantic conflict is open, an execution makes no step, intends no
\* effect and dispatches none.
THEOREM ConflictStops == AgentSpec => ConflictStopsExecution
<1>1. ASSUME AgentTypeOK, [AgentNext]_agent, NEW e \in Execution PROVE Stopped(e)
  <2>1. CASE UNCHANGED agent
    BY <2>1 DEF Stopped, agent
  <2>2. CASE AgentNext
    BY <1>1, <2>2, NextIsCommand, ExecutionCommandStops, EffectCommandStops
  <2>3. QED
    BY <1>1, <2>1, <2>2
<1>2. AgentTypeOK /\ [AgentNext]_agent
        => [\A e \in Execution : executions[e] # Nil /\ executions[e].status = Paused =>
              /\ executions'[e].step = executions[e].step
              /\ \A f \in Effect : Owner[f] = e =>
                    /\ effects[f] = Nil => effects'[f] = Nil
                    /\ effects[f] # Nil =>
                          effects'[f].attempts = effects[f].attempts]_agent
  BY <1>1 DEF Stopped
<1>3. QED
  BY <1>2, AgentTypeCorrect, PTL DEF AgentSpec, ConflictStopsExecution

-----------------------------------------------------------------------------
(***************************************************************************)
(* The versions beside the reducer, for any number of resources: the       *)
(* effects authorized so far could have run one after the other. The       *)
(* invariant compares each authorization with the present versions: a      *)
(* resource it has read has not gone back, and one it has written has at   *)
(* least the version it produced.                                          *)
(***************************************************************************)
PlansOK ==
    /\ plans = [e \in Execution |-> plans[e]]
    /\ \A e \in Execution : plans[e] # Nil =>
          \A r \in DOMAIN plans[e].reads : r \in Resource /\ plans[e].reads[r] \in Nat

\* An authorization lies in the past.
Past(f) ==
    LET a == authorized[f] IN
    /\ a.at \in 1..index
    /\ a.writes \subseteq DOMAIN a.reads
    /\ \A r \in DOMAIN a.reads :
          /\ r \in Resource /\ resources[r] # Nil
          /\ a.reads[r] \in Nat /\ a.reads[r] <= resources[r]
    /\ \A r \in a.writes :
          a.resulting[r] \in Nat /\ a.resulting[r] <= resources[r]

ResourcesInv ==
    /\ ResourcesTypeOK
    /\ PlansOK
    /\ authorized = [f \in Effect |-> authorized[f]]
    /\ \A f \in Authorizations : Past(f)
    /\ AuthorizationsSerial

-----------------------------------------------------------------------------
LEMMA ResourcesInitInv == ResourcesInit => ResourcesInv
BY AgentInitInv
   DEF ResourcesInit, ResourcesInv, ResourcesTypeOK, AgentInv, PlansOK,
       Authorizations, AuthorizationsSerial

\* As long as no effect is authorized, versions that do not go back keep every
\* authorization in the past.
LEMMA VersionsGrow ==
    ASSUME ResourcesInv, UNCHANGED <<authorized, index>>,
           resources' \in [Resource -> Nat \cup {Nil}],
           \A r \in Resource : resources[r] # Nil =>
               resources'[r] # Nil /\ resources[r] <= resources'[r]
    PROVE  /\ authorized' = [f \in Effect |-> authorized'[f]]
           /\ \A f \in Authorizations' : Past(f)'
           /\ AuthorizationsSerial'
<1>1. /\ authorized' = [f \in Effect |-> authorized'[f]]
      /\ Authorizations' = Authorizations /\ AuthorizationsSerial'
  BY DEF ResourcesInv, Authorizations, AuthorizationsSerial
<1>2. ASSUME NEW f \in Authorizations PROVE Past(f)'
  <2>1. Past(f) /\ authorized'[f] = authorized[f]
    BY <1>2 DEF ResourcesInv
  <2>2. \A r \in Resource : resources[r] \in Nat \cup {Nil}
    BY DEF ResourcesInv, ResourcesTypeOK
  <2>3. \A r \in DOMAIN authorized[f].reads :
           /\ r \in Resource /\ resources[r] \in Nat /\ resources'[r] \in Nat
           /\ resources[r] <= resources'[r]
    BY <2>1, <2>2 DEF Past
  <2>4. QED
    BY <2>1, <2>3 DEF Past
<1>3. QED
  BY <1>1, <1>2

LEMMA AgentStepInv ==
    ASSUME ResourcesInv, AgentTypeOK', UNCHANGED <<resources, plans, authorized, index>>,
           \A f \in Effect : effects[f] # Nil => effects'[f] # Nil
    PROVE  ResourcesInv'
<1>1. ResourcesTypeOK'
  BY DEF ResourcesInv, ResourcesTypeOK, Authorizations
<1>2. PlansOK'
  BY DEF ResourcesInv, PlansOK
<1>3. QED
  BY <1>1, <1>2, VersionsGrow, VersionAssumption DEF ResourcesInv, ResourcesTypeOK

LEMMA CreateResourceInv ==
    ASSUME ResourcesInv, NEW r \in Resource, NEW version \in Nat,
           CreateResource(r, version)
    PROVE  ResourcesInv'
<1>1. AgentTypeOK'
  BY DEF ResourcesInv, ResourcesTypeOK, AgentTypeOK, HasResult, CreateResource, agent
<1>2. /\ resources' \in [Resource -> Nat \cup {Nil}]
      /\ \A q \in Resource : resources[q] # Nil =>
            resources'[q] # Nil /\ resources[q] <= resources'[q]
  BY VersionAssumption DEF ResourcesInv, ResourcesTypeOK, CreateResource
<1>3. UNCHANGED <<executions, effects, plans, authorized, index>>
  BY DEF CreateResource, agent
<1>4. PlansOK'
  BY <1>3 DEF ResourcesInv, PlansOK
<1>5. \A e \in Execution : plans[e] # Nil =>
          \A q \in DOMAIN plans[e].reads : resources'[q] # Nil
  BY <1>2 DEF ResourcesInv, ResourcesTypeOK, PlansOK
<1>6. ResourcesTypeOK'
  BY <1>1, <1>2, <1>3, <1>5 DEF ResourcesInv, ResourcesTypeOK, Authorizations
<1>7. QED
  BY <1>2, <1>3, <1>4, <1>6, VersionsGrow DEF ResourcesInv

LEMMA RecordPlanInv ==
    ASSUME ResourcesInv, NEW e \in Execution, NEW R \in SUBSET Resource,
           NEW reads \in [R -> Nat], NEW writes \in SUBSET R,
           RecordPlan(e, reads, writes)
    PROVE  ResourcesInv'
<1>1. UNCHANGED <<executions, effects, resources, authorized, index>>
  BY DEF RecordPlan, agent
<1>2. \A d \in Execution : plans'[d] =
          IF d = e THEN [reads |-> reads, writes |-> writes] ELSE plans[d]
  BY DEF RecordPlan, ResourcesInv, PlansOK
<1>3. PlansOK'
  <2>1. plans' = [d \in Execution |-> plans'[d]]
    BY DEF RecordPlan, ResourcesInv, PlansOK
  <2>2. QED
    BY <1>2, <2>1 DEF ResourcesInv, PlansOK
<1>4. ResourcesTypeOK'
  <2>1. \A q \in R : resources[q] # Nil
    BY DEF RecordPlan, Known
  <2>2. QED
    BY <1>1, <1>2, <2>1
       DEF ResourcesInv, ResourcesTypeOK, AgentTypeOK, HasResult, Authorizations
<1>5. QED
  BY <1>1, <1>3, <1>4, VersionsGrow, VersionAssumption DEF ResourcesInv, ResourcesTypeOK

\* The versions an authorization leaves behind: one more of each resource it
\* writes.
LEMMA AuthorizationWrites ==
    ASSUME ResourcesInv, NEW f \in Effect, NEW s \in Snapshot, AuthorizeEffect(f, s)
    PROVE  LET plan == plans[Owner[f]] IN
           /\ resources' \in [Resource -> Nat \cup {Nil}]
           /\ \A r \in Resource : resources[r] # Nil =>
                 resources'[r] # Nil /\ resources[r] <= resources'[r]
           /\ plan.writes \subseteq DOMAIN plan.reads
           /\ \A r \in DOMAIN plan.reads :
                 /\ r \in Resource /\ resources[r] \in Nat
                 /\ plan.reads[r] = resources[r]
           /\ \A r \in plan.writes : resources'[r] = resources[r] + 1
<1> DEFINE plan == plans[Owner[f]]
<1>1. /\ plan # Nil /\ plan.writes \subseteq DOMAIN plan.reads
      /\ \A r \in DOMAIN plan.reads : r \in Resource /\ resources[r] # Nil
  BY OwnerAssumption DEF AuthorizeEffect, ResourcesInv, ResourcesTypeOK, PlansOK
<1>2. \A r \in Resource : resources[r] \in Nat \cup {Nil}
  BY DEF ResourcesInv, ResourcesTypeOK
<1>3. resources' = [r \in Resource |->
          IF r \in plan.writes THEN resources[r] + 1 ELSE resources[r]]
  BY DEF AuthorizeEffect
<1>4. \A r \in DOMAIN plan.reads : plan.reads[r] = resources[r]
  BY DEF AuthorizeEffect, Current
<1> HIDE DEF plan
<1>5. \A r \in Resource : r \in plan.writes => resources[r] \in Nat
  BY <1>1, <1>2
<1>6. \A r \in Resource : resources'[r] \in Nat \cup {Nil}
  BY <1>2, <1>3, <1>5
<1>7. \A r \in Resource : resources[r] # Nil =>
          resources'[r] # Nil /\ resources[r] <= resources'[r]
  BY <1>2, <1>3, <1>5, VersionAssumption
<1>8. resources' \in [Resource -> Nat \cup {Nil}]
  BY <1>3, <1>6
<1>9. QED
  BY <1>1, <1>2, <1>3, <1>4, <1>7, <1>8 DEF plan

LEMMA AuthorizeEffectInv ==
    ASSUME ResourcesInv, NEW f \in Effect, NEW s \in Snapshot, AuthorizeEffect(f, s)
    PROVE  ResourcesInv'
<1> DEFINE plan == plans[Owner[f]]
           new == [reads |-> plan.reads, writes |-> plan.writes,
                   resulting |-> [r \in plan.writes |-> resources[r] + 1],
                   at |-> index + 1]
<1>1. UNCHANGED <<executions, plans>> /\ index' = index + 1 /\ index \in Nat
  BY DEF AuthorizeEffect, ResourcesInv, ResourcesTypeOK
<1>2. AgentTypeOK'
  <2>1. RecordIntent(f, s, TRUE)
    BY DEF AuthorizeEffect, RecordIntent, OnEffect
  <2>2. QED
    BY <2>1, EffectCommandType DEF EffectCommand, ResourcesInv, ResourcesTypeOK
<1>3. /\ effects' = [effects EXCEPT ![f] = NewEffect(s)]
      /\ NewEffect(s) # Nil /\ f \notin Authorizations
  BY RecordAssumption DEF AuthorizeEffect, MayIntend, NewEffect, EffectRecord, Intended,
      ResourcesInv, ResourcesTypeOK
<1>4. authorized' = [authorized EXCEPT ![f] = new]
  BY DEF AuthorizeEffect
<1>5. /\ authorized' = [g \in Effect |-> authorized'[g]]
      /\ \A g \in Effect : authorized'[g] = IF g = f THEN new ELSE authorized[g]
  BY <1>4 DEF ResourcesInv
<1>6. Authorizations' \subseteq Authorizations \cup {f}
  BY <1>5 DEF Authorizations
<1>7. /\ new.reads = plan.reads /\ new.writes = plan.writes /\ new.at = index + 1
      /\ \A r \in plan.writes : new.resulting[r] = resources[r] + 1
  OBVIOUS
<1>8. /\ resources' \in [Resource -> Nat \cup {Nil}]
      /\ \A r \in Resource : resources[r] # Nil =>
            resources'[r] # Nil /\ resources[r] <= resources'[r]
      /\ plan.writes \subseteq DOMAIN plan.reads
      /\ \A r \in DOMAIN plan.reads :
            /\ r \in Resource /\ resources[r] \in Nat /\ resources[r] # Nil
            /\ plan.reads[r] = resources[r]
      /\ \A r \in plan.writes : resources'[r] = resources[r] + 1
  BY AuthorizationWrites, VersionAssumption
<1> HIDE DEF new, plan
<1>9. ResourcesTypeOK'
  <2>1. \A e \in Execution : plans[e] # Nil =>
           \A r \in DOMAIN plans[e].reads : resources'[r] # Nil
    BY <1>8 DEF ResourcesInv, ResourcesTypeOK, PlansOK
  <2>2. \A g \in Authorizations' : effects'[g] # Nil
    BY <1>3, <1>6 DEF ResourcesInv, ResourcesTypeOK, AgentTypeOK, Authorizations
  <2>3. QED
    BY <1>1, <1>2, <1>8, <2>1, <2>2 DEF ResourcesInv, ResourcesTypeOK
<1>10. PlansOK'
  BY <1>1 DEF ResourcesInv, PlansOK
<1>11. \A g \in Authorizations :
          Past(g) /\ g # f /\ authorized'[g] = authorized[g]
  BY <1>3, <1>5 DEF ResourcesInv, Authorizations
<1>12. ASSUME NEW g \in Authorizations PROVE Past(g)'
  <2>1. \A r \in DOMAIN authorized[g].reads :
           /\ r \in Resource /\ resources[r] \in Nat /\ resources'[r] \in Nat
           /\ resources'[r] # Nil /\ resources[r] <= resources'[r]
    BY <1>8, <1>11 DEF ResourcesInv, ResourcesTypeOK, Past
  <2>2. QED
    BY <1>1, <1>11, <2>1 DEF Past
<1>13. Past(f)'
  <2>1. \A r \in DOMAIN plan.reads : resources'[r] \in Nat /\ resources'[r] # Nil
    BY <1>8, VersionAssumption
  <2>2. authorized'[f] = new
    BY <1>5
  <2>3. QED
    BY <1>1, <1>7, <1>8, <2>1, <2>2 DEF Past
<1>14. AuthorizationsSerial'
  <2> SUFFICES ASSUME NEW g \in Authorizations', NEW h \in Authorizations', g # h,
                      NEW r \in DOMAIN authorized'[g].reads \cap authorized'[h].writes
               PROVE  authorized'[g].reads[r] < authorized'[h].resulting[r]
                        <=> authorized'[g].at < authorized'[h].at
    BY DEF AuthorizationsSerial
  <2>1. CASE g # f /\ h # f
    <3>1. /\ g \in Authorizations /\ authorized'[g] = authorized[g]
          /\ h \in Authorizations /\ authorized'[h] = authorized[h]
      BY <1>6, <1>11, <2>1
    <3>2. QED
      BY <3>1 DEF ResourcesInv, AuthorizationsSerial
  <2>2. CASE h = f
    <3>1. g \in Authorizations /\ authorized'[g] = authorized[g] /\ Past(g)
      BY <1>6, <1>11, <2>2
    <3>2. authorized'[h] = new
      BY <1>5, <2>2
    <3>3. /\ authorized[g].reads[r] \in Nat /\ resources[r] \in Nat
          /\ authorized[g].reads[r] <= resources[r]
          /\ authorized'[h].resulting[r] = resources[r] + 1
      BY <1>7, <1>8, <3>1, <3>2 DEF Past
    <3>4. authorized[g].at \in 1..index /\ authorized'[h].at = index + 1
      BY <1>7, <3>1, <3>2 DEF Past
    <3>5. QED
      BY <1>1, <3>1, <3>3, <3>4
  <2>3. CASE g = f
    <3>1. h \in Authorizations /\ authorized'[h] = authorized[h] /\ Past(h)
      BY <1>6, <1>11, <2>3
    <3>2. authorized'[g] = new
      BY <1>5, <2>3
    <3>3. /\ authorized[h].resulting[r] \in Nat
          /\ authorized[h].resulting[r] <= resources[r]
          /\ authorized'[g].reads[r] = resources[r] /\ resources[r] \in Nat
      BY <1>7, <1>8, <3>1, <3>2 DEF Past
    <3>4. authorized[h].at \in 1..index /\ authorized'[g].at = index + 1
      BY <1>7, <3>1, <3>2 DEF Past
    <3>5. QED
      BY <1>1, <3>1, <3>3, <3>4
  <2>4. QED
    BY <2>1, <2>2, <2>3
<1>15. QED
  BY <1>5, <1>6, <1>9, <1>10, <1>12, <1>13, <1>14 DEF ResourcesInv

-----------------------------------------------------------------------------
LEMMA ResourcesNextInv ==
    ASSUME ResourcesInv, [ResourcesNext]_agents PROVE ResourcesInv'
<1>1. AgentTypeOK
  BY DEF ResourcesInv, ResourcesTypeOK
<1>2. CASE UNCHANGED agents
  BY <1>1, <1>2, AgentStepInv DEF agents, AgentTypeOK, HasResult
<1>3. CASE AgentNext /\ UNCHANGED <<resources, plans, authorized, index>>
  BY <1>1, <1>3, AgentStepInv, EffectsStay, NextIsCommand, ExecutionCommandType,
     EffectCommandType
<1>4. ASSUME NEW r \in Resource, NEW version \in 0..MaxVersion,
             CreateResource(r, version)
      PROVE  ResourcesInv'
  BY <1>4, CreateResourceInv, ResourceBoundAssumption
<1>5. ASSUME NEW e \in Execution, NEW R \in SUBSET Resource, NEW reads \in Readings(R),
             NEW writes \in SUBSET R, RecordPlan(e, reads, writes)
      PROVE  ResourcesInv'
  <2>1. reads \in [R -> Nat]
    BY ResourceBoundAssumption DEF Readings
  <2>2. QED
    BY <1>5, <2>1, RecordPlanInv
<1>6. ASSUME NEW f \in Effect, NEW s \in Snapshot, AuthorizeEffect(f, s)
      PROVE  ResourcesInv'
  BY <1>6, AuthorizeEffectInv
<1>7. QED
  BY <1>2, <1>3, <1>4, <1>5, <1>6 DEF ResourcesNext

\* The records are well formed and every authorization has its ledger entry.
THEOREM ResourcesTypeCorrect == ResourcesSpec => []ResourcesTypeOK
<1>1. ResourcesInv => ResourcesTypeOK
  BY DEF ResourcesInv
<1>2. QED
  BY <1>1, ResourcesInitInv, ResourcesNextInv, PTL DEF ResourcesSpec

\* Whatever versions the agents have read and in whatever order they come, the
\* authorized effects are serializable in log order.
THEOREM Serializable == ResourcesSpec => []AuthorizationsSerial
<1>1. ResourcesInv => AuthorizationsSerial
  BY DEF ResourcesInv
<1>2. QED
  BY <1>1, ResourcesInitInv, ResourcesNextInv, PTL DEF ResourcesSpec

=============================================================================
