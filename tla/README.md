# A verification project for CloudProof

CloudProof is a replicated control plane written in JavaScript: a Raft engine
under a key-value and agent state machine, the services that use it (serving,
gateway, agent workers, an event log), and a simulator that fuzzes all of it.
This directory holds TLA+ modules translated from that source, the TLC
configurations that check them, and theorems about them with TLAPS proofs.

## The system

| component | state it keeps | operations | hard behaviour |
|---|---|---|---|
| consensus engine (`replica/raft.js`) | term, vote, log, commit index, role, per-peer progress; timers; waiters for commits and for durability | RequestVote, PreVote, AppendEntries, client append, pause and resume, membership changes, ReadIndex and lease reads, pipelined replication, group commit | every RPC may be lost, late, duplicated; the handlers run between the `await`s of other handlers; crash between a write to memory and the flush; timers race answers |
| durable log (`replica/log-store.js`) | an append-only file, a buffer of unflushed records | append, buffered append, flush, rewrite by rename, load | torn last record, crash between the temporary file and the rename |
| state machine (`replica/state-machine.js`) | keys with revisions and leases, a clock taken from entries, a bounded event buffer, results per entry | set, delete, compare-and-set, leases, watch since a revision | replay must be deterministic; lease expiry against renewal; a watcher that falls behind the buffer |
| agent state (`replica/agent-state.js`) | executions with their snapshot, step and plan, the ledger of effects, versioned resources, semantic conflicts | create, advance, plan, intent, authorize, dispatch, result, commit, reconcile, complete, snapshot transitions | commands of late or dead workers arrive in any order; agents that read the same resources |
| agent runtime, client and provider (`packages/agent-runtime`, `tools/agent-raft-client.js`, `refund-provider`) | the worker's position, its client id and sequence number, the provider's refunds by effect id | start and resume a refund, look up, refund | a worker dies between the external call and its record; two workers on one effect; a call that arrives late |
| event log (`packages/stream/log.js`) | partitions with retention, group assignments and offsets | append, poll, commit, join, leave | rebalance while records are being processed |
| watermarks (`packages/stream/watermark.js`) | the time reached in each partition, open windows | advance, idle, emit | a partition that is idle and comes back |
| rollout and serving (`serving/*`) | the stages of a rollout under a lease, the model each server has loaded | stage, activate, roll back, watch | two controllers, a lost watch |
| gateway (`gateway/index.js`) | the known leader, clients, what was broadcast | forward, broadcast | leader changes |
| cloud twin (`packages/cloudproof`, `sim/cloud-runtime.js`) | deployments, pods, nodes | controllers, scheduler, faults | controllers acting on stale reads |

Components call each other as follows. Every change of replicated state goes
through `clientAppend` of the leader's engine; the engine calls the state
machine's `apply` for each committed entry in log order and wakes the waiting
client with the result. Serving, gateway and agent workers are HTTP clients of
a replica; they follow the state by watching from a revision on. The durable
log and the metadata file are called by the engine only, synchronously.

What makes each component correct:

- engine: one leader per term; matching logs; a committed entry stays committed
  and is what every server applies at its index, over crashes; nothing is
  acknowledged before it is durable; a retried command enters the log once; a
  server that hears from a leader does not disturb it; a linearizable read
  reflects every write acknowledged before it began; one configuration change
  at a time;
- durable log: what `append` or `flush` returned for is found by `load`;
- state machine: replicas that applied the same entries are equal; a key under
  a lease that was renewed in time is not dropped; a watcher sees every event
  once and in order, or is told that it cannot;
- agents: no external call without a committed dispatch; a recorded result is
  what the provider did, and final; the provider acts once per effect; nothing
  is complete with an effect in doubt; an open conflict stops new work; what
  agents read and write adds up to a serial history;
- event log: no record is passed over, none fetched again once its offset is
  committed, effects and offsets become visible together where that is promised;
  watermarks: no window is closed before every active partition has passed it,
  none twice, and none is left open behind the watermark;
- rollout: a run that holds the lock keeps it until its lease lapses; it flips
  once, and only to what the pods have loaded; a pod serves the last flip.

## The modules

| module | models | extends |
|---|---|---|
| `RaftLog` | the functions on logs inside the RPC handlers: up-to-date test, batch, truncate-and-append loop, conflict hint | |
| `Raft` | the engine over a fixed set of voters: elections, stop-and-wait replication, commit, group commit, deduplication, read index, crash, pause | `RaftLog` |
| `Pipeline` | pipelined replication: a leader, one follower, several requests open at a time, leaderships that end and begin again | `RaftLog` |
| `RaftMembership` | configurations in the log: `addServer`, `removeServer`, learners, catch-up, elections and commits by the configuration in force | `RaftLog` |
| `ReplicatedLog` | what the engine promises: one growing sequence, of which every server applies a prefix | |
| `RaftRefinement` | the mapping under which `Raft` implements `ReplicatedLog` | `Raft` |
| `PreVote` | when elections are held: election timer, pre-vote rounds and their token, refusal while a leader is heard | |
| `RaftLogProofs`, `RaftProofs` | lemmas about the log functions; every safety property of `Raft`, and the refinement | `RaftLog`; `RaftRefinement` |
| `PreVoteProofs` | the three properties of `PreVote` | `PreVote` |
| `PipelineProofs` | the theorems about `Pipeline` | `Pipeline` |
| `AgentState` | the reducer of `agent.*` commands: executions, steps, the effect ledger, semantic conflicts | |
| `AgentResources` | versioned resources, plans, and the command that authorizes an effect and writes | `AgentState` |
| `RefundWorkers` | workers, the log they send commands through, the refund provider | `AgentState` |
| `AgentProofs`, `RefundProofs` | the theorems about these | `AgentResources`; `RefundWorkers` |
| `EventLog` | a topic with retention and a consumer group: poll, commit, processing, rebalance | |
| `Watermarks` | the event-time window processor: watermarks of partitions and stream, idleness, windows, late records | |
| `StreamPipeline` | a group whose records go to the window processor | `EventLog`, `Watermarks` |
| `StreamProofs` | the eight invariants of the log, the group and the processor | `StreamPipeline` |
| `KeyValue` | the keyspace: set, delete, swap, leases, events | |
| `Rollout` | rollout and rollback runs, the client they share with the pods, pods that watch, preload and activate | `KeyValue` |
| `RolloutProofs` | the six invariants of `Rollout` | `Rollout` |
| `MCRaftMembership`, `MCRollout`, `MCPipeline` | four servers and the order of their elections; two runs and a pod; the logs that leader and follower start with | the module checked |
| `MCRaft`, `MCPreVote`, `MCAgentState`, `MCAgentResources`, `MCRefundWorkers` | symmetry, views and constraints for TLC; who owns which effect | the module checked |

### Raft

One action is one turn of the event loop. State and code correspond by name
(`currentTerm`, `votedFor`, `log`, `commitIndex`, `nextIndex`, ...), except:

- a log is a sequence numbered from 1; every index is the code's plus one, and 0
  stands for the code's -1;
- `durable[i]` is `_durableLength`: how much of the log is on disk. Term and
  vote are written synchronously by the handler that changes them, so a variable
  stands for both copies; `storedCommit` is the commit index in the metadata
  file, which is written lazily under group commit;
- `votes[i]` is the set of servers whose votes were counted, where the code
  keeps their number: the handler of each answer runs once;
- `rpc[i][j]` is the AppendEntries call of `_replicateToPeer` that i awaits from
  j. There is at most one (`_replicating`). Its `status` follows the request
  through the network, the receiver (`held` is a promise of
  `_acknowledgeWhenDurable`) and the answer;
- `late` holds requests that are still in the network though their caller has
  given up, and second copies;
- `leaders`, `decided` and `written` are history, which no action reads: the
  leaderships and commits there have been, and what each leader has had in its
  log (`Write`).

| action | code |
|---|---|
| `StartElection` | `_startElection` up to its fan-out |
| `GrantVote`, `RefuseVote` | `handleRequestVote`, by outcome |
| `CountVote` (`Lead`) | the continuation of a vote request, `_becomeLeader` |
| `LearnTerm` | the continuation of a vote request answered with a newer term |
| `ClientAppend`, `Heartbeat` | `clientAppend`, the heartbeat timer and the commit broadcast |
| `AppendSucceeded`, `AppendRefused`, `AppendDeposed`, `CallEnds` | the continuation of an AppendEntries call, by outcome |
| `RejectAppend`, `MismatchAppend`, `AcceptAppend` | `handleAppendEntries`, by outcome |
| `Flush`, `StoreCommit` | `_flushLog`, the timer of `_persistCommitIndex` |
| `Restart`, `Pause`, `Resume` | a crash and the constructor, `pause`, `resume` |

Abstractions:

- Time is left out. One fact about it is used: an AppendEntries call is given up
  after 450 ms and a server that stops leading waits at least 500 ms before it
  campaigns, so no call of an earlier leadership is outstanding at a new one.
  The stop-and-wait path relies on it: it compares neither term nor leadership
  when an answer comes in.
- A handler runs to its end. A crash between two writes of one handler (the
  term is stored, the log not yet) is not modelled; a crash between handlers is,
  and so is one in the middle of a flush, which keeps any prefix.
- `_scheduleFlush` flushes at once when the buffer is full: here that is an
  append followed by `Flush`. Coalesced replication delays `Heartbeat`, nothing
  else.
- The view drops what no action reads: progress of servers that do not lead and
  votes that were counted. Symmetry over servers is sound because no definition
  chooses among them.

`CanRead` is the state in which `readLinearizable` notes its index and starts to
confirm its leadership; `Confirming` are the leaders that a quorum's terms would
still confirm. `ReadIndexCurrent` is about that moment: the index covers every
commit that any leader has made before it. The read itself waits until the
index is applied, and the state it then returns is at least as new.

### Pipeline

The engine has two ways to replicate. `Raft` has the stop-and-wait one, one call
per peer; `Pipeline` has the other, for one peer, with the same functions on
logs. Of three servers two are followed closely, the one that leads from time to
time and one follower, because all that pipelining adds is between a leader and
each of its peers. The third is there for what the two must survive: it deposes
the leader, wins terms of its own, puts its entries into either log, and commits
with the leader. It takes and hands over its log whole, in one step, and its own
commit index is left out.

| action | code |
|---|---|
| `Pump` (inside the others) | `_pumpPeer` and `_sendAppend`: as many batches as the window has room for |
| `Lead` | `_becomeLeader` with its no-op and the first probe, after an election |
| `Heartbeat`, `ClientAppend` | `_replicateAll`, `clientAppend` |
| `AnswerDeposes`, `AnswerFenced`, `Acknowledged`, `RefusalOutrun`, `Refused` | `_onAppendResponse` and `_onPipelineReject`, by outcome |
| `CallFails` | `_onAppendError`; the request may still arrive (`ReceiveLate`) |
| `Receive` (`Handle`, `Replied`) | `handleAppendEntries` |
| `RivalLeads`, `RivalReachesLeader`, `RivalReachesFollower`, `RivalFollows` | the third server: an election, its AppendEntries to either, its answer |

`calls` is `progress.inflight` together with the network: a call whose reply is
not in yet is a request on its way, and any of them may be delivered next, in
any order. `_leaderEpoch` is left out, since a server leads a term at most once
and every request carries its term: the fence of `_onAppendResponse`, which
compares both, is `Current`. Entries are durable as they are appended.

One case deserves a word. A refusal is ignored if the follower has since matched
the rejected point, one the comment of `_onPipelineReject` calls a race that "no
longer matters". The entries of that request are not sent again by it, though
the next index has passed them. They are found missing when the next request
behind them is refused, at the latest by the heartbeat, which probes at the next
index; `CatchesUp` is the property that this always ends well.

### RaftMembership

A configuration is in force at a server as long as its log has it
(`ConfigOf`, `_refreshConfiguration`). `addServer` and `removeServer` are
records in `changes[i]`, one per call, with the phase whose `await` they are at
and the position of the entry they wait for.

| action | code |
|---|---|
| `StartElection`, `Vote`, `VoteRefused` | `_startElection`, one call of its fan-out with `handleRequestVote` and `_becomeLeader` |
| `Replicate`, `Mismatch`, `Deposed` | an iteration of `_replicateToPeer` with `handleAppendEntries` and `_advanceCommitIndex` |
| `AddServer`, `Promote`, `GivesUp` | `addServer` at its start, and after `_awaitCatchUp` |
| `RemoveServer` | `removeServer` |
| `Completes`, `TimesOut` | the end of `_commitConfiguration` in both |

A call and its answer are one step, no call is lost and nothing crashes: each
of its behaviours is one of the code, but not the other way round. That is
enough for what it is for, a history that the code allows; `Raft` is the module
with the network. Members are sets, and there is one call for a server at a time.

### PreVote

`PreVote` leaves logs out (a voter may find any candidate's log behind) and keeps
one bit of time, `fresh`: a leader was heard from less than the minimum election
timeout ago. `_preVoteRound` is only compared for equality, so `token` is the
round that still counts, or 0 after any of the steps that increment it. Crashes
are not in it: they end every round of the server.

### AgentState, AgentResources

A command is one step, since the reducer is a function that the state machine
calls for one log entry at a time; agreement on the log is what `Raft` is for.
The parameter `ok` of an operation is the answer, 200 or 409. A refusal and a
repetition change nothing. `executions` and `effects` hold the fields the
reducer reads; an effect belongs to one execution (`Owner`), where the code
keeps it in the execution's list. Versions and histories of records, the text
of commands and the workflow's own data are left out: no branch depends on them
but the comparison of a repeated command with the recorded one, and an effect id
is a digest of what it names.

| operation | code |
|---|---|
| `Create`, `Advance`, `Finish`, `DetectConflict`, `TransitionSnapshot` | `_create`, `_advance`, `_complete`, `_detectSemanticConflict`, `_transitionSnapshot` |
| `RecordIntent`, `Dispatch`, `RequireReconciliation`, `RecordResult`, `CommitEffect` | `_intent`, `_dispatch`, `_requireReconciliation`, `_recordResult`, `_commitEffect` |
| `CreateResource`, `RecordPlan`, `AuthorizeEffect` | `_createResource`, `_plan`, `_authorizeResourceEffect` |

`AgentNext` lets clients send any command with any argument at any time, which
is what the replicas must bear: nothing ties a command to the state its sender
saw. In `AgentResources` the versions in a plan are any versions up to the
present ones, since an agent may plan on what it read long ago.

### RefundWorkers

A worker is `startRefund` or `resumeRefund` of `RaftAgentClient` at one of its
`await`s: `waits` names the command it has sent, the lookup or the call.
`sent` holds commands that may still enter the log, `posts` calls that may still
reach the provider; both outlive the worker. A command is committed, applied and
answered in one step (`Commit`); if its worker still waits for it, the worker
goes on, otherwise it only has its effect. The worker's read of the ledger
(`raft.read`) is part of `Resume`: what it sends on that basis is a message and
arrives any time later, so nothing is gained by delaying the read.

| action | code |
|---|---|
| `Resume`, `Lookup`, `Continue` | `resumeRefund` and `startRefund`, between awaits |
| `Commit` (`Append`, `Apply`) | `command`, `POST /agent/commands`, `clientAppend` with `_findDuplicate`, `AgentState.apply` |
| `Call`, `Provide`, `LoseAnswer` | `providerRefund`, `RefundStore.refund`, `x-drop-response` |
| `GiveUp` | a time-out, a 503, the end of the retries, the worker's death |
| `Approve`, `Manage` | the workflow and its operators |

`FreshIds` chooses the environment: a worker that starts has a client id of its
own. Abstractions: the provider's file and its parameters; a
repeated command (`retries`) is one message, because it keeps its id and Raft
keeps one entry for it; `answers` is only kept where ids can meet again.

### EventLog, Watermarks, StreamPipeline

`EventLog` is a topic whose partitions lose old records to retention, and one
group. A partition is the sequence of the event times of its records; an offset
is a position in it. What a member fetches stays in `held` until it is
committed, processed or forgotten; a member that has polled and then crashes is
a rebalance, after which its batch may still be committed (the log compares no
generation). `process` is atomic up to its commit, since the handler is
synchronous: `VisibleEarly` says whether effects are seen before it.

`Watermarks` is the processor as functions from one state record to the next,
in the order of `ingest`: touch the partition, recompute the stream watermark
(which emits and purges), then add the record to the windows it belongs to, each
by itself (`Joined`), or correct them. `StreamPipeline` hands every processed
record to `Ingested`, in the order of the batch. The two packages have no caller in
the repository that joins them; `packages/stream/README.md` presents them as
one substrate. Left out: a mode of processing other than the group's own,
retention by bytes, groups without consumers, reads past a group, several
groups. A record that a failing `poll` has read counts as read.

### KeyValue, Rollout

`events` is the history of the keyspace: event r is the change of revision r,
so a replica that is behind is a prefix, `ValueAt(k, r)` is what it answers, and
a watcher's cursor is a position. The clock is abstract: a lease may lapse
before any entry, and a renewal changes nothing else.

| action | code |
|---|---|
| `Answered`, `Unanswered`, `LateWrite` | `ConsensusClient.write` over `propose`: its answer, a time-out after which the entry may commit at any later time, that commit |
| `ReadStaged`, `SeesAcks`, `StageFails`, `ReadCurrent` | `stage`, `acks`, `activate` of the controller, between awaits |
| `Killed`, `LockLapses` | the end of the job's process, `_expireLeases` |
| `Watch`, `BootReads` | the watch loop with `onModelEvent`, `bootstrap` |
| `Loads`, `LoadFails`, `AckPut` | `preload` and `activate` after `loadVersion`, the put of the acknowledgement |
| `PodRestarts` | `shutdown` or a crash, and a new process |

A read with `?stale=1` is answered as of any revision. One from a leader is
answered as of now; as of an earlier revision only at the cost of a fault,
because `GET /kv` trusts the lease of `raft.read` where a read index would not.
The watch and `bootstrap` are two tasks of a pod that interleave at their
awaits. Events that `onModelEvent` ignores are passed over. Left out: artifacts
and their checks, search, metrics, the limit of 1024 on the event buffer, swaps
that compare values.

## What the runs check

| run | instance | properties | shows |
|---|---|---|---|
| `raft_elections` | 3 voters, 2 terms, 3 elections, no client | `ElectionSafety`, `LeaderCompleteness`, `ReadIndexCurrent` | split votes, competing candidates, a leader deposed in the middle of committing its no-op, reads at old and new leaders |
| `raft_terms` | 3 voters, 3 terms, one entry per request, a pause, `Orderly` | `LogMatching`, `ElectableHasCommitted`, `ImplementsReplicatedLog` | three leaderships with divergent logs: enough for Figure 8 of the Raft paper, where the third leader replicates an entry of the first |
| `raft_crash` | 2 voters, group commit, 2 terms, a command, a crash, a late or duplicated request or else a pause (`LateApart`) | `TypeOK`, `AcknowledgedOnDisk`, `CommittedOnDisk`, `CommittedNeverTruncated`, `CommandOnce`, `VoteIsFinal` | losing the buffer of the leader or of a follower; acknowledgements held over a truncation, a term change, a pause; requests that arrive behind later ones; retries at both servers |
| `pipeline` | 2 leaderships and one of the third server's between them, logs that agree or differ before, 2 requests of 1 entry open, 1 call lost or late | `MatchIsReal`, `CommitsAgree`, `CatchesUp` | requests and answers that overtake each other, answers that come in the next leadership, refusals and failures among requests that are still open |
| `prevote` | 3 servers, 2 rounds, 2 terms, a pause | `ElectionsAgreed`, `OneElectionPerRound`, `NoElectionAfterContact` | answers that arrive after a heartbeat, a newer round or an election |
| `agent_ledger` | 1 execution, 2 effects, 2 snapshots, a result, a dispatch each, 2 resources of 2 versions | `CompleteIsSettled`, `AuthorizationsSerial`, `ConflictStopsExecution`, `ResultIsFinal` | any commands in any order; plans on old versions, replanning, overlapping reads and writes |
| `refund_workers` | 2 workers, 1 effect, 2 snapshots, 2 failures, fairness | `CallsAuthorized`, `ResultIsReal`, `CompleteIsRefunded`, `EffectSettles` | both workers on the effect, giving up twice at any step, a lost answer, a dead worker's command or call arriving late, conflicts in between |
| `refund_reused_ids` | as before, `FreshIds = FALSE` | `CallsAuthorized` | is violated, see findings |
| `agent_transition` | 1 execution, 1 effect | `TransitionAnswersConflict` | is violated, see findings |
| `stream` | 2 partitions, bounds in `StreamPipeline.cfg` | `TypeOK`, `NoCommittedRefetch`, `NothingPassedOver`, `EffectsWithOffsets`, `SlowestHoldsBack`, `NoWindowLeftBehind`, `ResultStands`, `EmittedOnce` | truncation under a reader, rebalances and crashes between poll, processing and commit; idle partitions that come back, late and repeated records |
| `rollout` | a forward run and a rollback, 1 pod, 2 versions, 2 faults | `TypeOK`, `EventsTellStore`, `FlipOnce`, `FlipIsLoaded`, `RunHoldsLock`, `FollowsCurrent` | lost answers with late copies, a lapsed lock, killed jobs, failed loads, a restart; every read at any replica |
| `membership` | 4 voters, 3 terms, logs of 3 | `ElectionSafety` | is violated, see findings |

Four type invariants are in no run: those of `AgentState`, `AgentResources`,
`RefundWorkers` and `Pipeline` are proved (below), and so is `NextBeyondMatch`.

The bounds are CONSTANTS that guard the actions (`MaxTerm`, `MaxElections`,
`MaxLog`, `MaxLate`, `MaxRestarts`, `MaxPauses`, `MaxPolls`). Each run pays for
one kind of difficulty and drops the others, since all of them together are far
out of reach: commands matter only where logs must differ within a term, the
no-op of each leader makes them differ across terms; late requests matter within
a leadership, since one from an earlier term is rejected, so they are where
there is one follower and are not combined with a pause. `Orderly` (only in
`raft_terms`) lets an election start after the one before has been won, lets
two servers campaign and pauses only a server that has led; without it three
terms are too many states. Deadlock is
not checked in the runs of `Raft` and `PreVote`, where a behaviour that has used
up its bounds stops; it is in the others.

The bounds of the agent modules are `MaxStep`, `MaxAttempts`, `MaxVersion` and
`MaxFailures`. `MaxStep` is 0 or 1, since a step number is only compared with
the expected one. With two resources of two versions each effect can write one
and read the other: what a lost update or a write skew takes. That both effects
belong to one execution loses nothing of it, since a plan may be on any versions
that ever were and no rule on resources names an execution. Two failures let both
workers leave messages behind, and two workers are on one effect without any.
`RefundWorkers` needs no bound on attempts: a worker starts again only after a
failure, a refusal or the end of its work.

In `stream`, retention must overtake a reader, a batch must outlive a rebalance
and a window must be purged before a late record comes; its bounds are the
smallest that have all three. In `rollout` a lost answer, a lapse, a killed job
and a failed load count as one fault, a restart, with the bootstrap it brings,
as two (`MaxFaults`); two faults let one run be interrupted twice or both once.
One pod is enough for properties that speak of each pod or of a count it
can meet alone; two runs are what the lock and the swap are for. `membership`
takes terms one after the other except the last (`Orderly`) and explores once
what differs only in what a server remembers of its peers while it does not
lead; it searches for a history and proves nothing by its end. In `pipeline` the
first term is 2 and the last is 4, so that there is an earlier term to have left
entries in (`Histories`) and one for the third server; two requests of one entry
are the least that can overtake each other, and a log of two with the no-ops of
two leaderships is enough to fill the window. One lost call and one
late one already force the way back to probing with another request open. Deadlock
is not checked in `stream`, `rollout` and `pipeline`: records, runs, faults and
terms are used up.

Every property has a mutant, a plausible mistake in the code that breaks it (for
instance the commit rule without the test of the term, an acknowledgement one
entry early, a merge that truncates at a shorter request): the definitions marked
"Mutant" in the modules, listed in `PROJECT.json`.

Fairness is assumed in two runs. In `pipeline` it is that the heartbeat timer
fires and the network carries requests and replies, one or another of them
again and again (weak fairness of their union): the timer is an interval that
`_startHeartbeat` sets and only the end of the leadership clears. That only
boundedly many calls fail is the usual assumption that the network recovers.
In `refund_workers` it is this: what is sent is committed
(a majority of replicas is up, the retries of `command`), the provider answers,
a worker reads its lookup, an open conflict is approved, and, strongly, somebody
resumes each effect again and again as long as it is not settled. The last is
what the code leaves to its operators: `resumeRefund` is called, it does not
schedule itself. Conflicts only move to later snapshots and workers give up
finitely often, otherwise nothing would ever settle. That elections end is
claimed nowhere: it depends on random timeouts.

### Findings

Three runs show a disagreement between the code and what it says of itself:

- `agent_transition`: `_transitionSnapshot` refuses a transition without an open
  conflict and one to another snapshot than the conflict's only inside other
  refusals, so an approved transition meets neither. It moves a running, or even
  a complete, execution to any snapshot and makes it run.
- `refund_reused_ids`: a `RaftAgentClient` numbers its commands from 1 under a
  default client id, so a restarted worker's dispatch can be answered with the
  result of an entry of its predecessor. The call that follows is not counted
  as an attempt, though the client and the documentation say every call is.

- `membership`: `_assertNoPendingConfigChange` knows the changes in the leader's
  own log only, and a leader may begin one before an entry of its term has
  committed. A leader of {1,2,3,4} appends the removal of 2 to itself alone and
  is deposed; the next one removes 1 and commits that. In the third term 1 is
  elected by {1,3} of {1,3,4}, and 4 by {2,4} of {2,3,4}. The comment on
  `addServer` says that majorities one server apart always overlap; these two
  are two servers apart. Waiting for an entry of the leader's own term before a
  change begins would exclude it.

## What is proved

For every set of servers, every number of terms, commands, crashes, pauses and
messages, from the assumptions of the module (servers are finitely many, more
than one; `Nil` is none of them and no call; `Noop` is no command):

- `RaftProofs!TypeCorrect`: `Spec => []TypeOK`. `TypeOK` is inductive by itself.
  The lemmas of `RaftLogProofs` say what the log functions return; the one with
  content is that a next index never leaves the log, however far hints push it.
- `RaftProofs!VoteFinal`: no step withdraws a vote in its term or lowers a term.
- `RaftProofs!ElectionSafe`: at most one leader per term. The inductive invariant
  is `ElectionInv`: everybody who ever supported a candidate in a term (by a
  granted vote, or by standing itself) remembers it as long as it is in the term;
  supports one candidate per term; votes that were counted are votes that were
  cast; every leadership had a majority's support. Votes survive crashes by
  `VoteFinal`. Two majorities meet, so two leaders of a term have a common
  supporter and are one.
- `RaftProofs!LogsMatch`, `CommandsOnce`: the logs. The argument goes through
  `written`, which has for each term the log its leader has had in it.
  `SafeLogs` says that every log, every request on its way and `written` itself
  are pieces of what was written: an entry of term T at index k comes with
  everything that `written[T]` has up to k (`Sourced`, `Piece`). Since one server
  writes a term, two logs that share an entry share what is before it. A leader
  may lose in a crash what it had only in memory, but it is then no leader of
  that term any more, so nothing is ever written in place of what was. That no log
  has a command twice is then a matter of the logs that leaders write, who look
  for a command in their own log before they append it.
- `RaftProofs!LeadersComplete`, `ElectableCommitted`, `CommittedStored`,
  `AcknowledgedStored`, `ReadsCurrent`, `CommittedStays`: commits. The core is
  `Safe(T, m, A, D)`, about the first m entries of what the leader of term T has
  written, when A and the servers that have not gone beyond T are a majority:
  all of A have these entries, those of D on disk, whatever they have voted for
  in a later term has them, and so has every later leader's log. For no A it is
  true of the start of a term, when a majority is not beyond it
  (`Starting`). `RepliesReal` and `LeaderSafe` say that whatever a leader has
  counted, or is about to be told, is such an A: acknowledgements are true,
  and stay true over later requests, truncations and crashes, because what was
  acknowledged was flushed, and because a request of the same term only adds to
  what an earlier one has stored. When A is a majority the entries are `Fixed`:
  in the log of every later leader. `CommitsCovered` and `RequestsCovered` carry
  this to the followers: every commit index, at a server, in its metadata file or
  in a request, is one of Fixed entries, which the log agrees with. `OwnDecided`
  is for the currency of reads: a leader's commit index covers what was committed
  in its term.
- `RaftProofs!RaftRefines`: `Spec => ImplementsReplicatedLog`, by the usual steps:
  the initial states are mapped to the initial state, and under `MapInv` every
  step is mapped to `Choose`, `Apply` or `Restart` of one server or to a
  stutter. What `MapInv` adds to the invariant above is that decisions leave no
  gap (`AllDecided`).
- `PreVoteProofs!Agreed`, `OneElection`, `ContactPreventsElection`: the three
  properties of `PreVote`. The invariant says that contact leaves no round that
  counts, and that every answer and every election belongs to the single request
  of its round.

- `PipelineProofs!PipelineTypeCorrect`, `NextIsBeyondMatch`: for any window and
  batch a leader's next index stays above what is known to match and inside its
  log. The invariant adds `CallsInLog`: an acknowledgement is for what its
  request carries, and the log of a leader still has what it has sent in its
  term. This is why counting a late success never moves the next index too far,
  and a refusal or failure never back behind a match.
- `PipelineProofs!MatchesAreReal`, `CommitsAgreed`: for any histories that leave
  two logs which match (`Matching`), any window, batch and losses. What leaders
  have written is not a variable here, so the invariant says that there is such a
  `w` (`Explained`); each step either keeps it or adds one entry to it. `Held(w,
  k)` is what an acknowledgement up to k is worth: as long as the follower is in
  the leader's term its log agrees up to k, and an entry of that term among them
  is one that every later log has, which stays true when the follower moves on.
  `Confirmed` and `Covered` say the same of the commit index in a request and of
  the follower's. The fence of `_onAppendResponse` is where the first is used (an
  answer of an earlier leadership has nothing to hold for), the cap of
  `handleAppendEntries` at what it has verified where the second is. The lemmas
  on logs, `Sourced` and `Piece` among them, are those of the Raft theorems:
  `RaftLogProofs` has them for any entries that have a term.

- `AgentProofs!AgentTypeCorrect`, `CompleteSettled`, `ResultFinal`,
  `ConflictStops`: the four properties of the reducer. Type correctness and
  `CompleteIsSettled` are inductive together: an effect is added or dispatched
  only while its execution runs, and is put in doubt only while it is intended.
- `AgentProofs!ResourcesTypeCorrect`, `Serializable`: the invariant
  compares each authorization with the present (`Past`): what it read has not
  gone back, what it wrote is at least at the version it produced. A new one
  reads the present versions and is the latest, so it falls into place.
- `RefundProofs!RefundTypeCorrect`, `CallsHaveDispatches`, `ResultsAreReal`,
  `CompleteRefunded`, all for `FreshIds`: the invariant has two halves. Whatever
  carries a worker's name is what it waits for now, or was left behind by an
  earlier run of it (`WorkersInv`); so an answer is taken for the command it
  belongs to. What was refunded was called, what was called was authorized, and
  what is recorded, or on its way to be, is a refund (`ValuesInv`).

- `RolloutProofs!RolloutTypeCorrect`, `EventsTell`, `FlipsOnce`, `FlipsAreLoaded`,
  `RunsHoldLock`, `PodsFollow`: every invariant of the run, for any runs, pods,
  versions and faults. The keyspace comes first (`StoreInv`): each change of a
  key appends its event, so the last event of a key, at any earlier revision too,
  is known by induction over the steps (`ChangesKnown`). The rest is about the
  writes in flight (`LateInv`): a late swap of `model/current` names the one
  revision its run has read and comes from a run that has seen enough pods; a late
  release, from a run that is over. What such a write does when it is applied is
  one lemma (`Applying`): once a run has flipped, the revision of
  `model/current` is past what the run had read, so no copy of its swap is
  accepted again. For the pods the invariant says what the watch serves, or will
  when it has loaded it (`Serves`), and that nothing else changes it.

- `StreamProofs!StreamTypeCorrect`, `CommittedNotRefetched`, `NothingSkipped`,
  `EffectsCovered`, `SlowestHolds`, `NoneLeftBehind`, `ResultsStand`,
  `OneEmission`: every invariant of the run, for any number of partitions, any
  retention, window, lateness and late policy. None of the log's is inductive
  alone: a batch may be committed long after a rebalance has taken the positions
  back, and moves them past itself. `LogInv` therefore says of each batch still
  held that it is in the log and that all below its places was delivered
  (`Within`). The processor is a function of its state and a record, so its
  invariant is about that function: `Ingested` takes every state that is
  `Consistent` and `Calm` to such a state, and a batch, being records one after
  the other, does too. `EmittedPast` is why windows stay closed: one that was
  emitted, removed since or not, ends before the stream's watermark, which never
  goes back, and so is not open to any record. What a poll has left to fetch, what
  it returns and what a batch does to the processor are recursions over partitions
  or records; `Recursion` and `Inductive` are the two facts about them the proofs
  need, both from the least number principle.

The assumptions are those of the modules: the keys of a rollout are keys, its
versions and runs are values, pods are finitely many; `Nil` is no record, snapshot, result or
number; every effect has an owner; event times are naturals, sizes and numbers of a topic
positive, a slide no longer than its window; in `RefundWorkers` results are the refunds'
numbers and snapshots are numbered.

Only model-checked: `EffectSettles` and `CatchesUp`, since liveness is out of the
proof system's reach. Every other property of a passing run is a theorem. The runs
that find a disagreement check one property each, which does not hold.

## Not modelled

- Of replication: coalescing of requests (`_requestReplication`), which only
  delays them, and pipelining together with group commit.
- The lease read (`read`), `lastQuorumContactAt` and lease ticks: their
  correctness is a matter of clocks.
- The log file format, checksums, the rewrite's rename; codec and connections.
- The retrieval structures (`hnsw`, `sparse`, `quantize`): floating-point search
  over data; `artifacts.js` and `embedder.js` with them.
- The cloud twin, the simulator, fuzzers, workloads, mesh and scenario language:
  harnesses and generators, whose controllers act on a simulated cluster only.
- Gateway, benchmarks, tools, machine learning, web applications, deployment.

Each has its line in `PROJECT.json`. The largest part of the repository is user
interface, generated bundles and data, which have no protocol to check.

Hazards met while modelling that no property covers; some of them are in
`PROJECT.json` with a note:

- Commands: the result of one leaves the cache after 4096 others, so that a
  retry of a refused command may be answered otherwise; an effect intended under
  one snapshot may be dispatched after a transition to another; a conflict may
  be found between the commit of a dispatch and the call, and one reported for
  a complete execution pauses it again.
- Reads and membership: `_confirmLeadership` counts a reply of a learner; the
  lease read asks for no entry of the leader's term, and answers counted late
  lengthen its window; two calls of `addServer` for one url do not exclude each
  other.
- Rollout: the lock fences nothing once its lease has lapsed; an acknowledgement
  whose put is refused is not repeated; readiness keys of pods that are gone
  still count; a watcher that is more than 1024 events behind misses some.
- Streams: `poll` moves its positions before it can throw, and an exception of a
  handler leaves positions behind what was handled; when all partitions are
  idle the watermark has nothing to follow.

## Plan

What is left, in this order:

1. `LogStore`: append, flush, rewrite and load against an abstract durable log.
2. `Verdicts`: what a client is told of a command, over the result cache of the
   state machine and answers to duplicates.
3. The gateway's leader discovery and the cloud twin's controllers.
