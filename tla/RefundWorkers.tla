---------------------------- MODULE RefundWorkers ----------------------------
(***************************************************************************)
(* Workers that settle external effects (tools/agent-raft-client.js)       *)
(* through the replicated reducer of AgentState and a refund provider      *)
(* (refund-provider/index.js). A worker records the intent, has a dispatch *)
(* authorized, calls the provider, records the result and commits it, each *)
(* step after the answer to the one before. A worker that takes over looks *)
(* at the ledger first and asks the provider what it knows.                *)
(*                                                                         *)
(* A command may be committed long after its worker has given up on it or  *)
(* died, and so may a call reach the provider. Raft keeps one log entry    *)
(* for a client id and sequence number and answers a repeat of it with the *)
(* first result. An answer is taken in the step that causes it: what the   *)
(* worker does next is a message again, and that may take any time.        *)
(***************************************************************************)
EXTENDS AgentState

CONSTANTS
    Worker,
    FreshIds,     \* a worker that starts again takes a client id of its own
    MaxFailures   \* bound: workers that give up or die, answers that are lost

ASSUME SnapshotAssumption == Snapshot \subseteq Nat   \* policies, oldest first
ASSUME ResultAssumption == Result = Nat              \* refunds by their number
ASSUME KindAssumption == FreshIds \in BOOLEAN

VARIABLES
    worker,       \* what each worker waits for, for which effect, its client
                  \* id and the sequence number of its last command
    sent,         \* commands that may still reach the log
    answers,      \* the answer to each log entry, by client id and number
    posts,        \* calls that may still reach the provider
    called,       \* calls sent, per effect
    refunds,      \* refunds the provider has made, per effect
    failures

vars == <<executions, effects, worker, sent, answers, posts, called, refunds, failures>>

Idle == "idle"

Op == {"intent", "reconcile", "dispatch", "record", "commit"}

Init ==
    /\ AgentInit
    /\ worker = [w \in Worker |-> [waits |-> Idle, effect |-> Nil, run |-> 0, seq |-> 0]]
    /\ sent = {} /\ posts = {}
    /\ answers = [i \in {} |-> TRUE]
    /\ called = [f \in Effect |-> 0]
    /\ refunds = [f \in Effect |-> 0]
    /\ failures = 0

IdOf(w) == <<w, worker[w].run, worker[w].seq>>

\* next() and command(): worker w, in state x, sends a command under its next
\* number. rest are the commands on their way without it.
Sends(w, x, op, arg, rest) ==
    /\ worker' = [worker EXCEPT ![w] = [x EXCEPT !.waits = op, !.seq = @ + 1]]
    /\ sent' = rest \cup
           {[id |-> <<w, x.run, x.seq + 1>>, op |-> op, effect |-> x.effect, arg |-> arg]}

Waits(w, for) == worker' = [worker EXCEPT ![w].waits = for]

-----------------------------------------------------------------------------
\* Workers

\* A new RaftAgentClient counts from 0 again.
Started(w, f) ==
    [waits |-> Idle, effect |-> f, seq |-> 0,
     run |-> IF FreshIds THEN failures ELSE 0]

\* resumeRefund, and startRefund where it finds nothing to resume.
Resume(w, f) ==
    LET x == Started(w, f) IN
    /\ worker[w].waits = Idle
    /\ executions[Owner[f]] # Nil
    /\ \/ /\ effects[f] = Nil
          /\ Sends(w, x, "intent", executions[Owner[f]].snapshot, sent)
       \/ /\ effects[f] # Nil /\ effects[f].status = Returned
          /\ Sends(w, x, "commit", Nil, sent)
       \/ /\ effects[f] # Nil /\ ~HasResult(f)
          /\ Sends(w, x, "reconcile", Nil, sent)
    /\ UNCHANGED <<agent, answers, posts, called, refunds, failures>>

\* Mutant: an effect in doubt is taken to have happened.
FoundOrAssumed(f) == refunds[f] >= 0

Found(f) == refunds[f] > 0

\* providerLookup: the call is made only if the provider knows of no refund.
Lookup(w) ==
    LET x == worker[w] IN
    /\ x.waits = "lookup"
    /\ IF Found(x.effect)
       THEN Sends(w, x, "record", refunds[x.effect], sent)
       ELSE Sends(w, x, "dispatch", Nil, sent)
    /\ UNCHANGED <<agent, answers, posts, called, refunds, failures>>

\* Whatever ends a wait without an answer: a time-out, a 503, a crash.
GiveUp(w) ==
    /\ worker[w].waits # Idle
    /\ failures < MaxFailures
    /\ failures' = failures + 1
    /\ Waits(w, Idle)
    /\ UNCHANGED <<agent, sent, answers, posts, called, refunds>>

-----------------------------------------------------------------------------
\* The log

Apply(m, ok) ==
    \/ m.op = "intent"    /\ RecordIntent(m.effect, m.arg, ok)
    \/ m.op = "reconcile" /\ RequireReconciliation(m.effect, ok)
    \/ m.op = "dispatch"  /\ Dispatch(m.effect, ok)
    \/ m.op = "record"    /\ RecordResult(m.effect, m.arg, ok)
    \/ m.op = "commit"    /\ CommitEffect(m.effect, ok)

\* Raft finds the entry of a client id and number and applies nothing twice.
\* Only ids that are used again can meet an answer of their own.
Append(m, ok) ==
    IF m.id \in DOMAIN answers
    THEN ok = answers[m.id] /\ UNCHANGED <<agent, answers>>
    ELSE /\ Apply(m, ok)
         /\ answers' = IF FreshIds THEN answers
                       ELSE [i \in DOMAIN answers \cup {m.id} |->
                                IF i = m.id THEN ok ELSE answers[i]]

\* Mutant: a worker calls the provider whatever the answer to its dispatch.
ProceedsAnyway(w, ok) == ok \/ worker[w].waits = "dispatch"

Proceeds(w, ok) == ok

\* Mutant: the call is not made.
CallForgotten(w) ==
    /\ Waits(w, "call")
    /\ UNCHANGED posts
    /\ called' = [called EXCEPT ![worker[w].effect] = @ + 1]

Call(w) ==
    /\ Waits(w, "call")
    /\ posts' = posts \cup {[id |-> IdOf(w), effect |-> worker[w].effect]}
    /\ called' = [called EXCEPT ![worker[w].effect] = @ + 1]

\* The worker whose command was confirmed goes on.
Continue(w, rest) ==
    LET x == worker[w] IN
    \/ x.waits = "intent"    /\ Sends(w, x, "dispatch", Nil, rest) /\ UNCHANGED <<posts, called>>
    \/ x.waits = "reconcile" /\ Waits(w, "lookup") /\ sent' = rest /\ UNCHANGED <<posts, called>>
    \/ x.waits = "dispatch"  /\ Call(w) /\ sent' = rest
    \/ x.waits = "record"    /\ Sends(w, x, "commit", Nil, rest) /\ UNCHANGED <<posts, called>>
    \/ x.waits = "commit"    /\ Waits(w, Idle) /\ sent' = rest /\ UNCHANGED <<posts, called>>

\* A command is committed, applied and answered; nobody may be waiting any more.
Commit(m) ==
    LET w == m.id[1]
        awaited == worker[w].waits = m.op /\ IdOf(w) = m.id IN
    /\ m \in sent
    /\ \E ok \in BOOLEAN :
          /\ Append(m, ok)
          /\ \/ awaited /\ Proceeds(w, ok) /\ Continue(w, sent \ {m})
             \/ /\ awaited /\ ~Proceeds(w, ok) /\ Waits(w, Idle)
                /\ sent' = sent \ {m} /\ UNCHANGED <<posts, called>>
             \/ /\ ~awaited /\ sent' = sent \ {m}
                /\ UNCHANGED <<worker, posts, called>>
    /\ UNCHANGED <<refunds, failures>>

-----------------------------------------------------------------------------
\* The provider

\* The number of the refund that answers a call: the provider keeps them by
\* effect id and makes none for an effect that it finds.
Refund(f) == IF refunds[f] > 0 THEN refunds[f] ELSE refunds[f] + 1

Refunded(p) ==
    /\ p \in posts /\ posts' = posts \ {p}
    /\ refunds' = [refunds EXCEPT ![p.effect] = Refund(p.effect)]
    /\ UNCHANGED <<agent, answers, called>>

CallAwaited(p) == LET w == p.id[1] IN worker[w].waits = "call" /\ IdOf(w) = p.id

Provide(p) ==
    LET w == p.id[1] IN
    /\ Refunded(p)
    /\ IF CallAwaited(p) THEN Sends(w, worker[w], "record", Refund(p.effect), sent)
       ELSE UNCHANGED <<worker, sent>>
    /\ UNCHANGED failures

\* x-drop-response: the refund is on disk and the socket is closed.
LoseAnswer(p) ==
    /\ Refunded(p)
    /\ CallAwaited(p) /\ Waits(p.id[1], Idle) /\ UNCHANGED sent
    /\ failures < MaxFailures /\ failures' = failures + 1

-----------------------------------------------------------------------------
\* The workflow and its operators

Approve(e) ==
    /\ executions[e] # Nil /\ executions[e].status = Paused
    /\ TransitionSnapshot(e, executions[e].snapshot, executions[e].conflict, TRUE, TRUE)
    /\ UNCHANGED <<worker, sent, answers, posts, called, refunds, failures>>

Manage(e) ==
    /\ \/ executions[e] = Nil /\ \E s \in Snapshot : Create(e, s, TRUE)
       \/ /\ executions[e] # Nil
          /\ \E s \in Snapshot : s > executions[e].snapshot /\ DetectConflict(e, s, TRUE)
       \/ executions[e] # Nil /\ Finish(e, executions[e].step, TRUE)
    /\ UNCHANGED <<worker, sent, answers, posts, called, refunds, failures>>

Next ==
    \/ \E w \in Worker, f \in Effect : Resume(w, f)
    \/ \E w \in Worker : Lookup(w)
    \/ \E w \in Worker : GiveUp(w)
    \/ \E m \in sent : Commit(m)
    \/ \E p \in posts : Provide(p)
    \/ \E p \in posts : LoseAnswer(p)
    \/ \E e \in Execution : Approve(e)
    \/ \E e \in Execution : Manage(e)

\* A quorum commits what is sent, the provider answers, conflicts are approved
\* and somebody resumes each effect that is not settled.
Fairness ==
    /\ \A f \in Effect : SF_vars(\E w \in Worker : Resume(w, f))
    /\ \A w \in Worker :
          /\ WF_vars(Lookup(w))
          /\ WF_vars(\E m \in sent : m.id[1] = w /\ Commit(m))
          /\ WF_vars(\E p \in posts : p.id[1] = w /\ Provide(p))
    /\ \A e \in Execution : WF_vars(Approve(e))

Spec == Init /\ [][Next]_vars

FairSpec == Spec /\ Fairness

-----------------------------------------------------------------------------
\* The ledger is well formed, and a worker that waits for the log or the
\* provider has a command or a call on its way.
TypeOK ==
    /\ AgentTypeOK
    /\ \A w \in Worker : worker[w].waits \in Op =>
          \E m \in sent : m.id = IdOf(w) /\ m.op = worker[w].waits
    /\ \A w \in Worker : worker[w].waits = "call" =>
          \E p \in posts : p.id = IdOf(w)
    /\ {called, refunds} \subseteq [Effect -> Nat]

\* The ledger counts every call: no call is sent that a committed dispatch has
\* not authorized ("RPC only after committed intent and dispatch
\* authorization", startRefund and resumeRefund).
CallsAuthorized ==
    \A f \in Effect :
        called[f] <= IF effects[f] = Nil THEN 0 ELSE effects[f].attempts

\* A recorded result is a refund the provider has made under this effect id,
\* after a dispatch (resumeRefund, recordResult).
ResultIsReal ==
    \A f \in Effect : HasResult(f) =>
        /\ effects[f].result \in 1..refunds[f]
        /\ effects[f].attempts > 0

\* An execution that is complete has had every effect it intended: the
\* provider has made the refund (_complete together with resumeRefund).
CompleteIsRefunded ==
    \A e \in Execution : executions[e] # Nil /\ executions[e].status = Complete =>
        \A f \in Effect : Owner[f] = e /\ effects[f] # Nil => refunds[f] > 0

\* An effect that was intended is settled in the end, whatever was lost and
\* whoever gave up on the way (resumeRefund).
EffectSettles ==
    \A f \in Effect :
        effects[f] # Nil ~> effects[f] # Nil /\ effects[f].status = Committed

=============================================================================
