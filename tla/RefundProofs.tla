------------------------------ MODULE RefundProofs ------------------------------
(***************************************************************************)
(* Workers that take client ids of their own, for any number of workers,   *)
(* effects, failures and late messages: every call was authorized, every   *)
(* recorded result is a refund, and a complete execution has been          *)
(* refunded. The invariant has two halves: whatever is on its way under    *)
(* a worker's name is what it waits for or left behind by an earlier run   *)
(* of it (WorkersInv), and what is recorded was called and what was called *)
(* was authorized (ValuesInv). The lemmas about the reducer are those of   *)
(* AgentProofs; the resources of that module play no part here.            *)
(***************************************************************************)
EXTENDS RefundWorkers, AgentProofs

WorkerRecord ==
    [waits : Op \cup {Idle, "lookup", "call"}, effect : Effect \cup {Nil},
     run : Nat, seq : Nat]

Message ==
    [id : Worker \X Nat \X Nat, op : Op, effect : Effect, arg : Nat \cup {Nil}]

Post == [id : Worker \X Nat \X Nat, effect : Effect]

\* What carries this id was sent by an earlier run of its worker.
LeftBehind(id) ==
    /\ id[2] < failures
    /\ worker[id[1]].waits = Idle \/ id[2] < worker[id[1]].run

Awaited(m) ==
    /\ worker[m.id[1]].waits = m.op
    /\ m.id = IdOf(m.id[1]) /\ m.effect = worker[m.id[1]].effect

PostAwaited(p) ==
    /\ worker[p.id[1]].waits = "call"
    /\ p.id = IdOf(p.id[1]) /\ p.effect = worker[p.id[1]].effect

WorkersOK ==
    /\ failures \in Nat
    /\ worker \in [Worker -> WorkerRecord]
    /\ \A w \in Worker :
          /\ worker[w].run <= failures
          /\ worker[w].waits # Idle => worker[w].effect \in Effect
          /\ worker[w].waits \in Op =>
                \E m \in sent : m.id = IdOf(w) /\ m.op = worker[w].waits
          /\ worker[w].waits = "call" => \E p \in posts : p.id = IdOf(w)

SentOK ==
    /\ sent \subseteq Message
    /\ \A m \in sent : Awaited(m) \/ LeftBehind(m.id)
    /\ \A m, n \in sent : m.id = n.id => m = n

PostsOK ==
    /\ posts \subseteq Post
    /\ \A p \in posts : PostAwaited(p) \/ LeftBehind(p.id)

WorkersInv == WorkersOK /\ SentOK /\ PostsOK

ValuesInv ==
    /\ called \in [Effect -> Nat] /\ refunds \in [Effect -> Nat]
    /\ DOMAIN answers = {}
    /\ \A m \in sent :
          /\ m.op = "intent" => m.arg \in Snapshot
          /\ m.op = "record" => m.arg \in 1..refunds[m.effect]
    /\ \A p \in posts : called[p.effect] > 0
    /\ \A f \in Effect : refunds[f] > 0 => called[f] > 0
    /\ CallsAuthorized
    /\ ResultIsReal

RefundInv == AgentInv /\ WorkersInv /\ ValuesInv

-----------------------------------------------------------------------------
\* What is under way

LEMMA InitWorkers == Init => WorkersInv
BY DEF Init, WorkersInv, WorkersOK, SentOK, PostsOK, WorkerRecord, Idle, Op

\* Under the name of a worker there is what it waits for, and what it left behind.
LEMMA SentByWorker ==
    ASSUME WorkersInv, NEW m \in sent
    PROVE  LET w == m.id[1] IN
           /\ w \in Worker /\ m.id = <<w, m.id[2], m.id[3]>>
           /\ m.id[2] \in Nat /\ m.id[3] \in Nat
           /\ worker[w].waits = Idle => m.id[2] < failures
           /\ worker[w].waits # Idle /\ ~ (worker[w].waits = m.op /\ m.id = IdOf(w))
                 => m.id[2] < worker[w].run /\ m.id[2] < failures
           /\ worker[w].waits = m.op /\ m.id = IdOf(w) => m.effect = worker[w].effect
<1>1. m \in Message /\ (Awaited(m) \/ LeftBehind(m.id))
  BY DEF WorkersInv, SentOK
<1>2. /\ m.id[1] \in Worker /\ m.id = <<m.id[1], m.id[2], m.id[3]>>
      /\ m.id[2] \in Nat /\ m.id[3] \in Nat /\ m.op # Idle
  BY <1>1 DEF Message, Op, Idle
<1>3. worker[m.id[1]] \in WorkerRecord
  BY <1>2 DEF WorkersInv, WorkersOK
<1>4. m.id = IdOf(m.id[1]) => m.id[2] = worker[m.id[1]].run
  BY DEF IdOf
<1>5. QED
  BY <1>1, <1>2, <1>3, <1>4 DEF Awaited, LeftBehind, WorkerRecord

LEMMA PostByWorker ==
    ASSUME WorkersInv, NEW p \in posts
    PROVE  LET w == p.id[1] IN
           /\ w \in Worker /\ p.id = <<w, p.id[2], p.id[3]>>
           /\ p.id[2] \in Nat /\ p.id[3] \in Nat
           /\ worker[w].waits = Idle => p.id[2] < failures
           /\ worker[w].waits # Idle /\ ~ CallAwaited(p)
                 => p.id[2] < worker[w].run /\ p.id[2] < failures
           /\ CallAwaited(p) => p.effect = worker[w].effect
<1>1. p \in Post /\ (PostAwaited(p) \/ LeftBehind(p.id))
  BY DEF WorkersInv, PostsOK
<1>2. /\ p.id[1] \in Worker /\ p.id = <<p.id[1], p.id[2], p.id[3]>>
      /\ p.id[2] \in Nat /\ p.id[3] \in Nat
  BY <1>1 DEF Post
<1>3. worker[p.id[1]] \in WorkerRecord
  BY <1>2 DEF WorkersInv, WorkersOK
<1>4. p.id = IdOf(p.id[1]) => p.id[2] = worker[p.id[1]].run
  BY DEF IdOf
<1>5. QED
  BY <1>1, <1>2, <1>3, <1>4 DEF PostAwaited, LeftBehind, WorkerRecord, CallAwaited, Idle

\* Worker w goes into state x. What stays on its way under its name was left
\* behind, what is new is what it waits for now.
LEMMA WorkerMoves ==
    ASSUME WorkersInv, NEW w \in Worker, NEW x \in WorkerRecord,
           worker' = [worker EXCEPT ![w] = x],
           failures' \in Nat, failures <= failures', x.run <= failures',
           x.waits # Idle => x.effect \in Effect,
           \A m \in sent : m.id[1] = w /\ m \in sent' =>
               m.id[2] < failures' /\ (x.waits = Idle \/ m.id[2] < x.run),
           \A p \in posts : p.id[1] = w /\ p \in posts' =>
               p.id[2] < failures' /\ (x.waits = Idle \/ p.id[2] < x.run),
           \A m \in sent : m.id[1] # w => m \in sent',
           \A p \in posts : p.id[1] # w => p \in posts',
           \A m \in sent' \ sent :
               /\ m \in Message /\ m.id = <<w, x.run, x.seq>>
               /\ m.op = x.waits /\ m.effect = x.effect,
           \A m, n \in sent' \ sent : m = n,
           \A p \in posts' \ posts :
               /\ p \in Post /\ p.id = <<w, x.run, x.seq>>
               /\ x.waits = "call" /\ p.effect = x.effect,
           x.waits \in Op => sent' \ sent # {},
           x.waits = "call" => posts' \ posts # {}
    PROVE  WorkersInv'
<1>1. /\ worker' \in [Worker -> WorkerRecord] /\ worker'[w] = x
      /\ \A v \in Worker \ {w} : worker'[v] = worker[v] /\ IdOf(v)' = IdOf(v)
      /\ IdOf(w)' = <<w, x.run, x.seq>>
  BY DEF WorkersInv, WorkersOK, IdOf
<1>2. \A v \in Worker : worker[v] \in WorkerRecord /\ worker[v].run \in Nat
  BY DEF WorkersInv, WorkersOK, WorkerRecord
<1>3. x.run \in Nat /\ x.seq \in Nat /\ failures \in Nat
  BY DEF WorkerRecord, WorkersInv, WorkersOK
<1>4. WorkersOK'
  <2>1. ASSUME NEW v \in Worker
        PROVE  /\ worker'[v].run <= failures'
               /\ worker'[v].waits # Idle => worker'[v].effect \in Effect
    BY <1>1, <1>2, <1>3 DEF WorkersInv, WorkersOK
  <2>2. ASSUME NEW v \in Worker, worker'[v].waits \in Op
        PROVE  \E m \in sent' : m.id = IdOf(v)' /\ m.op = worker'[v].waits
    <3>1. CASE v = w
      BY <1>1, <2>2, <3>1
    <3>2. CASE v # w
      <4>1. PICK m \in sent : m.id = IdOf(v) /\ m.op = worker[v].waits
        BY <1>1, <2>2, <3>2 DEF WorkersInv, WorkersOK
      <4>2. m.id[1] = v
        BY <4>1 DEF IdOf
      <4>3. QED
        BY <1>1, <3>2, <4>1, <4>2
    <3>3. QED
      BY <3>1, <3>2
  <2>3. ASSUME NEW v \in Worker, worker'[v].waits = "call"
        PROVE  \E p \in posts' : p.id = IdOf(v)'
    <3>1. CASE v = w
      BY <1>1, <2>3, <3>1
    <3>2. CASE v # w
      <4>1. PICK p \in posts : p.id = IdOf(v)
        BY <1>1, <2>3, <3>2 DEF WorkersInv, WorkersOK
      <4>2. p.id[1] = v
        BY <4>1 DEF IdOf
      <4>3. QED
        BY <1>1, <3>2, <4>1, <4>2
    <3>3. QED
      BY <3>1, <3>2
  <2>4. QED
    BY <1>1, <2>1, <2>2, <2>3 DEF WorkersOK
<1>5. SentOK'
  <2>1. sent' \subseteq Message
    BY DEF WorkersInv, SentOK
  <2>2. ASSUME NEW m \in sent' PROVE Awaited(m)' \/ LeftBehind(m.id)'
    <3>1. CASE m \notin sent
      BY <1>1, <3>1 DEF Awaited
    <3>2. CASE m \in sent /\ m.id[1] = w
      BY <1>1, <3>2 DEF LeftBehind
    <3>3. CASE m \in sent /\ m.id[1] # w
      <4>1. m.id[1] \in Worker /\ m.id[2] \in Nat /\ (Awaited(m) \/ LeftBehind(m.id))
        BY <3>3, SentByWorker DEF WorkersInv, SentOK
      <4>2. QED
        BY <1>1, <1>3, <3>3, <4>1 DEF Awaited, LeftBehind
    <3>4. QED
      BY <3>1, <3>2, <3>3
  <2>3. ASSUME NEW m \in sent', NEW n \in sent', m \in sent, n \notin sent
        PROVE  m.id # n.id
    <3>1. m.id[2] \in Nat
      BY <2>3, SentByWorker
    <3>2. CASE m.id[1] = w
      <4>1. x.waits # Idle
        BY <2>3 DEF Message, Op, Idle
      <4>2. QED
        BY <1>3, <2>3, <3>1, <3>2, <4>1
    <3>3. QED
      BY <2>3, <3>2
  <2>4. ASSUME NEW m \in sent', NEW n \in sent', m.id = n.id PROVE m = n
    BY <2>3, <2>4 DEF WorkersInv, SentOK
  <2>5. QED
    BY <2>1, <2>2, <2>4 DEF SentOK
<1>6. PostsOK'
  <2>1. posts' \subseteq Post
    BY DEF WorkersInv, PostsOK
  <2>2. ASSUME NEW p \in posts' PROVE PostAwaited(p)' \/ LeftBehind(p.id)'
    <3>1. CASE p \notin posts
      BY <1>1, <3>1 DEF PostAwaited
    <3>2. CASE p \in posts /\ p.id[1] = w
      BY <1>1, <3>2 DEF LeftBehind
    <3>3. CASE p \in posts /\ p.id[1] # w
      <4>1. p.id[1] \in Worker /\ p.id[2] \in Nat /\ (PostAwaited(p) \/ LeftBehind(p.id))
        BY <3>3, PostByWorker DEF WorkersInv, PostsOK
      <4>2. QED
        BY <1>1, <1>3, <3>3, <4>1 DEF PostAwaited, LeftBehind
    <3>4. QED
      BY <3>1, <3>2, <3>3
  <2>3. QED
    BY <2>1, <2>2 DEF PostsOK
<1>7. QED
  BY <1>4, <1>5, <1>6 DEF WorkersInv

\* Worker w sends its next command, and nothing of this run of it is on its way.
LEMMA WorkerSends ==
    ASSUME WorkersInv, NEW w \in Worker, NEW x \in WorkerRecord, x.effect \in Effect,
           x.run <= failures, NEW op \in Op, NEW arg \in Nat \cup {Nil},
           NEW rest \in SUBSET sent, Sends(w, x, op, arg, rest),
           UNCHANGED failures, posts' \subseteq posts,
           \A m \in rest : m.id[1] = w => m.id[2] < failures /\ m.id[2] < x.run,
           \A m \in sent \ rest : m.id[1] = w /\ m.id[3] # x.seq + 1,
           \A p \in posts' : p.id[1] = w => p.id[2] < failures /\ p.id[2] < x.run,
           \A p \in posts : p.id[1] # w => p \in posts'
    PROVE  WorkersInv'
<1> DEFINE y == [x EXCEPT !.waits = op, !.seq = @ + 1]
           new == [id |-> <<w, x.run, x.seq + 1>>, op |-> op, effect |-> x.effect,
                   arg |-> arg]
<1>1. /\ x.run \in Nat /\ x.seq \in Nat
      /\ y \in WorkerRecord /\ y.waits = op /\ y.run = x.run /\ y.seq = x.seq + 1
      /\ y.effect = x.effect
  <2>1. x.run \in Nat /\ x.seq \in Nat
    BY DEF WorkerRecord
  <2>2. y \in WorkerRecord
    <3>1. [x EXCEPT !.waits = op] \in WorkerRecord
      BY DEF WorkerRecord
    <3>2. ASSUME NEW z \in WorkerRecord PROVE [z EXCEPT !.seq = @ + 1] \in WorkerRecord
      BY DEF WorkerRecord
    <3>3. y = [[x EXCEPT !.waits = op] EXCEPT !.seq = @ + 1]
      BY DEF WorkerRecord
    <3>4. QED
      BY <3>1, <3>2, <3>3
  <2>3. y.waits = op /\ y.run = x.run /\ y.effect = x.effect
    BY DEF WorkerRecord
  <2>4. y.seq = x.seq + 1
    BY DEF WorkerRecord
  <2>5. QED
    BY <2>1, <2>2, <2>3, <2>4
<1>2. worker' = [worker EXCEPT ![w] = y] /\ sent' = rest \cup {new}
  BY DEF Sends
<1>3. /\ new \in Message /\ new.id = <<w, x.run, x.seq + 1>>
      /\ new.id[1] = w /\ new.id[2] = x.run /\ new.id[3] = x.seq + 1
      /\ new.op = op /\ new.effect = x.effect
  BY <1>1 DEF Message
<1> HIDE DEF new, y
<1>4. new \notin sent
  BY <1>1, <1>3
<1>5. op # Idle /\ op # "call"
  BY DEF Op, Idle
<1>6. sent' \ sent = {new} /\ posts' \ posts = {}
  BY <1>2, <1>4
<1>7. failures \in Nat
  BY DEF WorkersInv, WorkersOK
<1>8. \A m \in sent : m.id[1] # w => m \in sent'
  BY <1>2
<1>9. \A m \in sent : m.id[1] = w /\ m \in sent' => m.id[2] < failures' /\ m.id[2] < y.run
  BY <1>1, <1>2, <1>4
<1>10. \A p \in posts : p.id[1] = w /\ p \in posts' =>
           p.id[2] < failures' /\ p.id[2] < y.run
  BY <1>1
<1>11. /\ \A m, n \in sent' \ sent : m = n
       /\ \A m \in sent' \ sent :
             /\ m \in Message /\ m.id = <<w, y.run, y.seq>>
             /\ m.op = y.waits /\ m.effect = y.effect
  BY <1>1, <1>3, <1>6
<1>12. failures' \in Nat /\ failures <= failures' /\ y.run <= failures'
  BY <1>1, <1>7
<1>13. y.waits # Idle /\ y.waits # "call" /\ y.effect \in Effect /\ sent' \ sent # {}
  BY <1>1, <1>5, <1>6
<1>14. QED
  BY <1>1, <1>2, <1>6, <1>8, <1>9, <1>10, <1>11, <1>12, <1>13, WorkerMoves

\* Nothing changes but that a command nobody waits for is off its way.
LEMMA UnawaitedGone ==
    ASSUME WorkersInv, UNCHANGED <<worker, failures>>,
           sent' \subseteq sent, posts' \subseteq posts,
           \A m \in sent \ sent' :
               ~ (worker[m.id[1]].waits = m.op /\ IdOf(m.id[1]) = m.id),
           \A p \in posts \ posts' : ~ CallAwaited(p)
    PROVE  WorkersInv'
<1>1. WorkersOK'
  <2>1. ASSUME NEW w \in Worker, worker[w].waits \in Op
        PROVE  \E m \in sent' : m.id = IdOf(w) /\ m.op = worker[w].waits
    <3>1. PICK m \in sent : m.id = IdOf(w) /\ m.op = worker[w].waits
      BY <2>1 DEF WorkersInv, WorkersOK
    <3>2. m.id[1] = w
      BY <3>1 DEF IdOf
    <3>3. QED
      BY <3>1, <3>2
  <2>2. ASSUME NEW w \in Worker, worker[w].waits = "call"
        PROVE  \E p \in posts' : p.id = IdOf(w)
    <3>1. PICK p \in posts : p.id = IdOf(w)
      BY <2>2 DEF WorkersInv, WorkersOK
    <3>2. p.id[1] = w
      BY <3>1 DEF IdOf
    <3>3. QED
      BY <2>2, <3>1, <3>2 DEF CallAwaited
  <2>3. QED
    BY <2>1, <2>2 DEF WorkersInv, WorkersOK, IdOf
<1>2. SentOK' /\ PostsOK'
  BY DEF WorkersInv, SentOK, PostsOK, Awaited, PostAwaited, LeftBehind, IdOf
<1>3. QED
  BY <1>1, <1>2 DEF WorkersInv

\* The worker's own record
LEMMA WorkerRecordOf ==
    ASSUME WorkersInv, NEW w \in Worker
    PROVE  /\ worker[w] \in WorkerRecord
           /\ worker[w].run \in Nat /\ worker[w].seq \in Nat
           /\ worker[w].run <= failures /\ failures \in Nat
           /\ worker[w].waits # Idle => worker[w].effect \in Effect
BY DEF WorkersInv, WorkersOK, WorkerRecord

LEMMA ResumeWorkers ==
    ASSUME WorkersInv, AgentInv, FreshIds, NEW w \in Worker, NEW f \in Effect, Resume(w, f)
    PROVE  WorkersInv'
<1> DEFINE x == Started(w, f)
<1>1. /\ x \in WorkerRecord /\ x.effect = f /\ x.run = failures /\ x.seq = 0
      /\ failures \in Nat
  BY WorkerRecordOf DEF Started, WorkerRecord, Idle
<1>2. \A m \in sent : m.id[1] = w => m.id[2] < failures /\ m.id[2] < x.run
  BY <1>1, SentByWorker DEF Resume
<1>3. \A p \in posts : p.id[1] = w => p.id[2] < failures /\ p.id[2] < x.run
  BY <1>1, PostByWorker DEF Resume
<1>4. PICK op \in Op, arg \in Nat \cup {Nil} : Sends(w, x, op, arg, sent)
  <2>1. executions[Owner[f]].snapshot \in Nat
    BY OwnerAssumption, SnapshotAssumption
       DEF Resume, AgentInv, AgentTypeOK, ExecutionRecord
  <2>2. QED
    BY <2>1 DEF Resume, Op
<1>5. UNCHANGED <<posts, failures>>
  BY DEF Resume
<1> HIDE DEF x
<1>6. QED
  BY <1>1, <1>2, <1>3, <1>4, <1>5, WorkerSends

LEMMA LookupWorkers ==
    ASSUME WorkersInv, NEW w \in Worker, Lookup(w), refunds \in [Effect -> Nat]
    PROVE  WorkersInv'
<1> DEFINE x == worker[w]
<1>1. x.waits = "lookup" /\ UNCHANGED <<posts, failures>>
  BY DEF Lookup
<1>2. /\ x \in WorkerRecord /\ x.run \in Nat /\ x.run <= failures
      /\ x.effect \in Effect
  BY <1>1, WorkerRecordOf DEF Idle
<1>3. \A m \in sent : m.id[1] = w => m.id[2] < failures /\ m.id[2] < x.run
  <2>1. \A m \in sent : m.op # "lookup"
    BY DEF WorkersInv, SentOK, Message, Op
  <2>2. QED
    BY <1>1, <2>1, SentByWorker DEF Idle
<1>4. \A p \in posts : p.id[1] = w => p.id[2] < failures /\ p.id[2] < x.run
  BY <1>1, PostByWorker DEF Idle, CallAwaited
<1>5. PICK op \in Op, arg \in Nat \cup {Nil} : Sends(w, x, op, arg, sent)
  BY <1>2 DEF Lookup, Op
<1> HIDE DEF x
<1>6. QED
  BY <1>1, <1>2, <1>3, <1>4, <1>5, WorkerSends

\* Giving up leaves everything behind.
LEMMA IdleWorkers ==
    ASSUME WorkersInv, NEW w \in Worker, Waits(w, Idle),
           failures' \in Nat, failures <= failures',
           sent' \subseteq sent, posts' \subseteq posts,
           \A m \in sent' : m.id[1] = w => m.id[2] < failures',
           \A p \in posts' : p.id[1] = w => p.id[2] < failures',
           \A m \in sent : m.id[1] # w => m \in sent',
           \A p \in posts : p.id[1] # w => p \in posts'
    PROVE  WorkersInv'
<1> DEFINE x == [worker[w] EXCEPT !.waits = Idle]
<1>1. /\ x \in WorkerRecord /\ x.waits = Idle /\ x.run <= failures'
      /\ worker' = [worker EXCEPT ![w] = x]
  BY WorkerRecordOf DEF Waits, WorkerRecord
<1>2. Idle \notin Op /\ Idle # "call"
  BY DEF Idle, Op
<1> HIDE DEF x
<1>3. QED
  BY <1>1, <1>2, WorkerMoves

LEMMA GiveUpWorkers ==
    ASSUME WorkersInv, NEW w \in Worker, GiveUp(w)
    PROVE  WorkersInv'
<1>1. /\ worker[w].waits # Idle /\ Waits(w, Idle)
      /\ failures' = failures + 1 /\ UNCHANGED <<sent, posts>>
      /\ failures \in Nat /\ worker[w].run \in Nat /\ worker[w].run <= failures
  BY WorkerRecordOf DEF GiveUp
<1>2. \A m \in sent : m.id[1] = w => m.id[2] < failures'
  BY <1>1, SentByWorker DEF IdOf
<1>3. \A p \in posts : p.id[1] = w => p.id[2] < failures'
  BY <1>1, PostByWorker DEF IdOf, CallAwaited
<1>4. QED
  BY <1>1, <1>2, <1>3, IdleWorkers

\* The command a worker waits for is the only one of this run on its way.
LEMMA OnlyCommand ==
    ASSUME WorkersInv, NEW m \in sent,
           worker[m.id[1]].waits = m.op, IdOf(m.id[1]) = m.id
    PROVE  LET w == m.id[1] IN
           /\ w \in Worker /\ m.op \in Op /\ m.op # Idle /\ m.op # "call"
           /\ m.id[3] = worker[w].seq /\ m.effect = worker[w].effect
           /\ worker[w].effect \in Effect
           /\ \A n \in sent \ {m} : n.id[1] = w =>
                 n.id[2] < failures /\ n.id[2] < worker[w].run
           /\ \A p \in posts : p.id[1] = w =>
                 p.id[2] < failures /\ p.id[2] < worker[w].run
<1> DEFINE w == m.id[1]
<1>1. /\ w \in Worker /\ m.op \in Op /\ m.op # Idle /\ m.op # "call"
      /\ m.effect = worker[w].effect /\ m.effect \in Effect
  BY SentByWorker DEF WorkersInv, SentOK, Message, Op, Idle
<1>2. m.id[3] = worker[w].seq
  BY DEF IdOf
<1>3. \A n \in sent \ {m} : n.id # m.id
  BY DEF WorkersInv, SentOK
<1>4. \A n \in sent \ {m} : n.id[1] = w =>
          n.id[2] < failures /\ n.id[2] < worker[w].run
  BY <1>1, <1>3, SentByWorker
<1>5. \A p \in posts : p.id[1] = w => p.id[2] < failures /\ p.id[2] < worker[w].run
  BY <1>1, PostByWorker DEF CallAwaited
<1>6. QED
  BY <1>1, <1>2, <1>4, <1>5

LEMMA CommitWorkers ==
    ASSUME WorkersInv, NEW m \in sent, Commit(m)
    PROVE  WorkersInv'
<1> DEFINE w == m.id[1]
           x == worker[w]
           awaited == worker[w].waits = m.op /\ IdOf(w) = m.id
<1>1. CASE ~awaited
  <2>1. UNCHANGED <<worker, failures, posts>> /\ sent' = sent \ {m}
    BY <1>1 DEF Commit
  <2>2. \A n \in sent \ sent' : n = m
    BY <2>1
  <2> HIDE DEF w
  <2>3. QED
    BY <1>1, <2>1, <2>2, UnawaitedGone DEF w
<1>2. CASE awaited
  <2>1. /\ w \in Worker /\ x \in WorkerRecord /\ x.waits = m.op /\ m.op \in Op
        /\ x.effect \in Effect /\ x.run \in Nat /\ x.seq \in Nat /\ m.id[3] = x.seq
        /\ x.run <= failures /\ failures \in Nat /\ UNCHANGED failures
    BY <1>2, OnlyCommand, WorkerRecordOf DEF Commit
  <2>2. /\ \A n \in sent \ {m} : n.id[1] = w => n.id[2] < failures /\ n.id[2] < x.run
        /\ \A p \in posts : p.id[1] = w => p.id[2] < failures /\ p.id[2] < x.run
    BY <1>2, OnlyCommand
  <2>3. \A n \in sent : n.id[1] # w => n \in sent \ {m}
    OBVIOUS
  <2>4. CASE Waits(w, Idle) /\ sent' = sent \ {m} /\ UNCHANGED posts
    BY <2>1, <2>2, <2>3, <2>4, IdleWorkers
  <2>5. CASE UNCHANGED posts /\ \E op \in Op : Sends(w, x, op, Nil, sent \ {m})
    <3>1. PICK op \in Op : Sends(w, x, op, Nil, sent \ {m})
      BY <2>5
    <3>2. \A n \in sent \ (sent \ {m}) : n.id[1] = w /\ n.id[3] # x.seq + 1
      BY <2>1
    <3> HIDE DEF w, x
    <3>3. QED
      BY <2>1, <2>2, <2>5, <3>1, <3>2, WorkerSends
  <2>6. CASE Waits(w, "lookup") /\ sent' = sent \ {m} /\ UNCHANGED posts
    <3> DEFINE y == [x EXCEPT !.waits = "lookup"]
    <3>1. /\ y \in WorkerRecord /\ y.waits = "lookup" /\ y.run = x.run
          /\ y.effect = x.effect /\ worker' = [worker EXCEPT ![w] = y]
      BY <2>1, <2>6 DEF Waits, WorkerRecord
    <3>2. "lookup" \notin Op \cup {Idle, "call"}
      BY DEF Op, Idle
    <3>3. sent' \ sent = {} /\ posts' \ posts = {}
      BY <2>6
    <3> HIDE DEF w, x, y
    <3>4. \A q \in posts : q.id[1] = w /\ q \in posts' =>
              q.id[2] < failures' /\ q.id[2] < y.run
      BY <2>1, <2>2, <3>1
    <3>5. /\ \A n \in sent : n.id[1] = w /\ n \in sent' =>
                n.id[2] < failures' /\ n.id[2] < y.run
          /\ \A n \in sent : n.id[1] # w => n \in sent'
          /\ failures' \in Nat /\ failures <= failures' /\ y.run <= failures'
      BY <2>1, <2>2, <2>3, <2>6, <3>1
    <3>6. QED
      BY <2>1, <2>6, <3>1, <3>2, <3>3, <3>4, <3>5, WorkerMoves
  <2>7. CASE Call(w) /\ sent' = sent \ {m}
    <3> DEFINE y == [x EXCEPT !.waits = "call"]
               p == [id |-> IdOf(w), effect |-> x.effect]
    <3>1. /\ y \in WorkerRecord /\ y.waits = "call" /\ y.run = x.run /\ y.seq = x.seq
          /\ y.effect = x.effect /\ worker' = [worker EXCEPT ![w] = y]
      BY <2>1, <2>7 DEF Call, Waits, WorkerRecord
    <3>2. "call" \notin Op \cup {Idle}
      BY DEF Op, Idle
    <3>3. /\ posts' = posts \cup {p} /\ p \in Post /\ p.id = <<w, x.run, x.seq>>
          /\ p.id[1] = w /\ p.id[2] = x.run /\ p.effect = x.effect
      BY <2>1, <2>7 DEF Call, Post, IdOf
    <3> HIDE DEF w, x, y, p
    <3>4. p \notin posts
      BY <2>1, <2>2, <3>3
    <3>5. sent' \ sent = {} /\ posts' \ posts = {p}
      BY <2>7, <3>3, <3>4
    <3>6. \A q \in posts : q.id[1] = w /\ q \in posts' =>
              q.id[2] < failures' /\ q.id[2] < y.run
      BY <2>1, <2>2, <3>1
    <3>7. \A q \in posts' \ posts :
              /\ q \in Post /\ q.id = <<w, y.run, y.seq>>
              /\ y.waits = "call" /\ q.effect = y.effect
      BY <3>1, <3>3, <3>5
    <3>8. /\ \A n \in sent : n.id[1] = w /\ n \in sent' =>
                n.id[2] < failures' /\ n.id[2] < y.run
          /\ \A n \in sent : n.id[1] # w => n \in sent'
          /\ failures' \in Nat /\ failures <= failures' /\ y.run <= failures'
      BY <2>1, <2>2, <2>3, <2>7, <3>1
    <3>9. \A q \in posts : q.id[1] # w => q \in posts'
      BY <3>3
    <3>10. /\ y.waits \notin Op /\ posts' \ posts # {}
           /\ \A n \in sent' \ sent : FALSE
           /\ y.effect \in Effect
      BY <2>1, <3>1, <3>2, <3>5
    <3>11. QED
      BY <2>1, <3>1, <3>6, <3>7, <3>8, <3>9, <3>10, WorkerMoves
  <2>8. QED
    <3>1. "dispatch" \in Op /\ "commit" \in Op
      BY DEF Op
    <3>2. QED
      BY <1>2, <2>1, <2>4, <2>5, <2>6, <2>7, <3>1 DEF Commit, Continue
<1>3. QED
  BY <1>1, <1>2

\* The call a worker waits for is the only one of this run on its way, and no
\* command of it is.
LEMMA OnlyCall ==
    ASSUME WorkersInv, NEW p \in posts, CallAwaited(p)
    PROVE  LET w == p.id[1] IN
           /\ w \in Worker /\ worker[w].waits = "call"
           /\ p.effect = worker[w].effect /\ p.effect \in Effect
           /\ p.id[2] = worker[w].run
           /\ \A n \in sent : n.id[1] = w =>
                 n.id[2] < failures /\ n.id[2] < worker[w].run
           /\ \A q \in posts \ {p} : q.id[1] = w =>
                 q.id[2] < failures /\ q.id[2] < worker[w].run
<1> DEFINE w == p.id[1]
<1>1. /\ w \in Worker /\ worker[w].waits = "call" /\ p.id = IdOf(w)
      /\ p.effect = worker[w].effect /\ p.effect \in Effect
  BY PostByWorker DEF WorkersInv, PostsOK, Post, CallAwaited
<1>2. p.id[2] = worker[w].run
  BY <1>1 DEF IdOf
<1>3. \A n \in sent : n.op # "call"
  BY DEF WorkersInv, SentOK, Message, Op
<1>4. \A n \in sent : n.id[1] = w => n.id[2] < failures /\ n.id[2] < worker[w].run
  BY <1>1, <1>3, SentByWorker DEF Idle
<1>5. \A q \in posts : q = [id |-> q.id, effect |-> q.effect]
  BY DEF WorkersInv, PostsOK, Post
<1>6. \A q \in posts \ {p} : q.id[1] = w => ~ CallAwaited(q)
  BY <1>1, <1>5, PostByWorker DEF CallAwaited
<1>7. \A q \in posts \ {p} : q.id[1] = w =>
          q.id[2] < failures /\ q.id[2] < worker[w].run
  BY <1>1, <1>6, PostByWorker DEF Idle
<1>8. QED
  BY <1>1, <1>2, <1>4, <1>7

LEMMA ProvideWorkers ==
    ASSUME WorkersInv, refunds \in [Effect -> Nat], NEW p \in posts, Provide(p)
    PROVE  WorkersInv'
<1> DEFINE w == p.id[1]
           x == worker[w]
<1>1. posts' = posts \ {p} /\ UNCHANGED failures
  BY DEF Provide, Refunded
<1>2. CASE ~CallAwaited(p)
  <2>1. UNCHANGED <<worker, sent>>
    BY <1>2 DEF Provide
  <2>2. \A q \in posts \ posts' : q = p
    BY <1>1
  <2>3. QED
    BY <1>1, <1>2, <2>1, <2>2, UnawaitedGone
<1>3. CASE CallAwaited(p)
  <2>1. /\ w \in Worker /\ x.effect \in Effect /\ p.effect = x.effect
        /\ x \in WorkerRecord /\ x.run <= failures
    BY <1>3, OnlyCall, WorkerRecordOf
  <2>2. /\ \A n \in sent : n.id[1] = w => n.id[2] < failures /\ n.id[2] < x.run
        /\ \A q \in posts' : q.id[1] = w => q.id[2] < failures /\ q.id[2] < x.run
        /\ \A q \in posts : q.id[1] # w => q \in posts'
    BY <1>1, <1>3, OnlyCall
  <2>3. Refund(p.effect) \in Nat /\ "record" \in Op
    BY <2>1 DEF Refund, Op
  <2>4. Sends(w, x, "record", Refund(p.effect), sent)
    BY <1>3 DEF Provide
  <2>5. posts' \subseteq posts
    BY <1>1
  <2> HIDE DEF w, x
  <2>6. QED
    BY <1>1, <2>1, <2>2, <2>3, <2>4, <2>5, WorkerSends
<1>4. QED
  BY <1>2, <1>3

LEMMA LoseAnswerWorkers ==
    ASSUME WorkersInv, NEW p \in posts, LoseAnswer(p)
    PROVE  WorkersInv'
<1> DEFINE w == p.id[1]
<1>1. /\ posts' = posts \ {p} /\ UNCHANGED sent /\ CallAwaited(p)
      /\ Waits(w, Idle) /\ failures' = failures + 1
  BY DEF LoseAnswer, Refunded
<1>2. /\ w \in Worker /\ failures \in Nat
      /\ \A n \in sent : n.id[1] = w => n.id[2] \in Nat /\ n.id[2] < failures
      /\ \A q \in posts' : q.id[1] = w => q.id[2] \in Nat /\ q.id[2] < failures
      /\ \A q \in posts : q.id[1] # w => q \in posts'
  BY <1>1, OnlyCall, SentByWorker, PostByWorker DEF WorkersInv, WorkersOK
<1>3. QED
  BY <1>1, <1>2, IdleWorkers

\* Nothing under way is touched.
LEMMA SameWorkers ==
    ASSUME WorkersInv, UNCHANGED <<worker, sent, posts, failures>>
    PROVE  WorkersInv'
BY DEF WorkersInv, WorkersOK, SentOK, PostsOK, Awaited, PostAwaited, LeftBehind, IdOf

-----------------------------------------------------------------------------
\* What is recorded

LEMMA InitValues == Init => ValuesInv
BY NilAssumption DEF Init, AgentInit, ValuesInv, CallsAuthorized, ResultIsReal, HasResult

\* Commands on executions leave the effects alone.
LEMMA SameValues ==
    ASSUME ValuesInv,
           UNCHANGED <<effects, sent, answers, posts, called, refunds>>
    PROVE  ValuesInv'
BY DEF ValuesInv, CallsAuthorized, ResultIsReal, HasResult

\* What is sent next carries a snapshot or a refund.
GoodArg(m) ==
    /\ m.op = "intent" => m.arg \in Snapshot
    /\ m.op = "record" => m.arg \in 1..refunds[m.effect]

LEMMA SentValues ==
    ASSUME ValuesInv, UNCHANGED <<effects, answers, posts, called, refunds>>,
           \A m \in sent' : m \in sent \/ GoodArg(m)
    PROVE  ValuesInv'
BY DEF ValuesInv, CallsAuthorized, ResultIsReal, HasResult, GoodArg

LEMMA SendsGood ==
    ASSUME NEW w, NEW x, NEW op, NEW arg, NEW rest \in SUBSET sent,
           Sends(w, x, op, arg, rest),
           op = "intent" => arg \in Snapshot,
           op = "record" => arg \in 1..refunds[x.effect]
    PROVE  \A m \in sent' : m \in sent \/ GoodArg(m)
<1> DEFINE new == [id |-> <<w, x.run, x.seq + 1>>, op |-> op, effect |-> x.effect,
                   arg |-> arg]
<1>1. sent' = rest \cup {new}
  BY DEF Sends
<1>2. new.op = op /\ new.arg = arg /\ new.effect = x.effect
  OBVIOUS
<1> HIDE DEF new
<1>3. QED
  BY <1>1, <1>2 DEF GoodArg

LEMMA ResumeValues ==
    ASSUME AgentInv, ValuesInv, NEW w \in Worker, NEW f \in Effect, Resume(w, f)
    PROVE  ValuesInv'
<1>1. executions[Owner[f]].snapshot \in Snapshot
  BY OwnerAssumption DEF Resume, AgentInv, AgentTypeOK, ExecutionRecord
<1>2. \A m \in sent' : m \in sent \/ GoodArg(m)
  <2>1. \/ Sends(w, Started(w, f), "intent", executions[Owner[f]].snapshot, sent)
        \/ Sends(w, Started(w, f), "commit", Nil, sent)
        \/ Sends(w, Started(w, f), "reconcile", Nil, sent)
    BY DEF Resume
  <2>2. QED
    BY <1>1, <2>1, SendsGood
<1>3. QED
  BY <1>2, SentValues DEF Resume, agent

LEMMA LookupValues ==
    ASSUME WorkersInv, ValuesInv, NEW w \in Worker, Lookup(w)
    PROVE  ValuesInv'
<1>1. worker[w].effect \in Effect
  BY WorkerRecordOf DEF Lookup, Idle
<1>2. Found(worker[w].effect) =>
          refunds[worker[w].effect] \in 1..refunds[worker[w].effect]
  BY <1>1 DEF Found, ValuesInv
<1>3. \A m \in sent' : m \in sent \/ GoodArg(m)
  BY <1>2, SendsGood DEF Lookup
<1>4. QED
  BY <1>3, SentValues DEF Lookup, agent

\* What a command does to the effects: only a dispatch counts an attempt, and
\* only a record of a result brings one.
LEMMA ApplyEffects ==
    ASSUME AgentTypeOK, NEW m \in Message, m.op = "intent" => m.arg \in Snapshot,
           m.op = "record" => m.arg \in Nat, NEW ok \in BOOLEAN, Apply(m, ok)
    PROVE  /\ EffectCommand(m.effect)
           /\ \A f \in Effect \ {m.effect} : effects'[f] = effects[f]
           /\ LET f == m.effect IN
              /\ effects[f] # Nil => effects'[f].attempts >= effects[f].attempts
              /\ m.op = "dispatch" /\ ok =>
                    effects[f] # Nil /\ effects'[f].attempts = effects[f].attempts + 1
              /\ HasResult(f)' /\ (m.op # "record" \/ HasResult(f)) =>
                    HasResult(f) /\ effects'[f].result = effects[f].result
              /\ HasResult(f)' /\ m.op = "record" /\ ~ HasResult(f) =>
                    effects[f] # Nil /\ effects'[f].result = m.arg
<1> DEFINE f == m.effect
<1> USE DEF Intended, Uncertain, Returned, Committed, OnEffect
<1>1. f \in Effect
  BY DEF Message
<1>2. EffectCommand(f)
  BY ResultAssumption DEF Apply, EffectCommand
<1>3. \A g \in Effect \ {f} : effects'[g] = effects[g]
  BY <1>1 DEF Apply, RecordIntent, Dispatch, RequireReconciliation, RecordResult,
              CommitEffect, AgentTypeOK
<1>4. effects[f] # Nil =>
          /\ effects[f] \in EffectRecord /\ effects[f].attempts \in Nat
          /\ effects[f].attempts + 1 \in Nat
          /\ effects[f].attempts >= effects[f].attempts
          /\ effects[f].attempts + 1 >= effects[f].attempts
  BY <1>1 DEF AgentTypeOK, EffectRecord
<1>5. DOMAIN effects = Effect
  BY DEF AgentTypeOK
<1> DEFINE Goal ==
        /\ effects[f] # Nil => effects'[f].attempts >= effects[f].attempts
        /\ m.op = "dispatch" /\ ok =>
              effects[f] # Nil /\ effects'[f].attempts = effects[f].attempts + 1
        /\ HasResult(f)' /\ (m.op # "record" \/ HasResult(f)) =>
              HasResult(f) /\ effects'[f].result = effects[f].result
        /\ HasResult(f)' /\ m.op = "record" /\ ~ HasResult(f) =>
              effects[f] # Nil /\ effects'[f].result = m.arg
<1> SUFFICES Goal
  BY <1>2, <1>3
<1>6. CASE effects' = effects /\ ~ (m.op = "dispatch" /\ ok)
  BY <1>4, <1>6 DEF HasResult
<1>7. CASE m.op = "intent"
  <2>1. PICK s \in Snapshot : RecordIntent(f, s, ok)
    BY <1>7 DEF Apply
  <2>2. CASE MayIntend(f, s)
    <3>1. effects'[f] = NewEffect(s) /\ effects[f] = Nil
      BY <1>5, <1>1, <2>1, <2>2 DEF RecordIntent, MayIntend
    <3>2. ~ HasResult(f)'
      BY <3>1 DEF HasResult, NewEffect
    <3>3. QED
      BY <1>7, <3>1, <3>2
  <2>3. QED
    BY <1>6, <1>7, <2>1, <2>2 DEF RecordIntent
<1>8. CASE m.op = "reconcile"
  <2>1. RequireReconciliation(f, ok)
    BY <1>8 DEF Apply
  <2>2. CASE MayReconcile(f)
    <3>1. /\ effects'[f] = [effects[f] EXCEPT !.status = Uncertain]
          /\ effects[f] \in EffectRecord
      BY <1>1, <1>4, <1>5, <2>1, <2>2 DEF RequireReconciliation, MayReconcile
    <3>2. effects'[f].attempts = effects[f].attempts /\ effects'[f].status = Uncertain
      BY <3>1 DEF EffectRecord
    <3>3. QED
      BY <1>4, <1>8, <3>2, <2>2 DEF HasResult, MayReconcile
  <2>3. QED
    BY <1>6, <1>8, <2>1, <2>2 DEF RequireReconciliation
<1>9. CASE m.op = "dispatch"
  <2>1. Dispatch(f, ok)
    BY <1>9 DEF Apply
  <2>2. CASE MayDispatch(f)
    <3>1. /\ effects'[f] = [effects[f] EXCEPT !.attempts = @ + 1]
          /\ effects[f] \in EffectRecord /\ effects[f] # Nil
      BY <1>1, <1>4, <1>5, <2>1, <2>2 DEF Dispatch, MayDispatch
    <3>2. effects'[f].attempts = effects[f].attempts + 1
          /\ effects'[f].status = effects[f].status
      BY <3>1 DEF EffectRecord
    <3>3. ~ HasResult(f)'
      BY <2>2, <3>2 DEF HasResult, MayDispatch
    <3>4. QED
      BY <1>4, <1>9, <3>1, <3>2, <3>3
  <2>3. CASE ~MayDispatch(f)
    BY <1>6, <2>1, <2>3 DEF Dispatch
  <2>4. QED
    BY <2>2, <2>3
<1>10. CASE m.op = "record"
  <2>1. RecordResult(f, m.arg, ok)
    BY <1>10 DEF Apply
  <2>2. CASE effects[f] # Nil /\ ~HasResult(f)
    <3>1. /\ effects'[f] = [effects[f] EXCEPT !.result = m.arg, !.status = Returned]
          /\ effects[f] \in EffectRecord
      BY <1>1, <1>4, <1>5, <2>1, <2>2 DEF RecordResult
    <3>2. effects'[f].attempts = effects[f].attempts /\ effects'[f].result = m.arg
      BY <3>1 DEF EffectRecord
    <3>3. QED
      BY <1>4, <1>10, <2>2, <3>2
  <2>3. QED
    BY <1>6, <1>10, <2>1, <2>2 DEF RecordResult
<1>11. CASE m.op = "commit"
  <2>1. CommitEffect(f, ok)
    BY <1>11 DEF Apply
  <2>2. CASE effects[f] # Nil /\ effects[f].status = Returned
    <3>1. /\ effects'[f] = [effects[f] EXCEPT !.status = Committed]
          /\ effects[f] \in EffectRecord
      BY <1>1, <1>4, <1>5, <2>1, <2>2 DEF CommitEffect
    <3>2. effects'[f].attempts = effects[f].attempts
          /\ effects'[f].result = effects[f].result
      BY <3>1 DEF EffectRecord
    <3>3. QED
      BY <1>4, <1>11, <2>2, <3>2 DEF HasResult
  <2>3. QED
    BY <1>6, <1>11, <2>1, <2>2 DEF CommitEffect
<1>12. QED
  BY <1>7, <1>8, <1>9, <1>10, <1>11 DEF Apply

LEMMA CommitValues ==
    ASSUME AgentInv, WorkersInv, ValuesInv, FreshIds, NEW m \in sent, Commit(m)
    PROVE  AgentInv' /\ ValuesInv'
<1> DEFINE w == m.id[1]
           f == m.effect
<1>1. m \in Message /\ f \in Effect /\ w \in Worker
  BY SentByWorker DEF WorkersInv, SentOK, Message
<1>2. PICK ok \in BOOLEAN :
         /\ Apply(m, ok) /\ answers' = answers
         /\ \/ UNCHANGED <<posts, called>>
            \/ m.op = "dispatch" /\ ok /\ Call(w) /\ worker[w].effect = f
         /\ \A n \in sent' : n \in sent \/ GoodArg(n)
  <2>1. PICK ok \in BOOLEAN :
          /\ Append(m, ok)
          /\ \/ sent' = sent \ {m} /\ UNCHANGED <<posts, called>>
             \/ /\ worker[w].waits = m.op /\ IdOf(w) = m.id /\ ok
                /\ Continue(w, sent \ {m})
    BY DEF Commit, Proceeds
  <2>2. Apply(m, ok) /\ answers' = answers
    BY <2>1 DEF Append, ValuesInv
  <2>3. CASE sent' = sent \ {m} /\ UNCHANGED <<posts, called>>
    BY <2>2, <2>3
  <2>4. CASE /\ worker[w].waits = m.op /\ IdOf(w) = m.id /\ ok
             /\ Continue(w, sent \ {m})
    <3>1. worker[w].effect = f
      BY <2>4, OnlyCommand
    <3>2. \A n \in sent' : n \in sent \/ GoodArg(n)
      <4>1. \/ sent' = sent \ {m}
            \/ Sends(w, worker[w], "dispatch", Nil, sent \ {m})
            \/ Sends(w, worker[w], "commit", Nil, sent \ {m})
        BY <2>4 DEF Continue
      <4>2. QED
        BY <4>1, SendsGood
    <3>3. UNCHANGED <<posts, called>> \/ (m.op = "dispatch" /\ ok /\ Call(w))
      BY <2>4 DEF Continue
    <3>4. QED
      BY <2>2, <3>1, <3>2, <3>3
  <2>5. QED
    BY <2>1, <2>3, <2>4
<1>3. refunds' = refunds /\ called \in [Effect -> Nat] /\ refunds \in [Effect -> Nat]
  BY DEF Commit, ValuesInv
<1>4. AgentTypeOK /\ (m.op = "intent" => m.arg \in Snapshot)
      /\ (m.op = "record" => m.arg \in 1..refunds[f] /\ m.arg \in Nat)
  BY <1>1, <1>3 DEF AgentInv, ValuesInv
<1>5. EffectCommand(f)
  BY <1>1, <1>2, <1>4, ApplyEffects
<1>6. AgentInv'
  BY <1>1, <1>5, EffectCommandInv
<1>7. /\ \A g \in Effect \ {f} : effects'[g] = effects[g]
      /\ effects[f] # Nil => effects'[f] # Nil /\ effects'[f].attempts >= effects[f].attempts
  BY <1>1, <1>2, <1>4, <1>5, ApplyEffects, EffectCommandStays
<1>8. \A g \in Effect : /\ effects[g] # Nil => effects[g].attempts \in Nat
                        /\ effects'[g] # Nil => effects'[g].attempts \in Nat
  BY <1>6 DEF AgentInv, AgentTypeOK, EffectRecord
<1>9. CallsAuthorized /\ ResultIsReal
  BY DEF ValuesInv
<1>10. \/ called' = called /\ posts' = posts
       \/ /\ effects[f] # Nil /\ effects'[f].attempts = effects[f].attempts + 1
          /\ called' = [called EXCEPT ![f] = @ + 1]
          /\ \A p \in posts' : p \in posts \/ p.effect = f
  <2>1. CASE UNCHANGED <<posts, called>>
    BY <2>1
  <2>2. CASE m.op = "dispatch" /\ ok /\ Call(w) /\ worker[w].effect = f
    <3>1. effects[f] # Nil /\ effects'[f].attempts = effects[f].attempts + 1
      BY <1>1, <1>2, <1>4, <2>2, ApplyEffects
    <3>2. QED
      BY <2>2, <3>1 DEF Call
  <2>3. QED
    BY <1>2, <2>1, <2>2
<1>11. /\ called' \in [Effect -> Nat]
       /\ \A g \in Effect : called'[g] >= called[g]
       /\ \A p \in posts' : called'[p.effect] > 0
  <2>1. called' \in [Effect -> Nat] /\ \A g \in Effect : called'[g] >= called[g]
    BY <1>1, <1>3, <1>10
  <2>2. ASSUME NEW p \in posts, p.effect \in Effect PROVE called'[p.effect] > 0
    BY <1>3, <2>1, <2>2 DEF ValuesInv
  <2>3. \A p \in posts : p.effect \in Effect
    BY DEF WorkersInv, PostsOK, Post
  <2>4. ASSUME NEW p \in posts', p \notin posts PROVE called'[p.effect] > 0
    BY <1>1, <1>3, <1>10, <2>4
  <2>5. QED
    BY <2>1, <2>2, <2>3, <2>4
<1>12. CallsAuthorized'
  <2> SUFFICES ASSUME NEW g \in Effect
               PROVE  called'[g] <= IF effects'[g] = Nil THEN 0 ELSE effects'[g].attempts
    BY DEF CallsAuthorized
  <2>1. called[g] <= IF effects[g] = Nil THEN 0 ELSE effects[g].attempts
    BY <1>9 DEF CallsAuthorized
  <2>2. CASE g # f
    BY <1>3, <1>7, <1>10, <2>1, <2>2
  <2>3. CASE g = f
    BY <1>3, <1>7, <1>8, <1>10, <2>1, <2>3
  <2>4. QED
    BY <2>2, <2>3
<1>13. ResultIsReal'
  <2> SUFFICES ASSUME NEW g \in Effect, HasResult(g)'
               PROVE  effects'[g].result \in 1..refunds[g] /\ effects'[g].attempts > 0
    BY <1>3 DEF ResultIsReal
  <2>1. HasResult(g) => effects[g] # Nil /\ effects[g].result \in 1..refunds[g]
                        /\ effects[g].attempts > 0
    BY <1>9 DEF ResultIsReal, HasResult
  <2>2. CASE g # f
    BY <1>7, <2>1, <2>2 DEF HasResult
  <2>3. CASE g = f /\ (m.op # "record" \/ HasResult(f))
    <3>1. HasResult(f) /\ effects'[f].result = effects[f].result
      BY <1>1, <1>2, <1>4, <2>3, ApplyEffects
    <3>2. QED
      BY <1>7, <1>8, <2>1, <2>3, <3>1 DEF HasResult
  <2>4. CASE g = f /\ m.op = "record" /\ ~HasResult(f)
    <3>1. effects[f] # Nil /\ effects'[f].result = m.arg
      BY <1>1, <1>2, <1>4, <2>4, ApplyEffects
    <3>2. called[f] > 0
      BY <1>1, <1>3, <1>4, <2>4 DEF ValuesInv
    <3>3. effects[f].attempts > 0
      BY <1>1, <1>3, <1>8, <1>9, <3>1, <3>2 DEF CallsAuthorized
    <3>4. effects'[f].attempts > 0
      BY <1>1, <1>7, <1>8, <3>1, <3>3
    <3>5. QED
      BY <1>4, <2>4, <3>1, <3>4
  <2>5. QED
    BY <2>2, <2>3, <2>4
<1>14. \A g \in Effect : refunds[g] > 0 => called'[g] > 0
  BY <1>3, <1>11 DEF ValuesInv
<1>15. \A n \in sent' : GoodArg(n)
  BY <1>2 DEF ValuesInv, GoodArg
<1>16. QED
  BY <1>2, <1>3, <1>6, <1>11, <1>12, <1>13, <1>14, <1>15 DEF ValuesInv, GoodArg

\* A refund was called for, and only adds to what was refunded.
LEMMA RefundedValues ==
    ASSUME ValuesInv, WorkersInv, NEW p \in posts, Refunded(p),
           \A m \in sent' : m \in sent \/ GoodArg(m)'
    PROVE  ValuesInv'
<1>1. p.effect \in Effect /\ \A q \in sent : q.effect \in Effect
  BY DEF WorkersInv, PostsOK, SentOK, Post, Message
<1>2. /\ posts' \subseteq posts /\ UNCHANGED <<effects, answers, called>>
      /\ refunds' = [refunds EXCEPT ![p.effect] = Refund(p.effect)]
      /\ refunds \in [Effect -> Nat]
  BY DEF Refunded, agent, ValuesInv
<1>3. /\ refunds' \in [Effect -> Nat]
      /\ \A f \in Effect : refunds[f] <= refunds'[f]
      /\ \A f \in Effect \ {p.effect} : refunds'[f] = refunds[f]
  BY <1>1, <1>2 DEF Refund
<1>4. called[p.effect] > 0
  BY DEF ValuesInv
<1>5. \A f \in Effect : refunds'[f] > 0 => called'[f] > 0
  BY <1>2, <1>3, <1>4 DEF ValuesInv
<1>6. \A m \in sent : GoodArg(m)'
  BY <1>1, <1>2, <1>3 DEF ValuesInv, GoodArg
<1>7. ResultIsReal'
  <2>1. \A f \in Effect : 1..refunds[f] \subseteq 1..refunds'[f]
    BY <1>2, <1>3
  <2>2. QED
    BY <1>2, <2>1 DEF ValuesInv, ResultIsReal, HasResult
<1>8. QED
  BY <1>2, <1>3, <1>5, <1>6, <1>7 DEF ValuesInv, CallsAuthorized, GoodArg

LEMMA ProvideValues ==
    ASSUME ValuesInv, WorkersInv, NEW p \in posts, Provide(p)
    PROVE  ValuesInv'
<1>1. CASE ~CallAwaited(p)
  BY <1>1, RefundedValues DEF Provide
<1>2. CASE CallAwaited(p)
  <2> DEFINE w == p.id[1]
  <2>1. p.effect \in Effect /\ worker[w].effect = p.effect
    BY <1>2, OnlyCall
  <2>2. PICK n : /\ sent' = sent \cup {n}
                 /\ n.op = "record" /\ n.effect = p.effect
                 /\ n.arg = Refund(p.effect)
    <3> DEFINE new == [id |-> <<w, worker[w].run, worker[w].seq + 1>>, op |-> "record",
                       effect |-> worker[w].effect, arg |-> Refund(p.effect)]
    <3>1. sent' = sent \cup {new}
      BY <1>2 DEF Provide, Sends
    <3>2. /\ new.op = "record" /\ new.effect = p.effect
          /\ new.arg = Refund(p.effect)
      BY <2>1
    <3> HIDE DEF new
    <3>3. QED
      BY <3>1, <3>2
  <2>3. refunds'[p.effect] = Refund(p.effect) /\ Refund(p.effect) \in Nat \ {0}
    BY <2>1 DEF Provide, Refunded, Refund, ValuesInv
  <2>4. GoodArg(n)'
    BY <2>2, <2>3 DEF GoodArg
  <2>5. QED
    BY <2>2, <2>4, RefundedValues DEF Provide
<1>3. QED
  BY <1>1, <1>2

-----------------------------------------------------------------------------
LEMMA RefundNextInv ==
    ASSUME RefundInv, FreshIds, [Next]_vars PROVE RefundInv'
<1> USE DEF RefundInv
<1>0. /\ (UNCHANGED agent => AgentInv')
      /\ refunds \in [Effect -> Nat]
  BY DEF AgentInv, AgentTypeOK, HasResult, CompleteIsSettled, Settled, agent, ValuesInv
<1>1. CASE UNCHANGED vars
  <2>1. UNCHANGED agent
    BY <1>1 DEF vars, agent
  <2>2. QED
    BY <1>0, <1>1, <2>1, SameWorkers, SameValues DEF vars
<1>2. ASSUME NEW w \in Worker, NEW f \in Effect, Resume(w, f) PROVE RefundInv'
  BY <1>0, <1>2, ResumeWorkers, ResumeValues DEF Resume
<1>3. ASSUME NEW w \in Worker, Lookup(w) PROVE RefundInv'
  BY <1>0, <1>3, LookupWorkers, LookupValues DEF Lookup
<1>4. ASSUME NEW w \in Worker, GiveUp(w) PROVE RefundInv'
  BY <1>0, <1>4, GiveUpWorkers, SameValues DEF GiveUp, agent
<1>5. ASSUME NEW m \in sent, Commit(m) PROVE RefundInv'
  BY <1>5, CommitWorkers, CommitValues
<1>6. ASSUME NEW p \in posts, Provide(p) PROVE RefundInv'
  BY <1>0, <1>6, ProvideWorkers, ProvideValues DEF Provide, Refunded
<1>7. ASSUME NEW p \in posts, LoseAnswer(p) PROVE RefundInv'
  BY <1>0, <1>7, LoseAnswerWorkers, RefundedValues DEF LoseAnswer, Refunded
<1>8. ASSUME NEW e \in Execution, Approve(e) \/ Manage(e) PROVE RefundInv'
  <2>1. ExecutionCommand(e)
    <3>1. executions[e] # Nil => executions[e] \in ExecutionRecord
      BY DEF AgentInv, AgentTypeOK
    <3>2. executions[e] # Nil /\ executions[e].status = Paused =>
              executions[e].conflict \in Snapshot
      BY <3>1 DEF AgentInv, AgentTypeOK, ExecutionRecord
    <3>3. executions[e] # Nil =>
              executions[e].step \in Int /\ executions[e].snapshot \in Snapshot
      BY <3>1 DEF ExecutionRecord
    <3>4. QED
      BY <1>8, <3>2, <3>3 DEF Approve, Manage, ExecutionCommand
  <2>2. effects' = effects
    BY <2>1 DEF ExecutionCommand, Create, Advance, Finish, DetectConflict,
                TransitionSnapshot, OnExecution
  <2>3. UNCHANGED <<worker, sent, answers, posts, called, refunds, failures>>
    BY <1>8 DEF Approve, Manage
  <2>4. QED
    BY <2>1, <2>2, <2>3, ExecutionCommandInv, SameWorkers, SameValues
<1>9. QED
  BY <1>1, <1>2, <1>3, <1>4, <1>5, <1>6, <1>7, <1>8 DEF Next

LEMMA RefundInitInv == Init => RefundInv
BY InitWorkers, InitValues, AgentInitInv DEF Init, RefundInv

\* If every worker that starts has a client id of its own, then what holds of
\* the workers and the ledger together holds for any number of workers,
\* effects, failures and late messages.
LEMMA RefundInvariant == ASSUME FreshIds PROVE Spec => []RefundInv
BY RefundInitInv, RefundNextInv, PTL DEF Spec

\* The ledger is well formed, and a worker that waits has something on its way.
THEOREM RefundTypeCorrect == ASSUME FreshIds PROVE Spec => []TypeOK
<1>1. RefundInv => TypeOK
  BY DEF RefundInv, AgentInv, WorkersInv, WorkersOK, ValuesInv, TypeOK
<1>2. QED
  BY <1>1, RefundInvariant, PTL

\* No call to the provider without a committed dispatch of its own.
THEOREM CallsHaveDispatches == ASSUME FreshIds PROVE Spec => []CallsAuthorized
<1>1. RefundInv => CallsAuthorized
  BY DEF RefundInv, ValuesInv
<1>2. QED
  BY <1>1, RefundInvariant, PTL

\* A recorded result is a refund the provider has made.
THEOREM ResultsAreReal == ASSUME FreshIds PROVE Spec => []ResultIsReal
<1>1. RefundInv => ResultIsReal
  BY DEF RefundInv, ValuesInv
<1>2. QED
  BY <1>1, RefundInvariant, PTL

\* The effects of a complete execution have been refunded: they are settled,
\* a settled effect has a result, and the result is a refund.
THEOREM CompleteRefunded == ASSUME FreshIds PROVE Spec => []CompleteIsRefunded
<1>1. RefundInv => CompleteIsRefunded
  <2> SUFFICES ASSUME RefundInv, NEW e \in Execution, NEW f \in Effect, Owner[f] = e,
                      executions[e] # Nil, executions[e].status = Complete,
                      effects[f] # Nil
               PROVE  refunds[f] > 0
    BY DEF CompleteIsRefunded
  <2>1. HasResult(f)
    BY DEF RefundInv, AgentInv, CompleteIsSettled, Settled, HasResult
  <2>2. effects[f].result \in 1..refunds[f] /\ refunds[f] \in Nat
    BY <2>1 DEF RefundInv, ValuesInv, ResultIsReal
  <2>3. QED
    BY <2>2
<1>2. QED
  BY <1>1, RefundInvariant, PTL

=============================================================================
