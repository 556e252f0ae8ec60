------------------------- MODULE DelayServerProofs -------------------------
(***************************************************************************)
(* For any number of delay servers, threads and rules, whatever fails: a   *)
(* rule has one executor at a time, is executed no more often than it asks *)
(* for, and leaves the catalog only after an execution or a lost request.  *)
(*                                                                         *)
(* The inductive invariant has a part about the processes (a process that  *)
(* has not started or has ended does nothing) and a part about each rule   *)
(* (who holds its lock, and how many executions are left to it).           *)
(***************************************************************************)
EXTENDS DelayServer, TLAPS

\* Zenon proves most leaves; those that need another prover cite it.
USE ZenonT(30)

\* TypeOK without the delay queues, on which nothing below depends.
Types ==
    /\ catalog \in [Rules -> Rows \cup {NoRow}]
    /\ pc \in [Servers -> MainPC]
    /\ pool \in [Servers -> Seq(Tasks)]
    /\ worker \in [Servers -> [Threads -> Workers]]
    /\ submitted \in [Rules -> Frequency \cup {NoFrequency, NoRow}]
    /\ executions \in [Rules -> 0..MaxCount]
    /\ unlocks \in [Rules -> 0..MaxUnlocks]

NoJobs(s) ==
    /\ \A i \in DOMAIN pool[s] : pool[s][i].kind # "job"
    /\ \A t \in Threads : worker[s][t].pc \notin {"contains", "enqueue"}

\* Jobs are pending only while main waits for them, and a process that does
\* not run has neither tasks nor busy threads.
ProcessInv(s) ==
    /\ pc[s] # "wait" => NoJobs(s)
    /\ pc[s] \in {"off", "exiting", "exited"} => pool[s] = << >>
    /\ ~ Alive(s) => \A t \in Threads : worker[s][t] = Idle

\* Executions that a frequency still asks for.
Left(f) == IF f = NoFrequency THEN 1 ELSE f.times

Executor(s, t, r) == Holds(s, t, r) /\ worker[s][t].pc \in {"running", "update"}

\* The holder of a rule is the process in its lock columns.
LockInv(r) ==
    /\ catalog[r] # NoRow => submitted[r] # NoRow
    /\ \A s \in Servers, t \in Threads :
        Holds(s, t, r) => submitted[r] # NoRow /\ (catalog[r] = NoRow \/ catalog[r].lock = s)
    /\ \A s1, s2 \in Servers : \A t1, t2 \in Threads :
        Holds(s1, t1, r) /\ Holds(s2, t2, r) => s1 = s2 /\ t1 = t2

\* The call for a rule ends without an execution only when its request is lost.
CountInv(r) ==
    /\ submitted[r] = NoRow => executions[r] = 0
    /\ \A s \in Servers, t \in Threads :
        Executor(s, t, r) =>
            \/ executions[r] > 0
            \/ worker[s][t].pc = "update" /\ worker[s][t].status = "lost" /\ r \in lost
    /\ submitted[r] # NoRow /\ catalog[r] = NoRow =>
        r \in deleted \/ executions[r] > 0 \/ (r \in lost /\ submitted[r] = NoFrequency)

\* A rule that is submitted with a frequency keeps one.
FreqInv(r) ==
    /\ catalog[r] # NoRow => (catalog[r].freq = NoFrequency <=> submitted[r] = NoFrequency)
    /\ \A s \in Servers, t \in Threads :
        Holds(s, t, r) /\ worker[s][t].pc # "info" =>
            (worker[s][t].freq = NoFrequency <=> submitted[r] = NoFrequency)

\* A lock may have cost one execution that the frequency does not show yet.
BudgetInv(r) ==
    /\ executions[r] <= Budget(r) + unlocks[r]
    /\ catalog[r] # NoRow =>
        /\ Left(catalog[r].freq) >= 1
        /\ executions[r] + Left(catalog[r].freq)
             <= Budget(r) + unlocks[r] + (IF catalog[r].lock = NoLock THEN 0 ELSE 1)
    /\ \A s \in Servers, t \in Threads :
        Holds(s, t, r) =>
            /\ worker[s][t].pc = "request" => executions[r] + 1 <= Budget(r) + unlocks[r]
            /\ catalog[r] # NoRow /\ worker[s][t].pc \in {"info", "request"} =>
                executions[r] + Left(catalog[r].freq) <= Budget(r) + unlocks[r]
            /\ catalog[r] # NoRow /\ worker[s][t].pc # "info" =>
                worker[s][t].freq = catalog[r].freq

RuleInv(r) == LockInv(r) /\ CountInv(r) /\ FreqInv(r) /\ (Bounded(r) => BudgetInv(r))

IInv ==
    /\ Types
    /\ \A s \in Servers : ProcessInv(s)
    /\ \A r \in Rules : RuleInv(r)

-----------------------------------------------------------------------------

\* A step of one thread.
LEMMA WorkerMoves ==
    ASSUME Types, NEW s \in Servers, NEW t \in Threads, NEW w \in Workers, Set(s, t, w)
    PROVE  /\ worker' \in [Servers -> [Threads -> Workers]]
           /\ worker'[s][t] = w
           /\ \A s2 \in Servers, t2 \in Threads :
                s2 # s \/ t2 # t => worker'[s2][t2] = worker[s2][t2]
  BY DEF Types, Set

\* What a rule's invariant needs when nothing about the rule changes, except
\* that threads may stop holding it.
LEMMA RuleUntouched ==
    ASSUME NEW r \in Rules, RuleInv(r),
           catalog'[r] = catalog[r], submitted'[r] = submitted[r],
           executions'[r] = executions[r], unlocks'[r] = unlocks[r],
           r \in deleted => r \in deleted', r \in lost => r \in lost',
           \A s \in Servers, t \in Threads :
               Holds(s, t, r)' => Holds(s, t, r) /\ worker'[s][t] = worker[s][t]
    PROVE  RuleInv(r)'
<1>1. LockInv(r)' /\ FreqInv(r)'
  <2>1. LockInv(r)'
    BY SMT DEF RuleInv, LockInv
  <2>2. FreqInv(r)'
    BY DEF RuleInv, FreqInv
  <2> QED BY <2>1, <2>2
<1>2. CountInv(r)'
  <2>1. ASSUME NEW s \in Servers, NEW t \in Threads, Executor(s, t, r)'
        PROVE  \/ executions'[r] > 0
               \/ worker'[s][t].pc = "update" /\ worker'[s][t].status = "lost" /\ r \in lost'
    <3>1. Executor(s, t, r) /\ worker'[s][t] = worker[s][t] /\ CountInv(r)
      BY <2>1 DEF Executor, RuleInv
    <3> QED BY <3>1 DEF CountInv
  <2> QED BY <2>1 DEF RuleInv, CountInv
<1>3. ASSUME Bounded(r)' PROVE BudgetInv(r)'
  <2>1. Bounded(r) /\ Budget(r)' = Budget(r)
    BY <1>3 DEF Bounded, Budget
  <2>2. BudgetInv(r)
    BY <2>1 DEF RuleInv
  <2> QED BY <2>1, <2>2 DEF BudgetInv
<1> QED BY <1>1, <1>2, <1>3 DEF RuleInv

\* Types only change where the step writes.
LEMMA WorkerInWorkers ==
    ASSUME NEW p \in WorkerPC, NEW r \in Rules, NEW f \in Frequency \cup {NoFrequency},
           NEW s \in {"none", "ok", "failed", "lost"}
    PROVE  /\ Worker(p, r, f, s) \in Workers
           /\ Worker(p, r, f, s).pc = p /\ Worker(p, r, f, s).rule = r
           /\ Worker(p, r, f, s).freq = f /\ Worker(p, r, f, s).status = s
  BY DEF Worker, Workers

LEMMA IdleInWorkers ==
    Idle \in Workers /\ Idle.pc = "idle" /\ Idle.rule = NoRule
  BY DEF Idle, Worker, Workers, WorkerPC

\* A busy thread moves on without touching the pool.
LEMMA ProcessOfThreadStep ==
    ASSUME Types, \A s \in Servers : ProcessInv(s),
           NEW s \in Servers, NEW t \in Threads, NEW w \in Workers, Set(s, t, w),
           worker[s][t] # Idle, pc' = pc, pool' = pool,
           w.pc \in {"contains", "enqueue"} => worker[s][t].pc \in {"contains", "enqueue"}
    PROVE  \A s2 \in Servers : ProcessInv(s2)'
<1> SUFFICES ASSUME NEW s2 \in Servers PROVE ProcessInv(s2)'
  OBVIOUS
<1>1. /\ worker'[s][t] = w
      /\ \A t2 \in Threads : s2 # s \/ t2 # t => worker'[s2][t2] = worker[s2][t2]
  BY WorkerMoves, SMT
<1>2. ProcessInv(s2) /\ ProcessInv(s)
  OBVIOUS
<1>3. (pc[s2] # "wait" => NoJobs(s2))'
  BY <1>1, <1>2 DEF ProcessInv, NoJobs
<1>4. Alive(s)
  BY <1>2 DEF ProcessInv
<1> QED BY <1>1, <1>2, <1>3, <1>4 DEF ProcessInv, Alive

\* A step of the main thread of one process leaves the others alone.
LEMMA OtherProcess ==
    ASSUME NEW s \in Servers, ProcessInv(s), pc'[s] = pc[s], pool'[s] = pool[s],
           worker'[s] = worker[s]
    PROVE  ProcessInv(s)'
  BY DEF ProcessInv, NoJobs, Alive

\* A thread that does not take a rule's lock nor executes it: rules are untouched.
LEMMA RulesOfThreadStep ==
    ASSUME Types, \A r \in Rules : RuleInv(r),
           NEW s \in Servers, NEW t \in Threads, NEW w \in Workers, Set(s, t, w),
           w.pc \notin {"info", "request", "running", "update"}, UNCHANGED <<catalog, history>>
    PROVE  \A r \in Rules : RuleInv(r)'
<1> SUFFICES ASSUME NEW r \in Rules PROVE RuleInv(r)'
  OBVIOUS
<1>1. \A s2 \in Servers, t2 \in Threads :
        Holds(s2, t2, r)' => Holds(s2, t2, r) /\ worker'[s2][t2] = worker[s2][t2]
  BY WorkerMoves, SMT DEF Holds
<1> QED BY <1>1, RuleUntouched DEF history

\* A thread that works on rule r leaves the invariant of the other rules alone.
LEMMA OtherRule ==
    ASSUME Types, NEW s \in Servers, NEW t \in Threads, NEW w \in Workers, Set(s, t, w),
           NEW q \in Rules, RuleInv(q), w.rule # q,
           catalog'[q] = catalog[q], submitted'[q] = submitted[q],
           executions'[q] = executions[q], unlocks'[q] = unlocks[q], deleted' = deleted,
           q \in lost => q \in lost'
    PROVE  RuleInv(q)'
<1>1. \A s2 \in Servers, t2 \in Threads :
        Holds(s2, t2, q)' => Holds(s2, t2, q) /\ worker'[s2][t2] = worker[s2][t2]
  BY WorkerMoves, SMT DEF Holds
<1> QED BY <1>1, RuleUntouched

LEMMA FunctionIsSequence ==
    ASSUME NEW S, NEW n \in Nat, NEW f \in [1..n -> S]
    PROVE  f \in Seq(S)
  BY SMT

LEMMA ConcatenationIsSequence ==
    ASSUME NEW S, NEW a \in Seq(S), NEW b \in Seq(S)
    PROVE  a \o b \in Seq(S)
  BY SMT

-----------------------------------------------------------------------------
(* The main thread                                                         *)

LEMMA MainStep ==
    ASSUME IInv, NEW s \in Servers, Main(s)
    PROVE  IInv'
<1>1. UNCHANGED <<catalog, worker, history>>
  BY DEF Main, CheckLeader, Leave, Query, QueryFails, WaitForJobs, WakeUp, Exit
<1>2. \A r \in Rules : RuleInv(r)'
  BY <1>1, RuleUntouched DEF IInv, history, Holds
<1>3. /\ pc' = [pc EXCEPT ![s] = pc'[s]] /\ pc'[s] \in MainPC
      /\ pool' = [pool EXCEPT ![s] = pool'[s]] /\ pool'[s] \in Seq(Tasks)
  <2>1. CASE CheckLeader(s)
    <3>1. CASE Leave(s)
      BY <3>1, SMT DEF Leave, IInv, Types, MainPC
    <3>2. CASE pc' = [pc EXCEPT ![s] = "query"] /\ pool' = pool
      BY <3>2 DEF IInv, Types, MainPC
    <3> QED BY <2>1, <3>1, <3>2 DEF CheckLeader
  <2>2. CASE Query(s)
    <3> DEFINE due == {r \in Rules : Unlocked(r) /\ catalog[r].due}
    <3>1. PICK q \in [1..Cardinality(due) -> due] :
            pool' = [pool EXCEPT ![s] = @ \o [i \in DOMAIN q |-> Task("job", q[i])]]
      BY <2>2 DEF Query, QueryResults
    <3>2. Cardinality(due) \in Nat
      BY DelayServerAssumption
    <3>3. [i \in DOMAIN q |-> Task("job", q[i])] \in Seq(Tasks)
      <4>1. \A i \in 1..Cardinality(due) : Task("job", q[i]) \in Tasks
        BY DEF Task, Tasks
      <4> QED BY <3>2, <4>1, FunctionIsSequence
    <3>4. pool[s] \o [i \in DOMAIN q |-> Task("job", q[i])] \in Seq(Tasks)
      <4>1. pool[s] \in Seq(Tasks)
        BY DEF IInv, Types
      <4> QED BY <3>3, <4>1, ConcatenationIsSequence
    <3> QED BY <2>2, <3>1, <3>4 DEF Query, IInv, Types, MainPC
  <2>3. CASE QueryFails(s) \/ WaitForJobs(s) \/ WakeUp(s) \/ Exit(s)
    <3>1. pool' = pool /\ \E p \in {"sleep", "loop", "exited"} : pc' = [pc EXCEPT ![s] = p]
      BY <2>3 DEF QueryFails, WaitForJobs, WakeUp, Exit
    <3> QED BY <3>1 DEF IInv, Types, MainPC
  <2> QED BY <2>1, <2>2, <2>3 DEF Main
<1>4. Types'
  BY <1>1, <1>3 DEF IInv, Types, history
<1>5. ProcessInv(s)'
  <2>1. ProcessInv(s) /\ pc'[s] = pc'[s]
    BY DEF IInv
  <2>2. CASE CheckLeader(s)
    BY <1>1, <2>1, <2>2, SMT DEF CheckLeader, Leave, ProcessInv, NoJobs, Alive, IInv, Types
  <2>3. CASE Query(s)
    BY <1>1, <2>1, <2>3 DEF Query, ProcessInv, NoJobs, Alive, IInv, Types
  <2>4. CASE QueryFails(s) \/ WakeUp(s)
    BY <1>1, <2>1, <2>4 DEF QueryFails, WakeUp, ProcessInv, NoJobs, Alive, IInv, Types
  <2>5. CASE WaitForJobs(s)
    BY <1>1, <2>1, <2>5 DEF WaitForJobs, ProcessInv, NoJobs, Alive, IInv, Types
  <2>6. CASE Exit(s)
    BY <1>1, <2>1, <2>6 DEF Exit, ProcessInv, NoJobs, Alive, IInv, Types
  <2> QED BY <2>2, <2>3, <2>4, <2>5, <2>6 DEF Main
<1>6. ASSUME NEW s2 \in Servers, s2 # s PROVE ProcessInv(s2)'
  BY <1>1, <1>3, <1>6, OtherProcess DEF IInv, Types
<1> QED BY <1>2, <1>4, <1>5, <1>6 DEF IInv

-----------------------------------------------------------------------------
(* Threads that neither lock nor execute a rule                            *)

LEMMA QuietThreadStep ==
    ASSUME IInv, NEW s \in Servers, NEW t \in Threads, NEW w \in Workers, Set(s, t, w),
           worker[s][t] # Idle, UNCHANGED <<catalog, pc, pool, history>>,
           w.pc \in {"contains", "enqueue"} => worker[s][t].pc \in {"contains", "enqueue"},
           w.pc \notin {"info", "request", "running", "update"}
    PROVE  IInv'
<1>1. Types'
  BY WorkerMoves DEF IInv, Types, history
<1>2. \A s2 \in Servers : ProcessInv(s2)'
  BY ProcessOfThreadStep DEF IInv
<1>3. \A r \in Rules : RuleInv(r)'
  BY RulesOfThreadStep DEF IInv
<1> QED BY <1>1, <1>2, <1>3 DEF IInv

\* A busy thread works on a rule.
LEMMA BusyThread ==
    ASSUME Types, NEW s \in Servers, NEW t \in Threads
    PROVE  /\ worker[s][t] \in Workers
           /\ worker[s][t].pc # "idle" =>
                /\ worker[s][t] # Idle /\ worker[s][t].rule \in Rules
                /\ worker[s][t].freq \in Frequency \cup {NoFrequency}
  BY IdleInWorkers, SMT DEF Types, Workers

\* A thread takes a task: the pool has one, so the process is running.
LEMMA TakeTaskStep ==
    ASSUME IInv, NEW s \in Servers, NEW t \in Threads, TakeTask(s, t)
    PROVE  IInv'
<1> DEFINE k == Head(pool[s])
           w == Worker(IF k.kind = "job" THEN "contains"
                       ELSE IF g_terminate[s] THEN "scope_exit" ELSE "lock",
                       k.rule, NoFrequency, "none")
<1>1. pool[s] \in Seq(Tasks) /\ pool[s] # << >>
  BY DEF IInv, Types, TakeTask
<1>2. k \in Tasks /\ Tail(pool[s]) \in Seq(Tasks)
  BY <1>1, SMT
<1>3. k.rule \in Rules
  BY <1>2 DEF Tasks
<1>4. /\ w \in Workers /\ w.rule = k.rule
      /\ w.pc = IF k.kind = "job" THEN "contains"
                ELSE IF g_terminate[s] THEN "scope_exit" ELSE "lock"
  BY <1>3 DEF Worker, Workers, WorkerPC
<1>5. Set(s, t, w) /\ UNCHANGED <<catalog, pc, history>>
  BY DEF TakeTask
<1>6. pool' = [pool EXCEPT ![s] = Tail(pool[s])]
  BY DEF TakeTask
<1> HIDE DEF k, w
<1>7. Types'
  BY <1>2, <1>4, <1>5, <1>6, WorkerMoves DEF IInv, Types, history
<1>8. ASSUME NEW s2 \in Servers PROVE ProcessInv(s2)'
  <2>1. ProcessInv(s2) /\ ProcessInv(s)
    BY DEF IInv
  <2>2. /\ worker'[s][t] = w
        /\ \A t2 \in Threads : s2 # s \/ t2 # t => worker'[s2][t2] = worker[s2][t2]
    BY <1>4, <1>5, WorkerMoves, SMT DEF IInv
  <2>3. CASE s2 # s
    <3>1. pool'[s2] = pool[s2]
      BY <1>6, <2>3 DEF IInv, Types
    <3> QED BY <1>5, <2>1, <2>2, <2>3, <3>1 DEF ProcessInv, NoJobs, Alive
  <2>4. CASE s2 = s
    <3>1. pool'[s] = Tail(pool[s])
      BY <1>6 DEF IInv, Types
    <3>2. pc[s] \notin {"off", "exiting", "exited"}
      BY <1>1, <2>1 DEF ProcessInv
    <3>3. ASSUME pc[s] # "wait" PROVE NoJobs(s)'
      <4>1. NoJobs(s)
        BY <2>1, <3>3 DEF ProcessInv
      <4>2. k.kind # "job"
        BY <1>1, <4>1, SMT DEF NoJobs, k
      <4>3. \A i \in DOMAIN Tail(pool[s]) : Tail(pool[s])[i].kind # "job"
        BY <1>1, <4>1, SMT DEF NoJobs
      <4> QED BY <1>4, <2>2, <2>4, <3>1, <4>1, <4>2, <4>3 DEF NoJobs
    <3> QED BY <1>5, <2>4, <3>2, <3>3 DEF ProcessInv, Alive
  <2> QED BY <2>3, <2>4
<1>9. \A r \in Rules : RuleInv(r)'
  <2>1. w.pc \notin {"info", "request", "running", "update"}
    BY <1>4
  <2> QED BY <1>4, <1>5, <2>1, RulesOfThreadStep DEF IInv
<1> QED BY <1>7, <1>8, <1>9 DEF IInv

LEMMA EnqueueStep ==
    ASSUME IInv, NEW s \in Servers, NEW t \in Threads, Enqueue(s, t)
    PROVE  IInv'
<1>1. Set(s, t, Idle) /\ UNCHANGED <<catalog, pc, history>>
  BY DEF Enqueue
<1>2. worker[s][t] # Idle /\ ProcessInv(s) /\ pc[s] = "wait"
  BY IdleInWorkers DEF Enqueue, IInv, ProcessInv, NoJobs
<1>3. Idle \in Workers /\ Idle.pc = "idle"
  BY IdleInWorkers
<1>4. \A r \in Rules : RuleInv(r)'
  BY <1>1, <1>3, RulesOfThreadStep DEF IInv
<1>5. CASE UNCHANGED pool
  <2>1. Types'
    BY <1>1, <1>3, <1>5, WorkerMoves DEF IInv, Types, history
  <2>2. \A s2 \in Servers : ProcessInv(s2)'
    BY <1>1, <1>2, <1>3, <1>5, ProcessOfThreadStep DEF IInv
  <2> QED BY <1>4, <2>1, <2>2 DEF IInv
<1>6. CASE pool' = [pool EXCEPT ![s] = Append(pool[s], Task("execute_rule", worker[s][t].rule))]
  <2>1. Task("execute_rule", worker[s][t].rule) \in Tasks
    BY BusyThread DEF Task, Tasks, Enqueue, IInv
  <2>2. pool' \in [Servers -> Seq(Tasks)]
    BY <1>6, <2>1, SMT DEF IInv, Types
  <2>3. Types'
    BY <1>1, <1>3, <2>2, WorkerMoves DEF IInv, Types, history
  <2>4. ASSUME NEW s2 \in Servers PROVE ProcessInv(s2)'
    <3>1. ProcessInv(s2)
      BY DEF IInv
    <3>2. s2 # s => pool'[s2] = pool[s2] /\ worker'[s2] = worker[s2]
      BY <1>1, <1>6 DEF IInv, Types, Set
    <3>3. CASE s2 = s
      BY <1>1, <1>2, <3>3 DEF ProcessInv, Alive
    <3> QED BY <1>1, <3>1, <3>2, <3>3, OtherProcess
  <2> QED BY <1>4, <2>3, <2>4 DEF IInv
<1> QED BY <1>5, <1>6 DEF Enqueue

\* The process ends: its threads no longer hold their rules.
LEMMA DieStep ==
    ASSUME IInv, NEW s \in Servers, Die(s)
    PROVE  IInv'
<1>1. /\ \A t \in Threads : worker'[s][t] = Idle
      /\ \A s2 \in Servers \ {s} :
            worker'[s2] = worker[s2] /\ pool'[s2] = pool[s2] /\ pc'[s2] = pc[s2]
      /\ pool'[s] = << >> /\ pc'[s] = "exited"
  BY DEF IInv, Types, Die
<1>2. Types'
  BY IdleInWorkers, SMT DEF IInv, Types, Die, MainPC, history
<1>3. ProcessInv(s)'
  BY <1>1, IdleInWorkers, SMT DEF ProcessInv, NoJobs
<1>4. ASSUME NEW s2 \in Servers \ {s} PROVE ProcessInv(s2)'
  BY <1>1, OtherProcess DEF IInv
<1>5. ASSUME NEW r \in Rules PROVE RuleInv(r)'
  <2>1. \A s2 \in Servers, t \in Threads :
          Holds(s2, t, r)' => Holds(s2, t, r) /\ worker'[s2][t] = worker[s2][t]
    BY <1>1, IdleInWorkers DEF Holds
  <2> QED BY <2>1, RuleUntouched DEF IInv, Die, history
<1> QED BY <1>2, <1>3, <1>4, <1>5 DEF IInv

\* Skipped and failed tasks, and the end of a task.
LEMMA OtherThreadSteps ==
    ASSUME IInv, NEW s \in Servers, NEW t \in Threads,
           Contains(s, t) \/ ConnectFails(s, t) \/ Dequeue(s, t) \/ ScopeExit(s, t)
    PROVE  IInv'
<1> DEFINE r == worker[s][t].rule
<1>1. /\ worker[s][t].pc \in {"contains", "lock", "dequeue", "scope_exit"}
      /\ worker[s][t] # Idle /\ r \in Rules
  BY BusyThread DEF IInv, Contains, ConnectFails, Dequeue, ScopeExit
<1>2. Idle \in Workers /\ Idle.pc = "idle"
  BY IdleInWorkers
<1>3. \A p \in {"enqueue", "scope_exit"} :
        /\ Worker(p, r, NoFrequency, "none") \in Workers
        /\ Worker(p, r, NoFrequency, "none").pc = p
  BY <1>1 DEF Worker, Workers, WorkerPC
<1>4. CASE Die(s)
  BY <1>4, DieStep
<1>5. ASSUME UNCHANGED <<catalog, pc, pool, history>>,
             NEW w \in {Idle, Worker("scope_exit", r, NoFrequency, "none")}, Set(s, t, w)
      PROVE  IInv'
  BY <1>1, <1>2, <1>3, <1>5, QuietThreadStep
<1>6. CASE Contains(s, t)
  <2>1. UNCHANGED <<catalog, pc, pool, history>> /\ worker[s][t].pc = "contains"
    BY <1>6 DEF Contains
  <2>2. CASE Set(s, t, Idle)
    BY <1>5, <2>1, <2>2
  <2>3. CASE Set(s, t, Worker("enqueue", r, NoFrequency, "none"))
    BY <1>1, <1>3, <2>1, <2>3, QuietThreadStep
  <2> QED BY <1>6, <2>2, <2>3 DEF Contains
<1>7. CASE ConnectFails(s, t)
  BY <1>5, <1>7 DEF ConnectFails
<1>8. CASE Dequeue(s, t)
  BY <1>4, <1>5, <1>8 DEF Dequeue
<1>9. CASE ScopeExit(s, t)
  BY <1>4, <1>5, <1>9 DEF ScopeExit
<1> QED BY <1>6, <1>7, <1>8, <1>9

-----------------------------------------------------------------------------
(* Threads that lock and execute a rule                                    *)

LEMMA RowFields ==
    ASSUME NEW d, NEW l, NEW f
    PROVE  Row(d, l, f).due = d /\ Row(d, l, f).lock = l /\ Row(d, l, f).freq = f
  BY DEF Row

LEMMA RowInRows ==
    ASSUME NEW d \in BOOLEAN, NEW l \in Servers \cup {NoLock},
           NEW f \in Frequency \cup {NoFrequency}
    PROVE  Row(d, l, f) \in Rows /\ Row(d, l, f) # NoRow
<1>1. Row(d, l, f) \in Rows
  BY DEF Row, Rows
<1> QED BY <1>1, DelayServerAssumption

\* The row of a rule that is in the catalog.
LEMMA RowOfRule ==
    ASSUME Types, NEW r \in Rules, catalog[r] # NoRow
    PROVE  /\ catalog[r].due \in BOOLEAN /\ catalog[r].lock \in Servers \cup {NoLock}
           /\ catalog[r].freq \in Frequency \cup {NoFrequency}
  BY DEF Types, Rows

LEMMA CatalogWith ==
    ASSUME Types, NEW r \in Rules, NEW row \in Rows \cup {NoRow}, catalog' = With(r, row)
    PROVE  /\ catalog' \in [Rules -> Rows \cup {NoRow}]
           /\ catalog'[r] = row
           /\ \A q \in Rules : q # r => catalog'[q] = catalog[q]
  BY DEF Types, With

LEMMA NoHolderOfUnlocked ==
    ASSUME NEW r \in Rules, LockInv(r), Unlocked(r)
    PROVE  \A s \in Servers, t \in Threads : ~ Holds(s, t, r)
  BY DelayServerAssumption DEF LockInv, Unlocked

\* Counts and frequencies are numbers.
LEMMA Numbers ==
    ASSUME Types, NEW r \in Rules
    PROVE  /\ executions[r] \in Nat /\ unlocks[r] \in Nat
           /\ Bounded(r) => Budget(r) \in Nat \ {0}
           /\ catalog[r] # NoRow => Left(catalog[r].freq) \in Nat
<1>1. executions[r] \in Nat /\ unlocks[r] \in Nat
  BY DelayServerAssumption, SMT DEF Types
<1>2. submitted[r] \in Frequency \cup {NoFrequency, NoRow}
  BY DEF Types
<1>3. Bounded(r) => Budget(r) \in Nat \ {0}
  BY <1>2, SMT DEF Bounded, Budget, Frequency
<1>4. catalog[r] # NoRow => Left(catalog[r].freq) \in Nat
  BY RowOfRule DEF Left, Frequency
<1> QED BY <1>1, <1>3, <1>4

\* The rule is locked while nobody holds it: the thread that asked becomes
\* its only holder, or nobody does when the answer is lost.
LEMMA LockedRule ==
    ASSUME IInv, NEW s \in Servers, NEW t \in Threads, NEW r \in Rules, Unlocked(r),
           NEW w \in Workers, Set(s, t, w), w.rule = r,
           w.pc \notin {"request", "running", "update"},
           catalog' = With(r, Row(catalog[r].due, s, catalog[r].freq)), UNCHANGED history
    PROVE  RuleInv(r)'
<1>1. catalog[r] # NoRow /\ catalog[r].lock = NoLock /\ RuleInv(r)
  BY DEF Unlocked, IInv
<1>2. Types /\ Types
  BY DEF IInv
<1>3. catalog'[r] # NoRow /\ catalog'[r].lock = s /\ catalog'[r].freq = catalog[r].freq
  BY <1>1, <1>2, RowOfRule, RowInRows, RowFields, CatalogWith, SMT
<1>4. /\ submitted'[r] = submitted[r] /\ executions'[r] = executions[r]
      /\ unlocks'[r] = unlocks[r] /\ lost' = lost /\ s # NoLock
  BY DelayServerAssumption DEF history
<1>5. \A s2 \in Servers, t2 \in Threads : Holds(s2, t2, r)' =>
        s2 = s /\ t2 = t /\ worker'[s2][t2].pc = "info"
  <2>1. \A s2 \in Servers, t2 \in Threads : ~ Holds(s2, t2, r)
    BY <1>1, NoHolderOfUnlocked DEF RuleInv
  <2> QED BY <1>2, <2>1, WorkerMoves, SMT DEF Holds
<1>6. LockInv(r)' /\ FreqInv(r)'
  <2>1. LockInv(r)'
    BY <1>1, <1>3, <1>4, <1>5, SMT DEF RuleInv, LockInv
  <2>2. FreqInv(r)'
    BY <1>1, <1>3, <1>4, <1>5 DEF RuleInv, FreqInv
  <2> QED BY <2>1, <2>2
<1>7. CountInv(r)'
  BY <1>1, <1>3, <1>4, <1>5 DEF RuleInv, LockInv, CountInv, Executor
<1>8. ASSUME Bounded(r)' PROVE BudgetInv(r)'
  <2>1. Bounded(r) /\ Budget(r)' = Budget(r)
    BY <1>4, <1>8 DEF Bounded, Budget
  <2>2. BudgetInv(r)
    BY <1>1, <2>1 DEF RuleInv
  <2>3. Left(catalog[r].freq)' = Left(catalog[r].freq)
    BY <1>3 DEF Left
  <2>4. /\ executions[r] <= Budget(r) + unlocks[r] /\ Left(catalog[r].freq) >= 1
        /\ executions[r] + Left(catalog[r].freq) <= Budget(r) + unlocks[r]
    BY <1>1, <1>2, <2>1, <2>2, Numbers, SMT DEF BudgetInv
  <2>5. /\ executions[r] \in Nat /\ unlocks[r] \in Nat /\ Budget(r) \in Nat
        /\ Left(catalog[r].freq) \in Nat
    BY <1>1, <1>2, <2>1, Numbers
  <2> QED BY <1>3, <1>4, <1>5, <2>1, <2>3, <2>4, <2>5, SMT DEF BudgetInv
<1> QED BY <1>6, <1>7, <1>8 DEF RuleInv

LEMMA LockRuleStep ==
    ASSUME IInv, NEW s \in Servers, NEW t \in Threads, LockRule(s, t)
    PROVE  IInv'
<1>1. /\ Types /\ worker[s][t] # Idle /\ worker[s][t].rule \in Rules
      /\ worker[s][t].pc = "lock"
  BY BusyThread DEF IInv, LockRule
<1>r. PICK r \in Rules : r = worker[s][t].rule
  BY <1>1
<1> DEFINE fails == Worker("scope_exit", r, NoFrequency, "none")
           granted == Worker("info", r, NoFrequency, "none")
           row == Row(catalog[r].due, s, catalog[r].freq)
<1>2. /\ fails \in Workers /\ fails.pc = "scope_exit" /\ fails.rule = r
      /\ granted \in Workers /\ granted.pc = "info" /\ granted.rule = r
  BY <1>1 DEF Worker, Workers, WorkerPC
<1>3. UNCHANGED <<pc, pool, history>>
  BY DEF LockRule
<1>4. \/ Set(s, t, fails) /\ UNCHANGED catalog
      \/ /\ Unlocked(r) /\ catalog' = With(r, row)
         /\ Set(s, t, fails) \/ Set(s, t, granted)
  BY <1>r DEF LockRule
<1> HIDE DEF fails, granted
<1>5. CASE Set(s, t, fails) /\ UNCHANGED catalog
  BY <1>1, <1>2, <1>3, <1>5, QuietThreadStep
<1>6. ASSUME NEW w \in {fails, granted}, Set(s, t, w), Unlocked(r), catalog' = With(r, row)
      PROVE  IInv'
  <2>1. w \in Workers /\ w.rule = r /\ w.pc \in {"scope_exit", "info"}
    BY <1>2, <1>6
  <2>2. row \in Rows
    BY <1>1, <1>6, RowOfRule, RowInRows DEF Unlocked
  <2> HIDE DEF row
  <2>3. /\ catalog' \in [Rules -> Rows \cup {NoRow}]
        /\ \A q \in Rules : q # r => catalog'[q] = catalog[q]
    BY <1>1, <1>6, <2>2, CatalogWith
  <2>4. Types'
    BY <1>1, <1>3, <1>6, <2>1, <2>3, WorkerMoves DEF Types, history
  <2>5. \A s2 \in Servers : ProcessInv(s2)'
    BY <1>1, <1>3, <1>6, <2>1, ProcessOfThreadStep DEF IInv
  <2>6. RuleInv(r)'
    BY <1>1, <1>3, <1>6, <2>1, LockedRule DEF row
  <2>7. ASSUME NEW q \in Rules, q # r PROVE RuleInv(q)'
    BY <1>1, <1>3, <1>6, <2>1, <2>3, <2>7, OtherRule DEF IInv, history
  <2> QED BY <2>4, <2>5, <2>6, <2>7 DEF IInv
<1> QED BY <1>4, <1>5, <1>6

\* The holder of a rule goes on towards its execution or with it.
LEMMA ExecutedRule ==
    ASSUME IInv, NEW s \in Servers, NEW t \in Threads, NEW r \in Rules, Holds(s, t, r),
           NEW w \in Workers, Set(s, t, w), w.rule = r, w.pc \in {"request", "running", "update"},
           UNCHANGED <<catalog, submitted, unlocks, deleted>>, lost \subseteq lost',
           executions[r] > 0 => executions'[r] > 0,
           \/ w.pc = "request" \/ executions'[r] > 0
           \/ w.pc = "update" /\ w.status = "lost" /\ r \in lost',
           w.freq = NoFrequency <=> submitted[r] = NoFrequency,
           Bounded(r) /\ catalog[r] # NoRow => w.freq = catalog[r].freq,
           Bounded(r) =>
               /\ executions'[r] <= Budget(r) + unlocks[r]
               /\ w.pc = "request" => executions'[r] + 1 <= Budget(r) + unlocks[r],
           Bounded(r) /\ catalog[r] # NoRow =>
               /\ executions'[r] + Left(catalog[r].freq) <= Budget(r) + unlocks[r] + 1
               /\ w.pc = "request" =>
                    executions'[r] + Left(catalog[r].freq) <= Budget(r) + unlocks[r]
    PROVE  RuleInv(r)'
<1>1. Types /\ RuleInv(r) /\ LockInv(r)
  BY DEF IInv, RuleInv
<1>2. /\ submitted[r] # NoRow /\ (catalog[r] = NoRow \/ catalog[r].lock = s)
      /\ \A s2 \in Servers, t2 \in Threads : Holds(s2, t2, r) => s2 = s /\ t2 = t
  BY <1>1 DEF LockInv
<1>3. /\ worker'[s][t] = w
      /\ \A s2 \in Servers, t2 \in Threads : Holds(s2, t2, r)' => s2 = s /\ t2 = t
  BY <1>1, <1>2, WorkerMoves, SMT DEF Holds
<1>4. LockInv(r)'
  BY <1>2, <1>3 DEF LockInv
<1>5. CountInv(r)'
  <2>1. ASSUME NEW s2 \in Servers, NEW t2 \in Threads, Executor(s2, t2, r)'
        PROVE  \/ executions'[r] > 0
               \/ worker'[s2][t2].pc = "update" /\ worker'[s2][t2].status = "lost" /\ r \in lost'
    BY <1>3, <2>1 DEF Executor
  <2> QED BY <1>1, <1>2, <2>1 DEF CountInv, RuleInv
<1>f. FreqInv(r)'
  BY <1>1, <1>3 DEF FreqInv, RuleInv
<1>6. ASSUME Bounded(r)' PROVE BudgetInv(r)'
  <2>1. /\ Bounded(r) /\ Budget(r)' = Budget(r)
        /\ Left(catalog[r].freq)' = Left(catalog[r].freq)
    BY <1>6 DEF Bounded, Budget, Left
  <2>2. catalog[r] # NoRow => Left(catalog[r].freq) >= 1
    BY <1>1, <2>1 DEF RuleInv, BudgetInv
  <2>3. s # NoLock /\ w.pc # "info"
    BY DelayServerAssumption
  <2> QED BY <1>2, <1>3, <2>1, <2>2, <2>3 DEF BudgetInv
<1> QED BY <1>4, <1>5, <1>f, <1>6 DEF RuleInv

LEMMA FillRuleExecSubmitInpStep ==
    ASSUME IInv, NEW s \in Servers, NEW t \in Threads, FillRuleExecSubmitInp(s, t)
    PROVE  IInv'
<1>1. /\ Types /\ worker[s][t] # Idle /\ worker[s][t].rule \in Rules
      /\ worker[s][t].pc = "info" /\ UNCHANGED <<catalog, pc, pool, history>>
  BY BusyThread DEF IInv, FillRuleExecSubmitInp
<1>r. PICK r \in Rules : r = worker[s][t].rule
  BY <1>1
<1> DEFINE fails == Worker("scope_exit", r, NoFrequency, "none")
           w == Worker("request", r, catalog[r].freq, "none")
<1>2. Set(s, t, fails) \/ (catalog[r] # NoRow /\ Set(s, t, w))
  BY <1>r DEF FillRuleExecSubmitInp
<1>3. CASE Set(s, t, fails)
  <2>1. fails \in Workers /\ fails.pc = "scope_exit"
    BY DEF Worker, Workers, WorkerPC
  <2> HIDE DEF fails
  <2> QED BY <1>1, <1>3, <2>1, QuietThreadStep
<1>4. CASE catalog[r] # NoRow /\ Set(s, t, w)
  <2>1. w \in Workers /\ w.pc = "request" /\ w.rule = r /\ w.freq = catalog[r].freq
    BY <1>1, <1>4, RowOfRule DEF Worker, Workers, WorkerPC
  <2> HIDE DEF w
  <2>2. Types'
    BY <1>1, <1>4, <2>1, WorkerMoves DEF Types, history
  <2>3. \A s2 \in Servers : ProcessInv(s2)'
    BY <1>1, <1>4, <2>1, ProcessOfThreadStep DEF IInv
  <2>4. Holds(s, t, r) /\ RuleInv(r) /\ (w.freq = NoFrequency <=> submitted[r] = NoFrequency)
    BY <1>1, <1>r, <1>4, <2>1 DEF Holds, IInv, RuleInv, FreqInv
  <2>5. ASSUME Bounded(r)
        PROVE  /\ executions[r] + 1 <= Budget(r) + unlocks[r]
               /\ executions[r] <= Budget(r) + unlocks[r]
               /\ executions[r] + Left(catalog[r].freq) <= Budget(r) + unlocks[r]
               /\ executions[r] + Left(catalog[r].freq) <= Budget(r) + unlocks[r] + 1
    <3>1. BudgetInv(r)
      BY <2>4, <2>5 DEF RuleInv
    <3>2. /\ Left(catalog[r].freq) >= 1
          /\ executions[r] + Left(catalog[r].freq) <= Budget(r) + unlocks[r]
      BY <1>1, <1>4, <2>4, <3>1 DEF BudgetInv
    <3>3. /\ executions[r] \in Nat /\ unlocks[r] \in Nat /\ Budget(r) \in Nat
          /\ Left(catalog[r].freq) \in Nat
      BY <1>1, <1>4, <2>5, Numbers
    <3> QED BY <3>2, <3>3, SMT
  <2>6. RuleInv(r)'
    <3>1. executions'[r] = executions[r] /\ lost \subseteq lost'
      BY <1>1 DEF history
    <3> QED BY <1>1, <1>4, <2>1, <2>4, <2>5, <3>1, ExecutedRule DEF history
  <2>7. ASSUME NEW q \in Rules, q # r PROVE RuleInv(q)'
    BY <1>1, <1>4, <2>1, <2>7, OtherRule DEF IInv, history
  <2> QED BY <2>2, <2>3, <2>6, <2>7 DEF IInv
<1> QED BY <1>2, <1>3, <1>4

\* The agent executes the rule: the execution that was left over is used up.
LEMMA ExecuteRuleStep ==
    ASSUME IInv, NEW s \in Servers, NEW t \in Threads, ExecuteRule(s, t)
    PROVE  IInv'
<1>1. /\ Types /\ worker[s][t] # Idle /\ worker[s][t].rule \in Rules
      /\ worker[s][t].freq \in Frequency \cup {NoFrequency}
      /\ worker[s][t].pc = "request"
      /\ UNCHANGED <<catalog, pc, pool, submitted, unlocks, deleted, lost>>
  BY BusyThread DEF IInv, ExecuteRule
<1>r. PICK r \in Rules : r = worker[s][t].rule
  BY <1>1
<1> DEFINE w == Worker("running", r, worker[s][t].freq, "none")
           more == IF executions[r] < MaxCount THEN executions[r] + 1 ELSE executions[r]
<1>2. Set(s, t, w) /\ executions' = [executions EXCEPT ![r] = more]
  BY <1>r DEF ExecuteRule
<1>3. w \in Workers /\ w.pc = "running" /\ w.rule = r /\ w.freq = worker[s][t].freq
  BY <1>1 DEF Worker, Workers, WorkerPC
<1> HIDE DEF w
<1>4. executions[r] \in 0..MaxCount /\ MaxCount \in Nat \ {0}
  BY <1>1, DelayServerAssumption DEF Types
<1>5. more \in 0..MaxCount /\ more > 0 /\ more <= executions[r] + 1
  BY <1>4, SMT
<1>6. /\ executions' \in [Rules -> 0..MaxCount] /\ executions'[r] = more
      /\ \A q \in Rules : q # r => executions'[q] = executions[q]
  BY <1>1, <1>2, <1>5 DEF Types
<1> HIDE DEF more
<1>7. Types'
  BY <1>1, <1>2, <1>3, <1>6, WorkerMoves DEF Types
<1>8. \A s2 \in Servers : ProcessInv(s2)'
  BY <1>1, <1>2, <1>3, ProcessOfThreadStep DEF IInv
<1>9. Holds(s, t, r) /\ RuleInv(r) /\ (w.freq = NoFrequency <=> submitted[r] = NoFrequency)
  BY <1>1, <1>r, <1>3 DEF Holds, IInv, RuleInv, FreqInv
<1>10. ASSUME Bounded(r)
       PROVE  /\ executions'[r] <= Budget(r) + unlocks[r]
              /\ catalog[r] # NoRow =>
                   /\ w.freq = catalog[r].freq
                   /\ executions'[r] + Left(catalog[r].freq) <= Budget(r) + unlocks[r] + 1
  <2>1. BudgetInv(r)
    BY <1>9, <1>10 DEF RuleInv
  <2>2. /\ executions[r] + 1 <= Budget(r) + unlocks[r]
        /\ catalog[r] # NoRow =>
             /\ worker[s][t].freq = catalog[r].freq
             /\ executions[r] + Left(catalog[r].freq) <= Budget(r) + unlocks[r]
    BY <1>1, <1>9, <2>1 DEF BudgetInv
  <2>3. /\ executions[r] \in Nat /\ unlocks[r] \in Nat /\ Budget(r) \in Nat
        /\ catalog[r] # NoRow => Left(catalog[r].freq) \in Nat
    BY <1>1, <1>10, Numbers
  <2>4. executions'[r] <= Budget(r) + unlocks[r]
    BY <1>4, <1>5, <1>6, <2>2, <2>3, SMT
  <2>5. catalog[r] # NoRow =>
          executions'[r] + Left(catalog[r].freq) <= Budget(r) + unlocks[r] + 1
    BY <1>4, <1>5, <1>6, <2>2, <2>3, SMT
  <2> QED BY <1>3, <2>2, <2>4, <2>5
<1>11. RuleInv(r)'
  <2>1. executions'[r] > 0 /\ lost \subseteq lost' /\ w.pc # "request"
    BY <1>1, <1>3, <1>5, <1>6
  <2> QED BY <1>1, <1>2, <1>3, <1>9, <1>10, <2>1, ExecutedRule
<1>12. ASSUME NEW q \in Rules, q # r PROVE RuleInv(q)'
  BY <1>1, <1>2, <1>3, <1>6, <1>12, OtherRule, SMT DEF IInv
<1> QED BY <1>7, <1>8, <1>11, <1>12 DEF IInv

\* The call of rcExecRuleExpression ends, with or without an execution.
LEMMA CallEndsStep ==
    ASSUME IInv, NEW s \in Servers, NEW t \in Threads, RequestIsLost(s, t) \/ RuleReturns(s, t)
    PROVE  IInv'
<1>1. /\ Types /\ worker[s][t] # Idle /\ worker[s][t].rule \in Rules
      /\ worker[s][t].freq \in Frequency \cup {NoFrequency}
      /\ worker[s][t].pc \in {"request", "running"}
      /\ UNCHANGED <<catalog, pc, pool, submitted, executions, unlocks, deleted>>
      /\ lost \subseteq lost'
  BY BusyThread DEF IInv, RequestIsLost, RuleReturns, history
<1>r. PICK r \in Rules : r = worker[s][t].rule
  BY <1>1
<1>2. PICK status \in {"ok", "failed", "lost"} :
        /\ Set(s, t, Worker("update", r, worker[s][t].freq, status))
        /\ worker[s][t].pc = "request" => status = "lost" /\ r \in lost'
  BY <1>r DEF RequestIsLost, RuleReturns
<1> DEFINE w == Worker("update", r, worker[s][t].freq, status)
<1>3. /\ w \in Workers /\ w.pc = "update" /\ w.rule = r /\ w.freq = worker[s][t].freq
      /\ w.status = status /\ Set(s, t, w)
  BY <1>1, <1>2 DEF Worker, Workers, WorkerPC
<1> HIDE DEF w
<1>4. Types'
  BY <1>1, <1>3, WorkerMoves DEF Types
<1>5. \A s2 \in Servers : ProcessInv(s2)'
  BY <1>1, <1>3, ProcessOfThreadStep DEF IInv
<1>6. Holds(s, t, r) /\ RuleInv(r) /\ (w.freq = NoFrequency <=> submitted[r] = NoFrequency)
  BY <1>1, <1>r, <1>3 DEF Holds, IInv, RuleInv, FreqInv
<1>7. executions[r] > 0 \/ (w.status = "lost" /\ r \in lost')
  <2>1. CASE worker[s][t].pc = "request"
    BY <1>2, <1>3, <2>1
  <2>2. CASE worker[s][t].pc = "running"
    <3>1. Executor(s, t, r)
      BY <1>6, <2>2 DEF Executor
    <3> QED BY <1>6, <2>2, <3>1 DEF RuleInv, CountInv
  <2> QED BY <1>1, <2>1, <2>2
<1>8. ASSUME Bounded(r)
      PROVE  /\ executions[r] <= Budget(r) + unlocks[r]
             /\ catalog[r] # NoRow =>
                  /\ w.freq = catalog[r].freq
                  /\ executions[r] + Left(catalog[r].freq) <= Budget(r) + unlocks[r] + 1
  <2>1. BudgetInv(r) /\ (catalog[r] = NoRow \/ catalog[r].lock = s) /\ s # NoLock
    BY <1>6, <1>8, DelayServerAssumption DEF RuleInv, LockInv
  <2> QED BY <1>1, <1>3, <1>6, <2>1 DEF BudgetInv
<1>9. RuleInv(r)'
  BY <1>1, <1>3, <1>6, <1>7, <1>8, ExecutedRule
<1>10. ASSUME NEW q \in Rules, q # r PROVE RuleInv(q)'
  BY <1>1, <1>3, <1>10, OtherRule DEF IInv
<1> QED BY <1>4, <1>5, <1>9, <1>10 DEF IInv

-----------------------------------------------------------------------------
(* The end of an execution                                                 *)

\* getNextRepeatTime counts down, and ends the rule rather than reach zero.
LEMMA NextRepeatCountsDown ==
    ASSUME NEW f \in Frequency, NEW n \in NextRepeat(f)
    PROVE  /\ n.freq \in Frequency
           /\ f.times >= 1 /\ n.action # 2 =>
                n.action \in {3, 4} /\ n.freq.times >= 1 /\ n.freq.times = f.times - 1
<1>1. /\ f.times \in Nat /\ f.until_success \in BOOLEAN /\ f.deadline \in BOOLEAN
  BY DEF Frequency
<1>2. CASE n.action = 2 /\ n.freq = f
  BY <1>1, <1>2
<1>3. CASE f.times = 0 /\ n.freq = f
  BY <1>1, <1>3, SMT
<1> DEFINE rest == [until_success |-> f.until_success, times |-> f.times - 1,
                    deadline |-> f.deadline]
<1>4. CASE f.times # 0 /\ f.times # 1 /\ n.action \in {3, 4} /\ n.freq = rest
  <2>1. f.times - 1 \in Nat /\ f.times - 1 >= 1
    BY <1>1, <1>4, SMT
  <2>2. rest \in Frequency /\ rest.times = f.times - 1
    BY <1>1, <2>1 DEF Frequency
  <2> QED BY <1>4, <2>1, <2>2
<1>5. \/ n.action = 2 /\ n.freq = f
      \/ f.times = 0 /\ n.freq = f
      \/ f.times # 0 /\ f.times # 1 /\ n.action \in {3, 4} /\ n.freq = rest
  BY SMT DEF NextRepeat
<1> QED BY <1>2, <1>3, <1>4, <1>5

\* The row that update_entry_for_repeat writes.
LEMMA RepeatedRow ==
    ASSUME Types, NEW r \in Rules, catalog[r] # NoRow, NEW f \in Frequency, NEW status,
           NEW row \in Repeated(r, f, status)
    PROVE  /\ row \in Rows \cup {NoRow}
           /\ row # NoRow => row.lock = NoLock
           /\ row # NoRow /\ catalog[r].freq # NoFrequency => row.freq # NoFrequency
           /\ row # NoRow /\ f.times >= 1 => Left(row.freq) >= 1 /\ Left(row.freq) = f.times - 1
<1>1. PICK n \in NextRepeat(f) :
        row = IF n.action = 2 \/ (n.action \in {1, 4} /\ status = "ok") THEN NoRow
              ELSE Row(FALSE, NoLock, IF n.action \in {3, 4} THEN n.freq ELSE catalog[r].freq)
  BY DEF Repeated
<1>2. /\ n.freq \in Frequency /\ n.freq # NoFrequency
      /\ f.times >= 1 /\ n.action # 2 =>
           n.action \in {3, 4} /\ n.freq.times >= 1 /\ n.freq.times = f.times - 1
  BY NextRepeatCountsDown, DelayServerAssumption, SMT
<1>3. CASE row = NoRow
  BY <1>3
<1>4. CASE row # NoRow
  <2> DEFINE g == IF n.action \in {3, 4} THEN n.freq ELSE catalog[r].freq
  <2>1. n.action # 2 /\ row = Row(FALSE, NoLock, g)
    BY <1>1, <1>4
  <2>2. g \in Frequency \cup {NoFrequency}
    BY <1>2, RowOfRule
  <2>3. f.times >= 1 => g = n.freq
    BY <1>2, <2>1
  <2> HIDE DEF g
  <2>4. row \in Rows /\ row.lock = NoLock /\ row.freq = g
    BY <2>1, <2>2 DEF Row, Rows
  <2>5. catalog[r].freq # NoFrequency => g # NoFrequency
    BY <1>2 DEF g
  <2> QED BY <1>2, <2>1, <2>3, <2>4, <2>5 DEF Left
<1> QED BY <1>3, <1>4

\* The executor of a rule deletes or reschedules it.
LEMMA UpdatedRule ==
    ASSUME IInv, NEW s \in Servers, NEW t \in Threads, NEW r \in Rules, Executor(s, t, r),
           NEW w \in Workers, Set(s, t, w), w.pc = "dequeue", UNCHANGED history,
           catalog[r] # NoRow, NEW row \in Rows \cup {NoRow}, catalog' = With(r, row),
           row # NoRow => /\ row.lock = NoLock
                          /\ Left(worker[s][t].freq) >= 1 =>
                               /\ Left(row.freq) >= 1
                               /\ Left(row.freq) = Left(worker[s][t].freq) - 1
                          /\ row.freq = NoFrequency <=> submitted[r] = NoFrequency,
           executions[r] > 0 \/ (r \in lost /\ submitted[r] = NoFrequency)
    PROVE  RuleInv(r)'
<1>1. Types /\ RuleInv(r) /\ Holds(s, t, r) /\ worker[s][t].pc # "info"
  BY DEF IInv, Executor
<1>2. \A s2 \in Servers, t2 \in Threads : ~ Holds(s2, t2, r)'
  <2>1. \A s2 \in Servers, t2 \in Threads : Holds(s2, t2, r) => s2 = s /\ t2 = t
    BY <1>1 DEF RuleInv, LockInv
  <2> QED BY <1>1, <2>1, WorkerMoves, SMT DEF Holds
<1>3. /\ submitted'[r] = submitted[r] /\ executions'[r] = executions[r]
      /\ unlocks'[r] = unlocks[r] /\ catalog'[r] = row /\ lost' = lost
  BY <1>1, CatalogWith DEF history
<1>4. submitted[r] # NoRow
  BY <1>1 DEF RuleInv, LockInv
<1>5. LockInv(r)' /\ FreqInv(r)'
  BY <1>2, <1>3, <1>4 DEF LockInv, FreqInv
<1>6. CountInv(r)'
  BY <1>2, <1>3, <1>4 DEF CountInv, Executor
<1>7. ASSUME Bounded(r)' PROVE BudgetInv(r)'
  <2>1. Bounded(r) /\ Budget(r)' = Budget(r) /\ Left(catalog[r].freq)' = Left(row.freq)
    BY <1>3, <1>7 DEF Bounded, Budget, Left
  <2>2. BudgetInv(r) /\ catalog[r].lock = s /\ s # NoLock
    BY <1>1, <2>1, DelayServerAssumption DEF RuleInv, LockInv
  <2>3. worker[s][t].freq = catalog[r].freq
    BY <1>1, <2>2 DEF BudgetInv
  <2>4. /\ executions[r] <= Budget(r) + unlocks[r] /\ Left(catalog[r].freq) >= 1
        /\ executions[r] + Left(catalog[r].freq) <= Budget(r) + unlocks[r] + 1
    BY <2>2 DEF BudgetInv
  <2>5. /\ executions[r] \in Nat /\ unlocks[r] \in Nat /\ Budget(r) \in Nat
        /\ Left(catalog[r].freq) \in Nat
    BY <1>1, <2>1, Numbers
  <2>6. row # NoRow => /\ row.lock = NoLock /\ Left(row.freq) >= 1
                       /\ executions[r] + Left(row.freq) <= Budget(r) + unlocks[r]
    BY <2>3, <2>4, <2>5, SMT
  <2> QED BY <1>2, <1>3, <2>1, <2>4, <2>5, <2>6, SMTT(20) DEF BudgetInv
<1> QED BY <1>5, <1>6, <1>7 DEF RuleInv

LEMMA UpdateRuleStep ==
    ASSUME IInv, NEW s \in Servers, NEW t \in Threads, UpdateRule(s, t)
    PROVE  IInv'
<1>1. /\ Types /\ worker[s][t] # Idle /\ worker[s][t].rule \in Rules
      /\ worker[s][t].freq \in Frequency \cup {NoFrequency}
      /\ worker[s][t].pc = "update" /\ UNCHANGED <<pc, pool, history>>
  BY BusyThread DEF IInv, UpdateRule
<1>r. PICK r \in Rules : r = worker[s][t].rule
  BY <1>1
<1> DEFINE w == Worker("dequeue", r, NoFrequency, "none")
           f == worker[s][t].freq
           status == worker[s][t].status
<1>2. Set(s, t, w)
  BY <1>r DEF UpdateRule
<1>3. w \in Workers /\ w.pc = "dequeue" /\ w.rule = r
  BY DEF Worker, Workers, WorkerPC
<1> HIDE DEF w
<1>p. \A s2 \in Servers : ProcessInv(s2)'
  <2>1. \A s2 \in Servers : ProcessInv(s2)
    BY DEF IInv
  <2>2. pc' = pc /\ pool' = pool /\ w.pc \notin {"contains", "enqueue"}
    BY <1>1, <1>3
  <2> QED BY <1>1, <1>2, <1>3, <2>1, <2>2, ProcessOfThreadStep
<1>x. Executor(s, t, r) /\ Holds(s, t, r) /\ CountInv(r) /\ FreqInv(r)
  BY <1>1, <1>r DEF Executor, Holds, IInv, RuleInv
<1>4. CASE UNCHANGED catalog
  BY <1>1, <1>2, <1>3, <1>4, QuietThreadStep
<1>5. ASSUME catalog[r] # NoRow, status # "lost" \/ f = NoFrequency,
             NEW row \in IF f = NoFrequency THEN {NoRow} ELSE Repeated(r, f, status),
             catalog' = With(r, row)
      PROVE  IInv'
  <2>1. /\ row \in Rows \cup {NoRow}
        /\ row # NoRow => /\ row.lock = NoLock
                          /\ Left(f) >= 1 => Left(row.freq) >= 1 /\ Left(row.freq) = Left(f) - 1
                          /\ row.freq = NoFrequency <=> submitted[r] = NoFrequency
    <3>1. CASE f = NoFrequency
      BY <1>5, <3>1
    <3>2. CASE f # NoFrequency
      <4>1. f \in Frequency /\ row \in Repeated(r, f, status) /\ Left(f) = f.times
        BY <1>1, <1>5, <3>2 DEF Left
      <4>2. submitted[r] # NoFrequency /\ catalog[r].freq # NoFrequency
        BY <1>1, <1>5, <1>x, <3>2 DEF FreqInv
      <4> HIDE DEF f, status
      <4> QED BY <1>1, <1>5, <4>1, <4>2, RepeatedRow
    <3> QED BY <3>1, <3>2
  <2>2. Types'
    <3>1. catalog' \in [Rules -> Rows \cup {NoRow}]
      BY <1>1, <1>5, <2>1, CatalogWith
    <3>2. worker' \in [Servers -> [Threads -> Workers]]
      BY <1>1, <1>2, <1>3, WorkerMoves
    <3>3. UNCHANGED <<pc, pool, submitted, executions, unlocks>>
      BY <1>1 DEF history
    <3> QED BY <1>1, <3>1, <3>2, <3>3 DEF Types
  <2>3. /\ Executor(s, t, r)
        /\ executions[r] > 0 \/ (r \in lost /\ submitted[r] = NoFrequency)
    BY <1>1, <1>5, <1>x DEF CountInv, FreqInv
  <2>4. RuleInv(r)'
    <3>1. /\ row \in Rows \cup {NoRow} /\ catalog[r] # NoRow /\ catalog' = With(r, row)
          /\ row # NoRow => /\ row.lock = NoLock
                            /\ Left(worker[s][t].freq) >= 1 =>
                                 /\ Left(row.freq) >= 1
                                 /\ Left(row.freq) = Left(worker[s][t].freq) - 1
                            /\ row.freq = NoFrequency <=> submitted[r] = NoFrequency
      BY <1>5, <2>1
    <3>2. UNCHANGED history
      BY <1>1
    <3> QED BY <1>2, <1>3, <2>3, <3>1, <3>2, UpdatedRule
  <2>5. ASSUME NEW q \in Rules, q # r PROVE RuleInv(q)'
    <3>1. catalog'[q] = catalog[q]
      BY <1>1, <1>5, <2>1, <2>5, CatalogWith
    <3> QED BY <1>1, <1>2, <1>3, <2>5, <3>1, OtherRule DEF IInv, history
  <2> QED BY <1>p, <2>2, <2>4, <2>5 DEF IInv
<1> QED BY <1>r, <1>4, <1>5 DEF UpdateRule

-----------------------------------------------------------------------------
(* Users, the main servers and administrators                              *)

\* A step that changes the row of one rule and no process.
LEMMA RowStep ==
    ASSUME IInv, NEW r \in Rules, NEW row \in Rows \cup {NoRow}, catalog' = With(r, row),
           UNCHANGED <<pc, pool, worker>>,
           submitted' \in [Rules -> Frequency \cup {NoFrequency, NoRow}],
           executions' = executions, unlocks' \in [Rules -> 0..MaxUnlocks],
           deleted \subseteq deleted', lost' = lost,
           \A q \in Rules : q # r => submitted'[q] = submitted[q] /\ unlocks'[q] = unlocks[q],
           RuleInv(r)'
    PROVE  IInv'
<1>1. Types /\ catalog' \in [Rules -> Rows \cup {NoRow}]
      /\ \A q \in Rules : q # r => catalog'[q] = catalog[q]
  BY CatalogWith DEF IInv
<1>2. Types'
  BY <1>1 DEF Types
<1>3. \A s \in Servers : ProcessInv(s)'
  BY DEF IInv, ProcessInv, NoJobs, Alive
<1>4. ASSUME NEW q \in Rules, q # r PROVE RuleInv(q)'
  BY <1>1, <1>4, RuleUntouched DEF IInv, Holds
<1> QED BY <1>2, <1>3, <1>4 DEF IInv

LEMMA SubmitStep ==
    ASSUME IInv, NEW r \in Rules, Submit(r)
    PROVE  IInv'
<1>1. PICK f \in Frequencies : /\ catalog' = With(r, Row(FALSE, NoLock, f))
                               /\ submitted' = [submitted EXCEPT ![r] = f]
  BY DEF Submit
<1>2. f \in Frequency \cup {NoFrequency} /\ f # NoRow
  BY DelayServerAssumption
<1> DEFINE row == Row(FALSE, NoLock, f)
<1>3. row \in Rows /\ row.lock = NoLock /\ row.freq = f
  BY <1>2 DEF Row, Rows
<1>4. row # NoRow
  BY <1>3, DelayServerAssumption
<1> HIDE DEF row
<1>5. Types /\ RuleInv(r) /\ submitted[r] = NoRow
      /\ UNCHANGED <<pc, pool, worker, executions, unlocks, deleted, lost>>
  BY DEF IInv, Submit
<1>6. catalog'[r] = row /\ submitted'[r] = f
      /\ submitted' \in [Rules -> Frequency \cup {NoFrequency, NoRow}]
  BY <1>1, <1>2, <1>3, <1>5, CatalogWith DEF Types, row
<1>7. \A s \in Servers, t \in Threads : ~ Holds(s, t, r) /\ ~ Holds(s, t, r)'
  BY <1>5 DEF RuleInv, LockInv, Holds
<1>8. executions[r] = 0
  BY <1>5 DEF RuleInv, CountInv
<1>9. LockInv(r)' /\ CountInv(r)' /\ FreqInv(r)'
  BY <1>2, <1>3, <1>4, <1>6, <1>7 DEF LockInv, CountInv, FreqInv, Executor
<1>10. ASSUME Bounded(r)' PROVE BudgetInv(r)'
  <2>1. Budget(r)' = Left(f) /\ Left(f) >= 1 /\ Left(f) \in Nat
    BY <1>2, <1>6, <1>10, SMT DEF Bounded, Budget, Left, Frequency
  <2>2. unlocks[r] \in Nat
    BY <1>5, Numbers
  <2> QED BY <1>3, <1>5, <1>6, <1>7, <1>8, <2>1, <2>2, SMT DEF BudgetInv, Left
<1>11. RuleInv(r)'
  BY <1>9, <1>10 DEF RuleInv
<1> QED BY <1>1, <1>3, <1>5, <1>6, <1>11, RowStep DEF IInv, Types, Submit, row

\* The row gets due or loses the lock of a process that no longer runs.
LEMMA RowTouched ==
    ASSUME IInv, NEW r \in Rules, catalog[r] # NoRow,
           NEW d \in BOOLEAN, NEW l \in {catalog[r].lock, NoLock},
           catalog' = With(r, Row(d, l, catalog[r].freq)),
           UNCHANGED <<worker, submitted, executions, deleted, lost>>,
           unlocks'[r] = unlocks[r] + (IF l = catalog[r].lock THEN 0 ELSE 1),
           l # catalog[r].lock => \A s \in Servers, t \in Threads : ~ Holds(s, t, r)
    PROVE  RuleInv(r)' /\ Row(d, l, catalog[r].freq) \in Rows
<1>1. Types /\ RuleInv(r)
  BY DEF IInv
<1>2. Row(d, l, catalog[r].freq) \in Rows /\ Row(d, l, catalog[r].freq) # NoRow
  BY <1>1, RowOfRule, RowInRows
<1>3. catalog'[r] # NoRow /\ catalog'[r].lock = l /\ catalog'[r].freq = catalog[r].freq
  BY <1>1, <1>2, RowFields, CatalogWith, SMT
<1>4. \A s \in Servers, t \in Threads : Holds(s, t, r)' <=> Holds(s, t, r)
  BY DEF Holds
<1>a. LockInv(r) /\ CountInv(r) /\ FreqInv(r) /\ (Bounded(r) => BudgetInv(r))
  BY <1>1 DEF RuleInv
<1>5. LockInv(r)'
  <2>1. submitted'[r] = submitted[r] /\ submitted[r] # NoRow
    BY <1>a DEF LockInv
  <2>2. ASSUME NEW s \in Servers, NEW t \in Threads, Holds(s, t, r)'
        PROVE  catalog'[r].lock = s
    <3>1. Holds(s, t, r)
      BY <1>4, <2>2
    <3>2. catalog[r].lock = s
      BY <1>a, <3>1 DEF LockInv
    <3> QED BY <1>3, <3>1, <3>2
  <2>3. ASSUME NEW s1 \in Servers, NEW s2 \in Servers, NEW t1 \in Threads, NEW t2 \in Threads,
               Holds(s1, t1, r)', Holds(s2, t2, r)'
        PROVE  s1 = s2 /\ t1 = t2
    BY <1>a, <1>4, <2>3, SMT DEF LockInv
  <2> QED BY <2>1, <2>2, <2>3 DEF LockInv
<1>6. CountInv(r)' /\ FreqInv(r)'
  BY <1>a, <1>3, <1>4 DEF CountInv, FreqInv, Executor
<1>7. ASSUME Bounded(r)' PROVE BudgetInv(r)'
  <2>1. Bounded(r) /\ Budget(r)' = Budget(r)
        /\ Left(catalog[r].freq)' = Left(catalog[r].freq)
    BY <1>3, <1>7 DEF Bounded, Budget, Left
  <2>2. BudgetInv(r)
    BY <1>a, <2>1
  <2>3. /\ executions[r] \in Nat /\ unlocks[r] \in Nat /\ Budget(r) \in Nat
        /\ Left(catalog[r].freq) \in Nat
    BY <1>1, <2>1, Numbers
  <2>4. /\ executions'[r] = executions[r] /\ worker' = worker
        /\ unlocks'[r] \in Nat /\ unlocks'[r] >= unlocks[r]
        /\ l # catalog[r].lock => unlocks'[r] = unlocks[r] + 1
    BY <2>3, SMT
  <2>5. executions'[r] <= Budget(r)' + unlocks'[r]
    BY <2>1, <2>2, <2>3, <2>4, SMT DEF BudgetInv
  <2>6. /\ Left(catalog'[r].freq) >= 1
        /\ executions'[r] + Left(catalog'[r].freq)
             <= Budget(r)' + unlocks'[r] + (IF catalog'[r].lock = NoLock THEN 0 ELSE 1)
    <3>1. /\ Left(catalog[r].freq) >= 1
          /\ executions[r] + Left(catalog[r].freq)
               <= Budget(r) + unlocks[r] + (IF catalog[r].lock = NoLock THEN 0 ELSE 1)
      BY <2>2 DEF BudgetInv
    <3>2. CASE l = catalog[r].lock
      BY <1>3, <2>1, <2>3, <2>4, <3>1, <3>2, SMT
    <3>3. CASE l # catalog[r].lock
      BY <1>3, <2>1, <2>3, <2>4, <3>1, <3>3, SMT
    <3> QED BY <3>2, <3>3
  <2>7. ASSUME NEW s \in Servers, NEW t \in Threads, Holds(s, t, r)'
        PROVE  /\ worker'[s][t].pc = "request" => executions'[r] + 1 <= Budget(r)' + unlocks'[r]
               /\ worker'[s][t].pc \in {"info", "request"} =>
                    executions'[r] + Left(catalog'[r].freq) <= Budget(r)' + unlocks'[r]
               /\ worker'[s][t].pc # "info" => worker'[s][t].freq = catalog'[r].freq
    <3>1. Holds(s, t, r)
      BY <1>4, <2>7
    <3>2. /\ worker[s][t].pc = "request" => executions[r] + 1 <= Budget(r) + unlocks[r]
          /\ worker[s][t].pc \in {"info", "request"} =>
               executions[r] + Left(catalog[r].freq) <= Budget(r) + unlocks[r]
          /\ worker[s][t].pc # "info" => worker[s][t].freq = catalog[r].freq
      BY <2>2, <3>1 DEF BudgetInv
    <3> QED BY <1>3, <2>1, <2>3, <2>4, <3>2, SMT
  <2> QED BY <2>5, <2>6, <2>7 DEF BudgetInv, Left
<1> QED BY <1>2, <1>5, <1>6, <1>7 DEF RuleInv

LEMMA BecomeDueStep ==
    ASSUME IInv, NEW r \in Rules, BecomeDue(r)
    PROVE  IInv'
<1>1. /\ Types /\ catalog[r] # NoRow
      /\ catalog' = With(r, Row(TRUE, catalog[r].lock, catalog[r].freq))
      /\ UNCHANGED <<pc, pool, worker, history>>
  BY DEF BecomeDue, IInv
<1>2. unlocks[r] \in Nat
  BY <1>1, Numbers
<1>3. RuleInv(r)' /\ Row(TRUE, catalog[r].lock, catalog[r].freq) \in Rows
  <2>1. unlocks'[r] = unlocks[r] + 0
    BY <1>1, <1>2, SMT DEF history
  <2>2. TRUE \in BOOLEAN
    OBVIOUS
  <2> QED BY <1>1, <2>1, <2>2, RowTouched DEF history
<1> QED BY <1>1, <1>3, RowStep DEF Types, history

LEMMA UnlockRuleStep ==
    ASSUME IInv, NEW r \in Rules, UnlockRule(r)
    PROVE  IInv'
<1>1. /\ Types /\ RuleInv(r) /\ catalog[r] # NoRow /\ catalog[r].lock # NoLock
      /\ ~ Alive(catalog[r].lock) /\ unlocks[r] < MaxUnlocks
      /\ catalog' = With(r, Row(catalog[r].due, NoLock, catalog[r].freq))
      /\ unlocks' = [unlocks EXCEPT ![r] = @ + 1]
      /\ UNCHANGED <<pc, pool, worker, submitted, executions, deleted, lost>>
  BY DEF UnlockRule, IInv
<1>2. unlocks' \in [Rules -> 0..MaxUnlocks] /\ unlocks'[r] = unlocks[r] + 1
  BY <1>1, DelayServerAssumption, SMT DEF Types
<1>3. ASSUME NEW s \in Servers, NEW t \in Threads, Holds(s, t, r) PROVE FALSE
  <2>1. catalog[r].lock = s
    BY <1>1, <1>3 DEF RuleInv, LockInv
  <2>2. worker[s][t] = Idle
    BY <1>1, <2>1 DEF IInv, ProcessInv
  <2> QED BY <1>3, <2>2, IdleInWorkers DEF Holds
<1>4. catalog[r].due \in BOOLEAN
  BY <1>1, RowOfRule
<1>5. RuleInv(r)' /\ Row(catalog[r].due, NoLock, catalog[r].freq) \in Rows
  BY <1>1, <1>2, <1>3, <1>4, RowTouched
<1> QED BY <1>1, <1>2, <1>5, RowStep DEF Types

LEMMA DeleteRuleStep ==
    ASSUME IInv, NEW r \in Rules, DeleteRule(r)
    PROVE  IInv'
<1>1. /\ Types /\ RuleInv(r) /\ catalog' = With(r, NoRow) /\ deleted' = deleted \cup {r}
      /\ catalog[r] # NoRow
      /\ UNCHANGED <<pc, pool, worker, submitted, executions, unlocks, lost>>
  BY DEF DeleteRule, IInv
<1>2. catalog'[r] = NoRow
  BY <1>1, CatalogWith
<1>3. \A s \in Servers, t \in Threads : Holds(s, t, r)' <=> Holds(s, t, r)
  BY <1>1 DEF Holds
<1>a. LockInv(r) /\ CountInv(r) /\ FreqInv(r)
  BY <1>1 DEF RuleInv
<1>b. LockInv(r)'
  <2>1. ASSUME NEW s \in Servers, NEW t \in Threads, Holds(s, t, r)'
        PROVE  submitted'[r] # NoRow
    BY <1>a, <1>1, <1>3, <2>1 DEF LockInv
  <2>2. ASSUME NEW s1 \in Servers, NEW s2 \in Servers, NEW t1 \in Threads, NEW t2 \in Threads,
               Holds(s1, t1, r)', Holds(s2, t2, r)'
        PROVE  s1 = s2 /\ t1 = t2
    BY <1>a, <1>3, <2>2 DEF LockInv
  <2> QED BY <1>2, <2>1, <2>2 DEF LockInv
<1>4. CountInv(r)' /\ FreqInv(r)'
  BY <1>a, <1>1, <1>2, <1>3 DEF CountInv, FreqInv, Executor
<1>5. ASSUME Bounded(r)' PROVE BudgetInv(r)'
  <2>1. Bounded(r) /\ Budget(r)' = Budget(r)
    BY <1>1, <1>5 DEF Bounded, Budget
  <2>2. BudgetInv(r)
    BY <1>1, <2>1 DEF RuleInv
  <2> QED BY <1>1, <1>2, <1>3, <2>1, <2>2 DEF BudgetInv
<1>6. RuleInv(r)'
  BY <1>b, <1>4, <1>5 DEF RuleInv
<1> QED BY <1>1, <1>6, RowStep DEF Types

\* Processes start and are told to stop; the leader moves.
LEMMA ProcessSteps ==
    ASSUME IInv,
           \/ \E s \in Servers : Launch(s) \/ Terminate(s)
           \/ \E h \in Hosts : MoveLeader(h)
    PROVE  IInv'
<1>1. UNCHANGED <<catalog, pool, worker, history>>
  BY DEF Launch, Terminate, MoveLeader
<1>2. \A r \in Rules : RuleInv(r)'
  BY <1>1, RuleUntouched DEF IInv, history, Holds
<1>3. CASE UNCHANGED pc
  <2>1. Types'
    BY <1>1, <1>3 DEF IInv, Types, history
  <2>2. \A s \in Servers : ProcessInv(s)'
    BY <1>1, <1>3, OtherProcess DEF IInv
  <2> QED BY <1>2, <2>1, <2>2 DEF IInv
<1>4. ASSUME NEW s \in Servers, pc[s] = "off", pc' = [pc EXCEPT ![s] = "loop"] PROVE IInv'
  <2>1. Types'
    BY <1>1, <1>4 DEF IInv, Types, history, MainPC
  <2>2. ProcessInv(s)'
    BY <1>1, <1>4 DEF IInv, Types, ProcessInv, NoJobs, Alive
  <2>3. ASSUME NEW q \in Servers, q # s PROVE ProcessInv(q)'
    BY <1>1, <1>4, <2>3, OtherProcess DEF IInv, Types
  <2> QED BY <1>2, <2>1, <2>2, <2>3 DEF IInv
<1> QED BY <1>3, <1>4 DEF Launch, Terminate, MoveLeader

-----------------------------------------------------------------------------

LEMMA InitIInv == Init => IInv
<1> SUFFICES ASSUME Init PROVE IInv
  OBVIOUS
<1>1. Types
  BY IdleInWorkers, DelayServerAssumption, SMT DEF Init, Types, MainPC
<1>2. ASSUME NEW s \in Servers PROVE ProcessInv(s)
  BY IdleInWorkers, SMT DEF Init, ProcessInv, NoJobs
<1>3. ASSUME NEW r \in Rules PROVE RuleInv(r)
  <2>1. \A s \in Servers, t \in Threads : ~ Holds(s, t, r)
    BY IdleInWorkers DEF Init, Holds
  <2>2. catalog[r] = NoRow /\ submitted[r] = NoRow /\ executions[r] = 0
    BY DEF Init
  <2>3. ~ Bounded(r)
    BY <2>2, DelayServerAssumption DEF Bounded
  <2> QED BY <2>1, <2>2, <2>3 DEF RuleInv, LockInv, CountInv, FreqInv, Executor
<1> QED BY <1>1, <1>2, <1>3 DEF IInv

LEMMA NextIInv == IInv /\ [Next]_vars => IInv'
<1> SUFFICES ASSUME IInv, [Next]_vars PROVE IInv'
  OBVIOUS
<1>1. ASSUME NEW s \in Servers, Main(s) PROVE IInv'
  BY <1>1, MainStep
<1>2. ASSUME NEW s \in Servers, Crash(s) PROVE IInv'
  BY <1>2, DieStep DEF Crash
<1>3. ASSUME NEW s \in Servers, NEW t \in Threads, Work(s, t) PROVE IInv'
  BY <1>3, TakeTaskStep, EnqueueStep, OtherThreadSteps, LockRuleStep,
     FillRuleExecSubmitInpStep, ExecuteRuleStep, CallEndsStep, UpdateRuleStep DEF Work
<1>4. ASSUME NEW r \in Rules, Submit(r) \/ BecomeDue(r) \/ DeleteRule(r) \/ UnlockRule(r)
      PROVE  IInv'
  BY <1>4, SubmitStep, BecomeDueStep, DeleteRuleStep, UnlockRuleStep
<1>5. CASE UNCHANGED vars
  <2>1. Types'
    BY <1>5 DEF IInv, Types, vars
  <2>2. \A s \in Servers : ProcessInv(s)'
    BY <1>5, OtherProcess DEF IInv, vars
  <2>3. \A r \in Rules : RuleInv(r)'
    BY <1>5, RuleUntouched DEF IInv, vars, Holds
  <2> QED BY <2>1, <2>2, <2>3 DEF IInv
<1> QED BY <1>1, <1>2, <1>3, <1>4, <1>5, ProcessSteps DEF Next

LEMMA IInvImplies == IInv => OneExecutor /\ BudgetIsKept /\ NotDroppedUnexecuted
  BY DEF IInv, RuleInv, LockInv, CountInv, BudgetInv, OneExecutor, BudgetIsKept,
         NotDroppedUnexecuted

\* However many delay servers run, die or are replaced, a delay rule is executed
\* by at most one thread of one of them at a time: the conditional update of
\* the lock columns suffices, whatever the delay queues hold.
THEOREM DelayRuleHasOneExecutor == Spec => []OneExecutor
  BY InitIInv, NextIInv, IInvImplies, PTL DEF Spec

\* Rows queried before an execution, lost answers, failed updates and dead
\* servers never make a rule run more often than its frequency allows, beyond
\* the executions an administrator asks for by unlocking it.
THEOREM DelayRuleKeepsBudget == Spec => []BudgetIsKept
  BY InitIInv, NextIInv, IInvImplies, PTL DEF Spec

\* A delay rule that no user deletes leaves the catalog only after an execution,
\* or, when it has no frequency, after the loss of the request to execute it:
\* execute_rule deletes it then, since it cannot tell that loss from the loss of
\* an answer.  A rule with a frequency is never dropped unexecuted.
THEOREM DelayRuleIsNotDropped == Spec => []NotDroppedUnexecuted
  BY InitIInv, NextIInv, IInvImplies, PTL DEF Spec

-----------------------------------------------------------------------------
(* The delay queues                                                        *)

\* dequeue_rule erases the first entry of the rule and leaves rule ids.
LEMMA DequeueRuleType ==
    ASSUME NEW q \in Seq(Rules), NEW r
    PROVE  DequeueRule(q, r) \in Seq(Rules)
<1> DEFINE first == {i \in DOMAIN q : q[i] = r /\ \A j \in 1..(i - 1) : q[j] # r}
           i == CHOOSE i \in first : TRUE
<1>1. CASE first = {}
  BY <1>1 DEF DequeueRule
<1>2. CASE first # {}
  <2>1. DequeueRule(q, r) = SubSeq(q, 1, i - 1) \o SubSeq(q, i + 1, Len(q))
    BY <1>2 DEF DequeueRule
  <2>2. i \in first
    BY <1>2
  <2>3. i \in 1..Len(q) /\ Len(q) \in Nat
    BY <2>2, SMT
  <2> HIDE DEF i, first
  <2>4. SubSeq(q, 1, i - 1) \in Seq(Rules) /\ SubSeq(q, i + 1, Len(q)) \in Seq(Rules)
    BY <2>3, SMT
  <2> QED BY <2>1, <2>4, ConcatenationIsSequence
<1> QED BY <1>1, <1>2

\* What TypeOK says beyond Types.
OtherTypes ==
    /\ leader \in Hosts
    /\ g_terminate \in [Servers -> BOOLEAN]
    /\ queue \in [Servers -> Seq(Rules)]
    /\ deleted \subseteq Rules
    /\ lost \subseteq Rules

LEMMA QueueChanges ==
    ASSUME OtherTypes, NEW s \in Servers, NEW q \in Seq(Rules),
           queue' = queue \/ queue' = [queue EXCEPT ![s] = q],
           leader' = leader, g_terminate' = g_terminate, deleted' = deleted,
           lost' \subseteq Rules
    PROVE  OtherTypes'
  BY DEF OtherTypes

\* Threads of the pool only queue the rules of their tasks.
LEMMA WorkKeepsTypes ==
    ASSUME IInv, OtherTypes, NEW s \in Servers, NEW t \in Threads, Work(s, t)
    PROVE  OtherTypes'
<1>1. /\ leader' = leader /\ g_terminate' = g_terminate /\ deleted' = deleted
      /\ lost' \subseteq Rules
  <2>1. CASE RequestIsLost(s, t)
    <3>1. worker[s][t].rule \in Rules
      BY <2>1, BusyThread DEF IInv, RequestIsLost
    <3> QED BY <2>1, <3>1 DEF RequestIsLost, OtherTypes
  <2> QED BY <2>1 DEF Work, TakeTask, Contains, Enqueue, LockRule, ConnectFails,
         FillRuleExecSubmitInp, ExecuteRule, RuleReturns, UpdateRule, Dequeue, ScopeExit, Die,
         history, OtherTypes
<1>2. /\ queue[s] \in Seq(Rules) /\ << >> \in Seq(Rules)
      /\ DequeueRule(queue[s], worker[s][t].rule) \in Seq(Rules)
  BY DequeueRuleType, SMT DEF OtherTypes
<1>3. CASE queue' = queue
  BY <1>1, <1>3 DEF OtherTypes
<1>4. CASE Enqueue(s, t) /\ queue' # queue
  <2>1. worker[s][t].rule \in Rules
    BY <1>4, BusyThread DEF IInv, Enqueue
  <2>2. Append(queue[s], worker[s][t].rule) \in Seq(Rules)
    BY <1>2, <2>1, SMT
  <2>3. queue' = [queue EXCEPT ![s] = Append(queue[s], worker[s][t].rule)]
    BY <1>4 DEF Enqueue
  <2> QED BY <1>1, <2>2, <2>3, QueueChanges
<1>5. CASE Die(s)
  BY <1>1, <1>2, <1>5, QueueChanges DEF Die
<1>6. CASE Dequeue(s, t) \/ ScopeExit(s, t)
  <2>1. Die(s) \/ queue' = queue
        \/ queue' = [queue EXCEPT ![s] = DequeueRule(queue[s], worker[s][t].rule)]
    BY <1>6 DEF Dequeue, ScopeExit
  <2> QED BY <1>1, <1>2, <1>3, <1>5, <2>1, QueueChanges
<1>7. queue' = queue \/ Enqueue(s, t) \/ Dequeue(s, t) \/ ScopeExit(s, t)
  BY DEF Work, TakeTask, Contains, LockRule, ConnectFails, FillRuleExecSubmitInp,
         ExecuteRule, RequestIsLost, RuleReturns, UpdateRule
<1> QED BY <1>3, <1>4, <1>6, <1>7

LEMMA NextKeepsTypes == IInv /\ OtherTypes /\ [Next]_vars => OtherTypes'
<1> SUFFICES ASSUME IInv, OtherTypes, [Next]_vars PROVE OtherTypes'
  OBVIOUS
<1>1. ASSUME NEW s \in Servers, Main(s) \/ Launch(s)
      PROVE  OtherTypes'
  BY <1>1 DEF OtherTypes, Main, CheckLeader, Leave, Query, QueryFails, WaitForJobs, WakeUp, Exit,
              Launch, history
<1>2. ASSUME NEW s \in Servers, Terminate(s) PROVE OtherTypes'
  BY <1>2 DEF OtherTypes, Terminate, history
<1>3. ASSUME NEW s \in Servers, Crash(s) PROVE OtherTypes'
  <2>1. << >> \in Seq(Rules)
    BY SMT
  <2>2. /\ queue' = [queue EXCEPT ![s] = << >>]
        /\ leader' = leader /\ g_terminate' = g_terminate /\ deleted' = deleted
        /\ lost' \subseteq Rules
    BY <1>3 DEF Crash, Die, history, OtherTypes
  <2> QED BY <2>1, <2>2, QueueChanges
<1>4. ASSUME NEW r \in Rules, Submit(r) \/ BecomeDue(r) \/ DeleteRule(r) \/ UnlockRule(r)
      PROVE  OtherTypes'
  BY <1>4 DEF OtherTypes, Submit, BecomeDue, DeleteRule, UnlockRule, history
<1>5. ASSUME NEW h \in Hosts, MoveLeader(h) PROVE OtherTypes'
  BY <1>5 DEF OtherTypes, MoveLeader, history
<1>6. CASE UNCHANGED vars
  BY <1>6 DEF OtherTypes, vars
<1> QED BY <1>1, <1>2, <1>3, <1>4, <1>5, <1>6, WorkKeepsTypes DEF Next

\* Rows, tasks, threads and queues are well-formed in every state: a thread that
\* executes or dequeues has a rule, the saturating counts stay in their ranges,
\* and dequeue_rule leaves a queue of rule ids whatever it finds.
THEOREM DelayServerTypes == Spec => []TypeOK
<1>1. Init => OtherTypes
  BY SMT DEF Init, OtherTypes
<1>2. IInv /\ OtherTypes => TypeOK
  BY DEF IInv, Types, OtherTypes, TypeOK
<1> QED BY <1>1, <1>2, InitIInv, NextIInv, NextKeepsTypes, PTL DEF Spec
=============================================================================
