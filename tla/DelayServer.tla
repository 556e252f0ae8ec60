---------------------------- MODULE DelayServer ----------------------------
(***************************************************************************)
(* Delay servers that execute the delay rules of a zone                    *)
(* (server/delay_server/src/irodsDelayServer.cpp).                         *)
(*                                                                         *)
(* A delay server is one process: a main thread that queries the catalog   *)
(* for rules that are due, and a pool of threads that run the tasks posted *)
(* to it in the order of their posting.  Several delay servers can run at  *)
(* the same time: while the zone migrates to another host, and after a     *)
(* reload of the configuration on one host.  They share R_RULE_EXEC, whose *)
(* lock columns decide who executes a rule.                                *)
(*                                                                         *)
(* A step of a thread ends at its next access to the catalog, the delay    *)
(* queue or the pool.                                                      *)
(***************************************************************************)
EXTENDS Integers, Sequences, FiniteSets

CONSTANTS
    Servers,      \* delay server processes, each started once
    Threads,      \* threads of the pool of each of them
    Rules,        \* rule ids, from a sequence of the catalog: never used twice
    Hosts,        \* hosts of the zone
    HostOf,       \* the host of each process
    Priority,     \* priority of each rule
    Frequencies,  \* the frequencies rules are submitted with
    MaxQueue,     \* rules that fit into the memory of the delay queue
    MaxCount,     \* where the count of executions saturates
    MaxUnlocks,   \* how often administrators unlock a rule
    NoRow, NoLock, NoRule, NoFrequency,
    Environment   \* what else happens, see EnvironmentKinds

(* What may happen beside the work of the delay servers:
     "delete"  a user deletes a rule
     "leader"  the zone's delay server moves to another host
     "term"    the main server tells a delay server to stop
     "crash"   a delay server is killed
     "unlock"  an administrator unlocks a rule locked by a dead delay server
     "connect" a connection cannot be made
     "reply"   the answer to the request for the lock of a rule is lost
     "fail"    a rule fails
     "lost"    the connection breaks before a rule is executed, or meanwhile
     "catalog" an update of the catalog fails                               *)
EnvironmentKinds ==
    {"delete", "leader", "term", "crash", "unlock", "connect", "reply", "fail", "lost",
     "catalog"}

Frequency == [until_success : BOOLEAN, times : Nat, deadline : BOOLEAN]

\* The execution time is abstracted to whether it has come.
Rows == [due : BOOLEAN, lock : Servers \cup {NoLock}, freq : Frequency \cup {NoFrequency}]

ASSUME DelayServerAssumption ==
    /\ Environment \subseteq EnvironmentKinds
    /\ HostOf \in [Servers -> Hosts]
    /\ Priority \in [Rules -> 1..9]
    /\ Frequencies \subseteq Frequency \cup {NoFrequency}
    /\ NoFrequency \notin Frequency
    /\ NoRow \notin Rows \cup Frequency \cup {NoFrequency}
    /\ NoLock \notin Servers
    /\ NoRule \notin Rules
    /\ IsFiniteSet(Rules) /\ \A R \in SUBSET Rules : Cardinality(R) \in Nat
    /\ MaxQueue \in Nat /\ MaxCount \in Nat \ {0} /\ MaxUnlocks \in Nat

VARIABLES
    catalog,      \* R_RULE_EXEC
    leader,       \* delay_server.leader in R_GRID_CONFIGURATION
    pc,           \* the main thread of each process
    g_terminate,  \* g_terminate of each process
    queue,        \* delay_queue: the rule ids in it
    pool,         \* tasks posted to the thread pool and not yet started
    worker,       \* the threads of the pool
    submitted,    \* the frequency each rule was submitted with
    executions,   \* how often each rule was executed
    unlocks,      \* how often an administrator unlocked each rule
    deleted,      \* rules deleted by users
    lost          \* rules for which a request to execute them was lost

vars == <<catalog, leader, pc, g_terminate, queue, pool, worker, submitted, executions,
          unlocks, deleted, lost>>

history == <<submitted, executions, unlocks, deleted, lost>>

-----------------------------------------------------------------------------

Row(d, l, f) == [due |-> d, lock |-> l, freq |-> f]

Task(k, r) == [kind |-> k, rule |-> r]

Tasks == [kind : {"job", "execute_rule"}, rule : Rules]

\* rule_exec_submit_inp (its frequency) and the status of the execution.
Worker(p, r, f, s) == [pc |-> p, rule |-> r, freq |-> f, status |-> s]

WorkerPC == {"contains", "enqueue", "lock", "info", "request", "running", "update",
             "dequeue", "scope_exit"}

Idle == Worker("idle", NoRule, NoFrequency, "none")

Workers ==
    [pc : WorkerPC, rule : Rules, freq : Frequency \cup {NoFrequency},
     status : {"none", "ok", "failed", "lost"}] \cup {Idle}

MainPC == {"off", "loop", "query", "wait", "sleep", "exiting", "exited"}

Alive(s) == pc[s] \notin {"off", "exited"}

QueueIsDestroyed(s) == pc[s] = "exiting"

Set(s, t, w) == worker' = [worker EXCEPT ![s][t] = w]

\* The catalog with the row of a rule replaced.
With(r, row) == [catalog EXCEPT ![r] = row]

Unlocked(r) == catalog[r] # NoRow /\ catalog[r].lock = NoLock

-----------------------------------------------------------------------------
(* The main thread                                                         *)

\* The end of main: the delay queue is destroyed first, then the thread pool,
\* which drops the tasks that have not started and joins its threads.
Leave(s) ==
    /\ pc' = [pc EXCEPT ![s] = "exiting"]
    /\ pool' = [pool EXCEPT ![s] = << >>]
    /\ UNCHANGED <<catalog, leader, g_terminate, queue, worker, history>>

CheckLeader(s) ==
    /\ pc[s] = "loop"
    /\ \/ /\ g_terminate[s] \/ leader # HostOf[s] \/ "catalog" \in Environment
          /\ Leave(s)
       \/ /\ ~ g_terminate[s] /\ leader = HostOf[s]
          /\ pc' = [pc EXCEPT ![s] = "query"]
          /\ UNCHANGED <<catalog, leader, g_terminate, queue, pool, worker, history>>

\* Rules that are due and not locked, by descending priority.
QueryResults ==
    LET due == {r \in Rules : Unlocked(r) /\ catalog[r].due} IN
    {q \in [1..Cardinality(due) -> due] :
        /\ \A r \in due : \E i \in DOMAIN q : q[i] = r
        /\ \A i, j \in DOMAIN q : i < j => Priority[q[i]] >= Priority[q[j]]}

\* The query posts one job per row to the pool.
Query(s) ==
    /\ pc[s] = "query"
    /\ \E q \in QueryResults :
        pool' = [pool EXCEPT ![s] = @ \o [i \in DOMAIN q |-> Task("job", q[i])]]
    /\ pc' = [pc EXCEPT ![s] = "wait"]
    /\ UNCHANGED <<catalog, leader, g_terminate, queue, worker, history>>

QueryFails(s) ==
    /\ "catalog" \in Environment
    /\ pc[s] = "query"
    /\ pc' = [pc EXCEPT ![s] = "sleep"]
    /\ UNCHANGED <<catalog, leader, g_terminate, queue, pool, worker, history>>

\* future.get(): every job of the query has been run, what it posted need not.
WaitForJobs(s) ==
    /\ pc[s] = "wait"
    /\ \A i \in DOMAIN pool[s] : pool[s][i].kind # "job"
    /\ \A t \in Threads : worker[s][t].pc \notin {"contains", "enqueue"}
    /\ pc' = [pc EXCEPT ![s] = "sleep"]
    /\ UNCHANGED <<catalog, leader, g_terminate, queue, pool, worker, history>>

WakeUp(s) ==
    /\ pc[s] = "sleep"
    /\ pc' = [pc EXCEPT ![s] = "loop"]
    /\ UNCHANGED <<catalog, leader, g_terminate, queue, pool, worker, history>>

Exit(s) ==
    /\ pc[s] = "exiting"
    /\ \A t \in Threads : worker[s][t] = Idle
    /\ pc' = [pc EXCEPT ![s] = "exited"]
    /\ UNCHANGED <<catalog, leader, g_terminate, queue, pool, worker, history>>

Main(s) ==
    \/ CheckLeader(s) \/ Query(s) \/ QueryFails(s) \/ WaitForJobs(s) \/ WakeUp(s) \/ Exit(s)

-----------------------------------------------------------------------------
(* The threads of the pool                                                 *)

\* A thread takes the oldest task; execute_rule returns at once when the
\* server is to stop.
TakeTask(s, t) ==
    /\ worker[s][t] = Idle
    /\ pool[s] # << >>
    /\ LET k == Head(pool[s]) IN
       Set(s, t, Worker(IF k.kind = "job" THEN "contains"
                        ELSE IF g_terminate[s] THEN "scope_exit" ELSE "lock",
                        k.rule, NoFrequency, "none"))
    /\ pool' = [pool EXCEPT ![s] = Tail(@)]
    /\ UNCHANGED <<catalog, leader, pc, g_terminate, queue, history>>

\* delay_queue::contains_rule_id
ContainsRuleId(q, r) == \E i \in DOMAIN q : q[i] = r

\* delay_queue::dequeue_rule: the first match is erased.
DequeueRule(q, r) ==
    LET first == {i \in DOMAIN q : q[i] = r /\ \A j \in 1..(i - 1) : q[j] # r} IN
    IF first = {} THEN q
    ELSE LET i == CHOOSE i \in first : TRUE IN
         SubSeq(q, 1, i - 1) \o SubSeq(q, i + 1, Len(q))

\* The job of a row: a rule that is queued is skipped.
Contains(s, t) ==
    /\ worker[s][t].pc = "contains"
    /\ LET r == worker[s][t].rule IN
       Set(s, t, IF ContainsRuleId(queue[s], r) THEN Idle
                 ELSE Worker("enqueue", r, NoFrequency, "none"))
    /\ UNCHANGED <<catalog, leader, pc, g_terminate, queue, pool, history>>

\* The rule is queued and its execution posted, unless the memory of the queue
\* is used up.
Enqueue(s, t) ==
    /\ worker[s][t].pc = "enqueue"
    /\ LET r == worker[s][t].rule IN
       IF Len(queue[s]) >= MaxQueue THEN UNCHANGED <<queue, pool>>
       ELSE /\ queue' = [queue EXCEPT ![s] = Append(@, r)]
            /\ pool' = [pool EXCEPT ![s] = Append(@, Task("execute_rule", r))]
    /\ Set(s, t, Idle)
    /\ UNCHANGED <<catalog, leader, pc, g_terminate, history>>

\* Mutant: the update does not ask for empty lock columns.
LockRule_unconditional(s, t) ==
    /\ worker[s][t].pc = "lock"
    /\ catalog[worker[s][t].rule] # NoRow
    /\ LET row == catalog[worker[s][t].rule] IN
       catalog' = With(worker[s][t].rule, Row(row.due, s, row.freq))
    /\ Set(s, t, Worker("info", worker[s][t].rule, NoFrequency, "none"))
    /\ UNCHANGED <<leader, pc, g_terminate, queue, pool, history>>

\* Mutant: the lock names the host and not the process.
LockRule_host_only(s, t) ==
    /\ worker[s][t].pc = "lock"
    /\ Unlocked(worker[s][t].rule)
    /\ LET row == catalog[worker[s][t].rule] IN
       catalog' = With(worker[s][t].rule, Row(row.due, HostOf[s], row.freq))
    /\ Set(s, t, Worker("info", worker[s][t].rule, NoFrequency, "none"))
    /\ UNCHANGED <<leader, pc, g_terminate, queue, pool, history>>

\* execute_rule, up to the answer of rc_delay_rule_lock.  The lock is granted by
\* one update of the row, whose lock columns must be empty.  On an error the
\* code dequeues the rule id of a structure it has not filled yet: nothing.
LockRule(s, t) ==
    /\ worker[s][t].pc = "lock"
    /\ LET r == worker[s][t].rule
           fails == Worker("scope_exit", r, NoFrequency, "none") IN
       \/ /\ ~ Unlocked(r)
          /\ Set(s, t, fails)
          /\ UNCHANGED catalog
       \/ /\ Unlocked(r)
          /\ catalog' = With(r, Row(catalog[r].due, s, catalog[r].freq))
          /\ \/ Set(s, t, Worker("info", r, NoFrequency, "none"))
             \/ "reply" \in Environment /\ Set(s, t, fails)
    /\ UNCHANGED <<leader, pc, g_terminate, queue, pool, history>>

\* The exception of a connection that cannot be made ends the task.
ConnectFails(s, t) ==
    /\ "connect" \in Environment
    /\ worker[s][t].pc = "lock"
    /\ Set(s, t, Worker("scope_exit", worker[s][t].rule, NoFrequency, "none"))
    /\ UNCHANGED <<catalog, leader, pc, g_terminate, queue, pool, history>>

\* Mutant: a rule whose information cannot be read is deleted.
FillRuleExecSubmitInp_deletes(s, t) ==
    /\ worker[s][t].pc = "info"
    /\ catalog' = With(worker[s][t].rule, NoRow)
    /\ Set(s, t, Worker("scope_exit", worker[s][t].rule, NoFrequency, "none"))
    /\ UNCHANGED <<leader, pc, g_terminate, queue, pool, history>>

\* fill_rule_exec_submit_inp, the connection on behalf of the user and the
\* packing of the context.  A failure of any of them returns without unlocking.
FillRuleExecSubmitInp(s, t) ==
    /\ worker[s][t].pc = "info"
    /\ LET r == worker[s][t].rule
           fails == Worker("scope_exit", r, NoFrequency, "none") IN
       \/ /\ catalog[r] = NoRow \/ "connect" \in Environment
          /\ Set(s, t, fails)
       \/ /\ catalog[r] # NoRow
          /\ Set(s, t, Worker("request", r, catalog[r].freq, "none"))
    /\ UNCHANGED <<catalog, leader, pc, g_terminate, queue, pool, history>>

\* rcExecRuleExpression: the request reaches an agent, which executes the rule
\* whatever becomes of the delay server ...
ExecuteRule(s, t) ==
    /\ worker[s][t].pc = "request"
    /\ LET r == worker[s][t].rule IN
       /\ Set(s, t, Worker("running", r, worker[s][t].freq, "none"))
       /\ executions' = [executions EXCEPT ![r] = IF @ < MaxCount THEN @ + 1 ELSE @]
    /\ UNCHANGED <<catalog, leader, pc, g_terminate, queue, pool, submitted, unlocks, deleted,
                   lost>>

\* ... or is lost, which the delay server cannot tell from the loss of an answer ...
RequestIsLost(s, t) ==
    /\ "lost" \in Environment
    /\ worker[s][t].pc = "request"
    /\ Set(s, t, Worker("update", worker[s][t].rule, worker[s][t].freq, "lost"))
    /\ lost' = lost \cup {worker[s][t].rule}
    /\ UNCHANGED <<catalog, leader, pc, g_terminate, queue, pool, submitted, executions,
                   unlocks, deleted>>

\* ... and returns.
RuleReturns(s, t) ==
    /\ worker[s][t].pc = "running"
    /\ \E status \in {"ok"} \cup (IF "fail" \in Environment THEN {"failed"} ELSE {})
                           \cup (IF "lost" \in Environment THEN {"lost"} ELSE {}) :
        Set(s, t, Worker("update", worker[s][t].rule, worker[s][t].freq, status))
    /\ UNCHANGED <<catalog, leader, pc, g_terminate, queue, pool, history>>

-----------------------------------------------------------------------------
(* The end of an execution                                                 *)

\* getNextRepeatTime: the action and the new frequency.  times = 0 stands for
\* FOR EVER; DOUBLE differs from REPEAT in the delay only.
NextRepeat(f) ==
    LET rest == [until_success |-> f.until_success, times |-> f.times - 1,
                 deadline |-> f.deadline]
        ended == [action |-> 2, freq |-> f]
        again == IF f.times = 0
                 THEN [action |-> IF f.until_success THEN 1 ELSE 0, freq |-> f]
                 ELSE [action |-> IF f.until_success THEN 4 ELSE 3, freq |-> rest] IN
    IF f.times = 1 THEN {ended} ELSE IF f.deadline THEN {ended, again} ELSE {again}

\* Mutant: the new frequency is not written for a fixed number of times.
Repeated_keeps_frequency(r, f, status) ==
    {IF n.action = 2 \/ (n.action \in {1, 4} /\ status = "ok") THEN NoRow
     ELSE Row(FALSE, NoLock, catalog[r].freq) : n \in NextRepeat(f)}

\* What update_entry_for_repeat makes of the row of a rule: deleted, or
\* rescheduled and unlocked.
Repeated(r, f, status) ==
    {IF n.action = 2 \/ (n.action \in {1, 4} /\ status = "ok") THEN NoRow
     ELSE Row(FALSE, NoLock, IF n.action \in {3, 4} THEN n.freq ELSE catalog[r].freq) :
        n \in NextRepeat(f)}

\* The rule is deleted, or rescheduled by the update of its row, on the
\* connection that executed it.  A failed deletion of a rule that failed, or
\* whose request or answer was lost, is tried again on a new connection.
UpdateRule(s, t) ==
    /\ worker[s][t].pc = "update"
    /\ LET r == worker[s][t].rule
           f == worker[s][t].freq
           status == worker[s][t].status IN
       /\ \/ /\ catalog[r] # NoRow
             /\ status # "lost" \/ f = NoFrequency
             /\ \E row \in IF f = NoFrequency THEN {NoRow} ELSE Repeated(r, f, status) :
                    catalog' = With(r, row)
          \/ /\ catalog[r] = NoRow \/ "catalog" \in Environment \/ (status = "lost" /\ f # NoFrequency)
             /\ UNCHANGED catalog
       /\ Set(s, t, Worker("dequeue", r, NoFrequency, "none"))
    /\ UNCHANGED <<leader, pc, g_terminate, queue, pool, history>>

\* The process ends at once: its locks stay.
Die(s) ==
    /\ pc' = [pc EXCEPT ![s] = "exited"]
    /\ pool' = [pool EXCEPT ![s] = << >>]
    /\ queue' = [queue EXCEPT ![s] = << >>]
    /\ worker' = [worker EXCEPT ![s] = [t \in Threads |-> Idle]]
    /\ UNCHANGED <<catalog, leader, g_terminate, history>>

\* execute_rule dequeues the rule, and asks whether it is queued; what follows
\* dequeues it again.  Threads that are still running when main has destroyed
\* the queue read freed memory: the process may go on or die.
Dequeue(s, t) ==
    /\ worker[s][t].pc = "dequeue"
    /\ \/ /\ queue' = IF g_terminate[s] \/ QueueIsDestroyed(s) THEN queue
                      ELSE [queue EXCEPT ![s] = DequeueRule(@, worker[s][t].rule)]
          /\ Set(s, t, Worker("scope_exit", worker[s][t].rule, NoFrequency, "none"))
          /\ UNCHANGED <<catalog, leader, pc, g_terminate, pool, history>>
       \/ QueueIsDestroyed(s) /\ Die(s)

\* Mutant: the rule is dequeued by execute_rule only.
ScopeExit_without_dequeue(s, t) ==
    /\ worker[s][t].pc = "scope_exit"
    /\ Set(s, t, Idle)
    /\ UNCHANGED <<catalog, leader, pc, g_terminate, queue, pool, history>>

\* at_scope_exit in the posted task.
ScopeExit(s, t) ==
    /\ worker[s][t].pc = "scope_exit"
    /\ \/ /\ queue' = IF QueueIsDestroyed(s) THEN queue
                      ELSE [queue EXCEPT ![s] = DequeueRule(@, worker[s][t].rule)]
          /\ Set(s, t, Idle)
          /\ UNCHANGED <<catalog, leader, pc, g_terminate, pool, history>>
       \/ QueueIsDestroyed(s) /\ Die(s)

Work(s, t) ==
    \/ TakeTask(s, t) \/ Contains(s, t) \/ Enqueue(s, t) \/ LockRule(s, t)
    \/ ConnectFails(s, t) \/ FillRuleExecSubmitInp(s, t) \/ ExecuteRule(s, t)
    \/ RequestIsLost(s, t) \/ RuleReturns(s, t) \/ UpdateRule(s, t)
    \/ Dequeue(s, t) \/ ScopeExit(s, t)

-----------------------------------------------------------------------------
(* Users, the main servers and administrators                              *)

\* The frequency is "" or what follows from the hints of the delay.
Submit(r) ==
    /\ submitted[r] = NoRow
    /\ \E f \in Frequencies :
        /\ catalog' = With(r, Row(FALSE, NoLock, f))
        /\ submitted' = [submitted EXCEPT ![r] = f]
    /\ UNCHANGED <<leader, pc, g_terminate, queue, pool, worker, executions, unlocks, deleted,
                   lost>>

\* The execution time of a rule comes, or a user changes it.
BecomeDue(r) ==
    /\ catalog[r] # NoRow /\ ~ catalog[r].due
    /\ catalog' = With(r, Row(TRUE, catalog[r].lock, catalog[r].freq))
    /\ UNCHANGED <<leader, pc, g_terminate, queue, pool, worker, history>>

DeleteRule(r) ==
    /\ "delete" \in Environment
    /\ catalog[r] # NoRow
    /\ catalog' = With(r, NoRow)
    /\ deleted' = deleted \cup {r}
    /\ UNCHANGED <<leader, pc, g_terminate, queue, pool, worker, submitted, executions, unlocks,
                   lost>>

Launch(s) ==
    /\ pc[s] = "off"
    /\ pc' = [pc EXCEPT ![s] = "loop"]
    /\ UNCHANGED <<catalog, leader, g_terminate, queue, pool, worker, history>>

Terminate(s) ==
    /\ "term" \in Environment
    /\ Alive(s) /\ ~ g_terminate[s]
    /\ g_terminate' = [g_terminate EXCEPT ![s] = TRUE]
    /\ UNCHANGED <<catalog, leader, pc, queue, pool, worker, history>>

Crash(s) ==
    /\ "crash" \in Environment
    /\ Alive(s)
    /\ Die(s)

MoveLeader(h) ==
    /\ "leader" \in Environment
    /\ leader # h
    /\ leader' = h
    /\ UNCHANGED <<catalog, pc, g_terminate, queue, pool, worker, history>>

\* rs_delay_rule_unlock does not ask who holds the lock.  Administrators are
\* taken to unlock the rules of delay servers that no longer run.
UnlockRule(r) ==
    /\ "unlock" \in Environment
    /\ catalog[r] # NoRow /\ catalog[r].lock # NoLock
    /\ ~ Alive(catalog[r].lock)
    /\ unlocks[r] < MaxUnlocks
    /\ catalog' = With(r, Row(catalog[r].due, NoLock, catalog[r].freq))
    /\ unlocks' = [unlocks EXCEPT ![r] = @ + 1]
    /\ UNCHANGED <<leader, pc, g_terminate, queue, pool, worker, submitted, executions, deleted,
                   lost>>

-----------------------------------------------------------------------------

Init ==
    /\ catalog = [r \in Rules |-> NoRow]
    /\ leader \in Hosts
    /\ pc = [s \in Servers |-> "off"]
    /\ g_terminate = [s \in Servers |-> FALSE]
    /\ queue = [s \in Servers |-> << >>]
    /\ pool = [s \in Servers |-> << >>]
    /\ worker = [s \in Servers |-> [t \in Threads |-> Idle]]
    /\ submitted = [r \in Rules |-> NoRow]
    /\ executions = [r \in Rules |-> 0]
    /\ unlocks = [r \in Rules |-> 0]
    /\ deleted = {}
    /\ lost = {}

Next ==
    \/ \E s \in Servers : Main(s) \/ Launch(s) \/ Terminate(s) \/ Crash(s)
    \/ \E s \in Servers, t \in Threads : Work(s, t)
    \/ \E r \in Rules : Submit(r) \/ BecomeDue(r) \/ DeleteRule(r) \/ UnlockRule(r)
    \/ \E h \in Hosts : MoveLeader(h)

Spec == Init /\ [][Next]_vars

\* Threads run and rules return; queries and connections that are tried again
\* and again do not always fail.
FairSpec ==
    /\ Spec
    /\ \A s \in Servers : WF_vars(Main(s)) /\ SF_vars(Query(s))
    /\ \A s \in Servers, t \in Threads : WF_vars(Work(s, t)) /\ SF_vars(LockRule(s, t))

-----------------------------------------------------------------------------
(* Properties                                                              *)

\* Rows, tasks and threads are well-formed.
TypeOK ==
    /\ catalog \in [Rules -> Rows \cup {NoRow}]
    /\ leader \in Hosts
    /\ pc \in [Servers -> MainPC]
    /\ g_terminate \in [Servers -> BOOLEAN]
    /\ queue \in [Servers -> Seq(Rules)]
    /\ pool \in [Servers -> Seq(Tasks)]
    /\ worker \in [Servers -> [Threads -> Workers]]
    /\ submitted \in [Rules -> Frequency \cup {NoFrequency, NoRow}]
    /\ executions \in [Rules -> 0..MaxCount]
    /\ unlocks \in [Rules -> 0..MaxUnlocks]
    /\ deleted \subseteq Rules
    /\ lost \subseteq Rules

\* The thread has locked its rule and not yet updated or deleted it.
Holds(s, t, r) ==
    /\ worker[s][t].rule = r
    /\ worker[s][t].pc \in {"info", "request", "running", "update"}

\* A rule is executed by one thread of one delay server at a time, also while
\* two delay servers run and although the queue of a server may have lost or
\* doubled its entry for the rule ("This protects the zone from multiple delay
\* servers attempting to execute the same delay rule simultaneously").
OneExecutor ==
    \A r \in Rules : \A s1, s2 \in Servers : \A t1, t2 \in Threads :
        Holds(s1, t1, r) /\ Holds(s2, t2, r) => s1 = s2 /\ t1 = t2

\* How often a rule may be executed: once, or as often as its frequency says.
Bounded(r) == submitted[r] = NoFrequency \/ (submitted[r] # NoRow /\ submitted[r].times > 0)
Budget(r) == IF submitted[r] = NoFrequency THEN 1 ELSE submitted[r].times

\* Queries made before an execution, queue entries and migrations never make a
\* rule run more often than it asks for; only an administrator's unlock of a
\* rule that a dead delay server had started can.
BudgetIsKept ==
    \A r \in Rules : Bounded(r) => executions[r] <= Budget(r) + unlocks[r]

\* A rule that users did not delete leaves the catalog only after it was executed,
\* whichever of its steps failed, with one exception: when the request to execute
\* it is lost on the connection, a rule without a frequency is deleted although it
\* never ran.
NotDroppedUnexecuted ==
    \A r \in Rules :
        submitted[r] # NoRow /\ catalog[r] = NoRow =>
            \/ r \in deleted \/ executions[r] > 0
            \/ r \in lost /\ submitted[r] = NoFrequency

\* The main loop of the leader's delay server goes on.
Serving(s) ==
    /\ pc[s] \in {"loop", "query", "wait", "sleep"}
    /\ ~ g_terminate[s]
    /\ leader = HostOf[s]

Waiting(r) == Unlocked(r) /\ catalog[r].due

\* While some delay server of the leader keeps running, no rule that is due
\* waits for ever without being locked, also when the queue was full.
DueRulesAreTaken ==
    \A r \in Rules : <>[](\E s \in Servers : Serving(s)) => []<>(~ Waiting(r))
=============================================================================
