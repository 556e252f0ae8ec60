# iRODS in TLA+

A verification development for the iRODS server. It has three parts, each about something that goes wrong only when
several processes are at work:

* which replicas of a data object hold the truth, while agents open, write, create, replicate and close them, fail half
  way, lose their clients or are killed;
* how often a delayed rule is executed, while delay servers come and go;
* which processes a server runs, while it is reloaded, shut down and asked to hand over the delay server.

All paths are relative to the repository (`src/`).

## 1. The system

| part | where | state it owns | operations |
| --- | --- | --- | --- |
| catalog | `plugins/database/src/db_plugin.cpp`, `server/icat` | rows of R_DATA_MAIN (per replica: `data_is_dirty` = status, `data_status` = the status before the lock), R_RULE_EXEC (delayed rules and their locks), R_GRID_CONFIGURATION (delay server leader, successor) | one SQL transaction each |
| logical locking | `server/core/src/logical_locking.cpp` | none of its own; changes the replica state table and the catalog | `try_lock`, `lock`, `unlock`, `*_and_publish` |
| replica state table (RST) | `server/core/src/replica_state_table.cpp` | per agent: the replicas of an object as read ("before") and as to be written ("after") | `insert`, `update`, `publish::to_catalog`, `erase` |
| replica access table (RAT) | `server/core/src/replica_access_table.cpp` | shared memory of the host: token -> replica and agent PIDs | `create_new_entry`, `append_pid`, `erase_pid`, `restore` |
| open / create | `server/api/src/rsDataObjOpen.cpp` | an L1 descriptor of the agent | lock, open file, enter RAT; or lock, register, create file, enter RAT |
| write / close | `rsDataObjWrite.cpp`, `rsDataObjClose.cpp`, `plugins/api/src/replica_close.cpp`, `finalize_utilities.cpp` | the physical file; the descriptor | leave RAT, finalize, unlock |
| end of an agent | `server/core/src/initServer.cpp`, `server/main_server/src/agent_main.cpp` | all of the agent's descriptors | `close_all_l1_descriptors`, `erase_pid`, reaping of killed agents |
| parallel transfer engine | `lib/core/include/irods/parallel_transfer_engine.hpp` | one primary and some secondary streams of a client | open, open with token, write chunks, close |
| delay server | `server/delay_server/src/irodsDelayServer.cpp`, `irods_delay_queue.hpp` | queue in memory; rule locks in the catalog | fetch, enqueue, lock, run, repeat or delete, dequeue |
| main server | `server/main_server/src/main.cpp` | PIDs of agent factory and delay server, signal flags | start, restart, reload, shutdown, delay server migration, access time batches |
| agent factory | `server/main_server/src/agent_main.cpp` | its agents | accept, fork, reap, shutdown |
| access time queue | `server/core/src/access_time_queue.cpp` | bounded queue in shared memory | `try_enqueue` by agents, `try_dequeue` by the main server |
| replication, physical move | `rsDataObjRepl.cpp`, `rsDataObjPhymv.cpp` | two descriptors (source, destination) | open both under one lock, copy, finalize |
| voting | `server/core/src/voting.cpp` | none | which replica an operation gets |

How they interact: an agent (a process per connection) serves `rsDataObjOpen` by reading the rows of the object,
letting `try_lock` judge them, locking all replicas in the catalog (target *intermediate*, siblings *write-locked*,
the old statuses kept in `data_status`), opening the file, and entering the RAT, whose token lets other agents of the
host write the same replica without a lock of their own. The close leaves the RAT, then publishes the RST entry with
the final statuses. None of this is atomic: the catalog, the RAT, the file and the agent's own tables are changed one
after the other, and any of them may fail.

A replication opens its source without a lock and its destination like any client of `rsDataObjOpen`. The delay server
is a child of the main server of one host of the zone, the *leader*; an administrator moves it with
`set_delay_server_migration_info`, which names a *successor*. Two delay servers can be alive at once, after a reload and
during a migration, and what keeps them apart are the lock columns of R_RULE_EXEC.

What is hard to get right (PROJECT.json, `hazards`, gives each its line): decisions taken on rows that were read earlier
(`rsDataObjOpen.cpp:1150`); a snapshot of *all* rows that is written back later; check and update of the RAT in two
steps; error paths that unlock for somebody else, unlock twice, or forget to clean the RST; closes of primary and
secondary streams in any order; agents that die; `bytesWritten == -1` as the meaning of "nothing changed"; a source that
changes while it is copied; rules that were queried before they were run by somebody else; answers of the catalog that
are lost; signals that arrive between two looks at a flag; `kill(pid, 0)`, which succeeds for zombies.

## 2. Modules

| module | models | lines to compare |
| --- | --- | --- |
| `ReplicaAccessMap` | the value of the RAT and its operations as operators | `replica_access_table.cpp` |
| `ReplicaAccessTable` | the RAT as a state machine of its own: every operation is one action, because the code holds the interprocess mutex throughout; `restorable` is what the `erase_pid` of each agent returned | same |
| `LogicalLocking` | rows, RST entries, lock, unlock, try_lock and publish as operators | `logical_locking.cpp`, `replica_state_table.cpp`, `db_data_object_finalize_op` |
| `DataObjectAccess` | the agents: `pc` is the place in the handler, one action per piece of a handler that touches shared state once | `rsDataObjOpen.cpp`, `rsDataObjWrite.cpp`, `rsDataObjClose.cpp`, `replica_close.cpp`, `initServer.cpp`, `agent_main.cpp` |
| `WriteSession` | the abstract specification: an object is locked for one session at a time, and a session ends by moving the truth to its target or by leaving it where it was | |
| `DataObjectSession` | the refinement mapping from `DataObjectAccess` to `WriteSession`, and fairness | |
| `Replication` | `DataObjectSession` with agents that replicate: the steps of `rsDataObjRepl`, which open the destination with the actions of `DataObjectAccess` | `rsDataObjRepl.cpp` |
| `ReplicatedSession` | `WriteSession` with one more way to end a session: the target joins the good replicas | |
| `DelayServer` | delay servers of several hosts: main loop, thread pool, queue, and the rows of R_RULE_EXEC they share | `irodsDelayServer.cpp`, `irods_delay_queue.hpp`, `rcMisc.cpp` (repeats), `db_plugin.cpp` (locks of rules) |
| `MainServer` | per host the main loop, its flags and children, the agents; leader and successor in the catalog | `main.cpp`, `agent_main.cpp` |
| `MCReplicaAccessTable`, `MCDataObjectAccess`, `MCReplication`, `MCDelayServer` | instances for TLC (symmetry, frequencies of rules) | |
| `LogicalLockingProofs`, `ReplicaAccessTableProofs`, `DataObjectAccessProofs`, `DataObjectSessionProofs`, `ReplicationInvariant`, `ReplicationProofs`, `DelayServerProofs`, `MainServerProofs` | theorems (section 4) | |

**Data objects.** State of `DataObjectAccess`: `catalog` (rows), `contents` (what each physical file holds, as an opaque
version; every write makes a version that no file holds), `g_map` (the RAT, named as in the code), and per agent `rst`,
`l1`, `pc` and `info` (the rows read at the start of the open). A row is its status and the recorded original status; a
replica that is not registered has status "absent". `data_is_dirty` can become -1 ("none"), see section 6.

Which clients and faults exist is a parameter. `Clients` says which calls clients make and `Faults` what may fail, so
that a run states in its cfg the environment in which a property holds; the definitions of both sets in the module
list the members. `"undisciplined"`, `"overlap"` and `"idle_primary"` are not faults of clients: the server accepts
all of it. They name orders of calls that the parallel transfer engine does not produce (the first), that need two
opens to race (the second), and transfers whose primary stream ends without a write although a secondary one wrote (the
third): too few bytes for all streams, a transfer that is stopped or whose source fails, or a restarted one.

What happens when a client disconnects needs care. `close_all_l1_descriptors` has no check for other agents that have
the replica open, so the end of *any* stream of a transfer, also of a secondary one, unlocks the object, under the
primary if that is still writing. The model has this as the fault `"lost_stream"`. Without it, `"exit"` is the
disconnection of an agent whose replica nobody else is writing any more (`MayFinalize`), which is what the end of a
client whose streams end together and in order amounts to. Only `races` has `"lost_stream"`; what it breaks is in
section 6.

Abstractions: one data object; one descriptor per agent; agents of one host (an agent on another host has another RAT,
and a token means nothing to it); sizes, checksums and times appear only where they decide a status; a catalog update is
atomic (it is one transaction) and fails as a whole. Special collections, bundles, federation and redirection are left
out, and so are four ways for a create to end early: an answer of the registration that is not JSON
(`rsDataObjOpen.cpp:396-428`), a failure to insert into the RST (491-493), `NO_OPEN_FLAG_KW` (503-505), and the
exceptions caught at 546-567.

`replica_close` may update the catalog three times. A failed update is followed by one that makes the target stale
(`unlock_and_publish_replica`), only if the database was not updated, so that at most one of the two changes it: they
are one step (`FailedReplicaClose`). `update_replica_status_on_error`, which comes then, publishes in any case and is a
step of its own (`ReplicaCloseUpdatesOnError`, fault `"republish"`).

**Replication.** `repl` is per agent the source, its status as first read, the destinations still to be updated (more
than one only with `ALL_KW`) and what the source held when it was opened: the size and checksum in the source
descriptor come from that moment and are what the copy is measured against. `excused` is a history variable that
records that a replication ended good although its source had been rewritten between its open and the lock, or although
its file was removed after the catalog was updated. `Mishaps` is what may fail in a replication, like `Faults` above.
As in `transfer`, an open of a destination does not overlap with another open between its read of the catalog and its
lock; the source is read long before and does.

**Delayed rules.** A row has the lock (the process in it), whether its time has come, and the frequency as the three
things that decide its fate: until success or not, how many times, and whether there is a deadline. A step of a thread
ends at its next access to the catalog, the queue or the pool. The request to execute a rule reaches an agent, and only
then counts as an execution, or it is lost; the delay server sees the same error when the answer is lost. `executions`,
`submitted`, `unlocks`, `deleted` and `lost` are history. The count of executions saturates at `MaxCount`, and the
frequencies a rule may have are `Frequencies`. Whether an execution ends before or after a deadline is a choice.

**Servers.** The main server is one sequential loop whose signals raise flags; each place where it waits or where the
world can change between two looks is a `pc`. A child that has ended is a zombie until it is waited for, and `Exists`
(for `kill(pid, 0)`) does not tell the difference. An agent factory is starting, serving, reaping (its socket closed) or
past its graceful timeout; an agent that was just forked ignores SIGUSR1 until it has its handler, and one whose factory
has died ignores it for good, since the handler compares the sender with `getppid()`. A reload whose configuration is
rejected ends in a step of its own, which resets the flag of SIGHUP; `dropped` is a history variable with the version of
the SIGHUP that came in between. The delay server is reduced to when it ends: it lets the tasks of its pool finish, or
it dies.

## 3. Runs

| run | environment | shows |
| --- | --- | --- |
| `rat` | the RAT alone, two agents, two replicas | an entry is always held by an agent; what `erase_pid` returned can be restored for the same replica and `restore` undoes `erase_pid`; a token keeps its replica |
| `transfer` | open, create, join with token, write, close, and disconnect when nobody else writes the replica (no lost stream, section 2); storage fails | writers hold the lock from open to close, one primary, good replicas agree, a quiet object is unlocked, an idle agent has no RST entry, the RAT lists exactly the writers; the catalog behaves as `WriteSession`; under fairness the lock is given back |
| `faults` | the same without creates and with `replica_close`; failing catalog updates, except the repeated one of `replica_close`, closes that throw on metadata, and agents killed anywhere | the lock may stay for ever, but nobody writes without it, and no wrong replica is good |
| `races` | opens that overlap, O_TRUNC, readers with tokens, half-made creates, joins that fail, lost streams of a transfer, `replica_close` that publishes again | `restore_status` is never stored, a replica never has two tokens, a write-locked row always remembers a status |
| `overlap` | two opens at once | violates `OnePrimary` |
| `replication` | writers and replications of one or of all replicas; the copy, the storage, the catalog update and the notification fail | locks and RAT as in `transfer`; the catalog behaves as `ReplicatedSession`: a replication makes no other replica stale; good replicas agree but for the two exceptions of `excused` |
| `stale_source` | a write between the look at the source and the open of the destination | violates `SourceIsGood` |
| `delay_server` | two delay servers on two hosts, two threads each, one rule that runs once or until success at most twice; leader moves, stops, kills, lost answers, lost connections, failing rules and catalog updates, administrators who unlock | a rule has one executor, runs at most as often as it asks for plus once for each unlock, and leaves the catalog only after it ran, but for a one-shot rule whose request was lost |
| `delay_live` | two rules of different priority, a queue with room for one, one thread; users delete rules | a rule that is due is taken |
| `main_server` | one host, an agent, two reloads (the configuration may be invalid), SIGTERM and SIGQUIT at any time after the start | every child that was not told to end is remembered; a reload is served, but for one asked for while another is failing; a shutdown completes |
| `migration` | two hosts, two requests, one child that dies | in the end exactly the leader runs a delay server and no request is pending |
| `reload` | one reload | violates `ReloadLaunchesFactory` |

**Bounds.** The runs on data objects have two agents, since each race named in section 1 is between a holder of the lock
and one other, and two replicas, a target and a sibling; `replication` has three replicas, so that `ALL_KW` has two
destinations. Three tokens let one be reused, one be stale and one be fresh (two in `races`, for its size); in
`replication` there are no joins and only the agent that has the object locked has an entry, so that one token is
enough. There is one version more than replicas, so that a write always has a new one. `MaxOpens` (uses of one token by
one agent) is 1 because an agent has one descriptor, and 2 in `rat`. Two delay servers are as many as a migration or one
reload makes; two threads of one server can be at the same rule, and two executions are enough to run once too often.
`MaxCount` is 4, one more than budget and unlocks allow. Two reloads let the second arrive during the first; three
generations of two children need no more than five PIDs, since a PID can be used again when its process has been waited
for. Two requests let the second arrive while the first is being served. `MaxFaults` bounds the children that die, as a
child that dies again and again is restarted again and again.

Deadlock is checked everywhere but in `faults`, where all agents may be killed, in `rat`, where tokens run out, and in
`main_server` and `reload`, where servers exit.

**Fairness.**

* `transfer`: an agent that is handling a request continues with it: weak fairness of its open, create and close steps;
  it is a sequential process that waits for nobody. A client that has a replica open closes it or disconnects, and an
  agent notices a lost client: strong fairness of `Leave`, since the primary stream's close is disabled each time a
  secondary stream opens, and a transfer has finitely many streams. Nothing is assumed of clients starting anything.
  Without the assumption on clients a lock is held as long as its client likes, and the code has no timeout for it.
* `delay_live`: threads run, and a rule that is executed returns (weak fairness of `Main` and `Work`); a query and a
  request for a lock that are tried again and again do not fail for ever (strong fairness of `Query` and `LockRule`).
  The property is about delay servers that keep running on the leader: nothing makes a leader exist.
* `main_server`, `migration`: processes run (weak fairness of each); the catalog is not unreachable for ever, which the
  main loop tries again every few seconds (strong fairness of `Migrate` and of the update that ends a migration). Clients
  need not leave: after SIGTERM an agent is told to end, after SIGQUIT when the graceful timeout is over.

`LockIsReleased` for replications was checked once with two replicas and without symmetry (about a million states,
ten minutes) and holds; it is not among the runs for its time. The safety properties of `replication`, with
deadlock, are.

Every property of a passing run is broken by a small change of the code's logic that the module also defines (the
operators marked *Mutant*): a dropped guard, a forgotten unlock, a lock that looks only at the host, a sibling always
restored.

## 4. What is proved

Every safety property and both refinements that a passing run checks are theorems. They hold for every number of agents,
replicas, tokens and versions, of delay servers, threads and rules, and of hosts, reloads and migrations.

**Assumptions on the constants.** `MaxOpens` is positive; the empty values (token, replica, host, rule, frequency) are
not among the proper ones; the rules are finitely many; PIDs are positive; `MaxConfig`, `MaxRequests` and `MaxFaults`
are numbers; `Clients`, `Faults`, `Mishaps` and `Environment` are among the kinds the modules define. The theorems on
the RAT, the delay server and the main server, and `TypeCorrect` and `TokensAreUnique`, assume nothing else: they cover
undisciplined clients and all faults, lost streams among them. `TableIsExact` and `StatusesAreRemembered` cover lost
streams, too.

**Hypotheses on clients and faults.** The other theorems on data objects do not hold in every environment, because the
code has the weaknesses of section 6. Each is an implication whose hypothesis names the members of `Clients` and
`Faults` that must be absent; everything else may happen. The cfg of each run that checks the property satisfies the
hypothesis.

| hypothesis | excludes | because (section 6) |
| --- | --- | --- |
| `OrderlyOpens` | opens in the window of another open; undisciplined joins; lost streams; `create_file`; a failing lock with creates; failing publication with joins and O_TRUNC; `open_file` with joins; `republish` with `replica_close` | run `overlap`; an agent unlocks the object of another, or twice, or leaves its RST entry behind |
| `QuietEnds` | failing publication, closes that throw on metadata or access control, size-only closes | the lock stays in the catalog |
| `SessionEnds` | also `replica_close` | it makes siblings stale although the target is not good |
| `StatusesRecorded` | with `replica_close`: undisciplined joins, a failing lock with creates | -1 is stored as a status |
| `EveryoneLeaves` | readers with tokens, killed agents, `replica_close` with failing storage | nobody removes their PIDs from the RAT |
| `DisciplinedWrites` | O_TRUNC, transfers whose primary stream does not write | a replica that changed gets its old status back |
| `OrderlyReplications` | `OrderlyOpens`, `SessionEnds`, `EveryoneLeaves`, and no use of a connection (or of `ALL_KW`) after a replication that left its RST entry; `"close"` is among the calls, since `Replication` closes in no other way | the next open works with the rows of the old entry |

**Data objects** (`DataObjectAccessProofs` up to the lock, `DataObjectSessionProofs`, which extends it, from
`LocksAreGivenBack` on).

* `TypeCorrect`, `TokensAreUnique`. `TypeOK` is not inductive: the closes look up the row of the descriptor's target,
  and only a handler that has a replica may do that. `IInv` adds `HasTarget`. `OneTokenPerReplica` is inductive with it:
  entries are only made by `create_new_entry`, which looks for the replica again under the mutex.
* `StatusesAreRemembered` (`StatusesRecorded`). A row is *proper* when a write-locked row has a recorded status. Rows
  come from the catalog, from what an agent read and from its RST entry, so the invariant is that all three are proper,
  and that an entry from which a target is given back was not write-locked when it was read.
* `TableIsExact` (`EveryoneLeaves`). An agent that has a replica open for writing is listed under the token of its
  descriptor (`ListedInv`), and whoever has no such descriptor is not listed at all (`UnlistedInv`).
* `LocksAreHeld`, `OneHolder`, `EntriesAreErased` (`OrderlyOpens`). The invariant `LockInv` names two roles: the
  *holder*, who locked the object, and *joiners*, who came with its token. A holder is alone, its RST entry has in
  "after" exactly the rows of the catalog, its target is intermediate and all others write-locked; a joiner's target is
  so too; an agent that has read rows it may lock by (`Lockable`) finds them unchanged in the catalog and nobody holding
  the lock, which is where overlapping opens are excluded. The tie between RST entry and rows is what makes it
  inductive: a close writes the entry back without another look at the catalog.
* `LocksAreGivenBack` (`OrderlyOpens`, `QuietEnds`). Each step of an agent is of one of four kinds (`StepKinds`): it
  leaves the rows alone, locks, registers a replica, or is the end of a session with one of a few statuses. `QuietInv`
  says that the object is at rest or locked by a holder or a killed agent.
* `SessionsAreImplemented` (`OrderlyOpens`, `SessionEnds`): `IsWriteSession`, by the same four kinds, which are
  stutters, `Begin`, `Register`, and `Commit` or `Abort` of `WriteSession` under the mapping of `DataObjectSession`.
* `GoodReplicasStayEqual` (`OrderlyOpens`, `DisciplinedWrites`). Agreement of the good replicas is not inductive, since
  a status that was recorded or read becomes good again later. `GoodInv` is about replicas that are good, have a good
  status recorded, or were good when an agent opened them and have not been written since; it also needs that the
  primary stream writes before the streams that joined it.

**Replication** (`ReplicationInvariant`, `ReplicationProofs`, under `OrderlyReplications`). A step of `Replication` is a
step of an agent of `DataObjectAccess`, or changes no row, table or descriptor, or ends a replication
(`ReplicationKinds`). The first kind keeps the invariants above by their own lemmas. `ReplInv` adds where an agent may
be at each stage of a replication (`StageInv`), that a source is not among the destinations, that the RAT has no entry
without an agent, and that a copy of a source that has not changed since it was opened equals it (`CopyInv`).

* `ReplicationsHoldTheLock`, `ReplicationsGiveTheLockBack`, `ReplicationsLeaveTheTable` follow from `ReplInv`.
* `ReplicationsAreSessions`: `IsReplicatedSession`. The end of a replication gives the siblings what they had, and the
  destination the status of the source or stale.
* `ReplicatedReplicasAgree`: `GoodReplicasAgreeUnlessExcused`, by `TrustedAgree`, which is about the same replicas as in
  `GoodInv`, except that a destination is no longer trusted once its open has truncated it. O_TRUNC is allowed here,
  because a destination that was truncated is never given its old status back: no failure between the truncation and the
  copy does that when the RAT has no entry for the replica, which `ReplInv` shows.

**Replica access table and locking operators.**

* `TableType`, `TableEntriesAreHeld`, `RestoredEntriesAgree`, `TokensKeepTheirReplica`, `RestoreUndoes`
  (`ReplicaAccessTableProofs`), with an invariant that adds that live and restorable tokens were issued.
* `UnlockUndoesLock` (`LogicalLockingProofs`): for an object at rest, lock followed by unlock with `restore_status` on
  the same RST entry gives back all statuses and empties `data_status`. The lemmas of this module say what lock, unlock,
  publish and RST insertion do to rows, and what the RAT operations do to domain, replica and PIDs.

**Delay server.** `DelayRuleHasOneExecutor`, `DelayRuleKeepsBudget`, `DelayRuleIsNotDropped`, `DelayServerTypes`
(`DelayServerProofs`). The inductive invariant has `ProcessInv` for each process (jobs of a query are pending only while
the main thread waits for them; a process that has ended does nothing) and `RuleInv` for each rule. `RuleInv` says that
a thread that holds the rule is of the process in the row's lock and is alone (`LockInv`), that a rule that was
submitted and has no row was run or deleted, or asks for one execution whose request was lost (`CountInv`), and how many
executions are left (`BudgetInv`): executions made and executions the stored frequency still asks for are no more than
the budget, plus one while the row is locked, because the execution that is under way is not yet taken off the
frequency. The last is why a rule that loses its delay server between execution and update can run once more after an
unlock, and only then. `ProcessInv` is needed because a process that could take a task after its end would lock under
the name of a dead process.

**Main server.** `MainServerKnowsItsChildren`, `MainServerTypes` (`MainServerProofs`): an agent factory or delay server
that was not told to end is the one whose PID the main server has, so that there are never two and a shutdown reaches
both. The invariant of a host adds that the delay server a migration waits for was told to end (`Awaited`): the wait may
be interrupted, and the PID is forgotten all the same. Most actions only move, signal or reap children (`Tamer`), which
one lemma settles; the launches are the others, and there `kill(pid, 0)` failing shows that the PID that is overwritten
has no process.

**Only model-checked.** Liveness, which under fairness is beyond the proof system: `LockIsReleased`, `DueRulesAreTaken`,
`ReloadIsServed`, `ShutdownCompletes`, `MigrationCompletes`; and absence of deadlock, which is about ENABLED.

## 5. Not modelled

The repository is for the most part not about shared state: client libraries and commands, translation of queries to
SQL, rule-engine interpreters, storage and network drivers, packing of messages. What has state that several processes
change is modelled, with these exceptions.

* Access time queue (`access_time_queue.cpp`, drained by `main.cpp`): a lock-free queue of a library, and updates that
  are best effort: they are dropped when the queue is full or the catalog fails, so that there is little to promise.
* Physical move: `replicate_data` over again for a source that is removed at the end. The moved replica keeps its number
  and changes its resource, which models that name replicas do not tell apart.
* Put, copy, rsync, truncate, touch, trim, unlink: built from open, write, close and replication.
* Voting: a function of rows, host and operation whose reference would be the code itself. The models let a request
  address any replica, which covers every vote.
* Replication across zones, its checksum keywords (which only forbid results), purging of caches, and what
  `fileModified` starts in resource plugins (which replicate again through the same API).
* Delay server: queries of several pages, a query that throws half way (section 6), migration of REI files, changes of
  a rule other than of its time.
* Main server: failures of `fork`, signals between `fork` and the handlers of an agent factory, an agent factory that
  dies before it is ready, a reload together with a migration on two hosts (both are in one module, but the instance is
  too large), access time batches, eviction of caches.
* Federation, redirection to other hosts, special collections, bundles; authentication and permissions, which make
  operations fail and share no protocol state.

## 6. Where the code and its comments disagree

With a run: `overlap` (`rsDataObjOpen.cpp:1145-1175`), `reload` (`main.cpp:1273`), `stale_source`
(`rsDataObjRepl.cpp:843`). PROJECT.json quotes them.

### Data objects

Found with the same model in other environments (the `Clients` and `Faults` to add are in brackets):

* A replica that is opened with O_TRUNC and closed without a write gets its old status back (`rsDataObjClose.cpp:375`),
  though its data are gone: `GoodReplicasAgree` fails [`truncate`].
* A create whose lock cannot be published returns without erasing its RST entry (`rsDataObjOpen.cpp:314`), which the
  comment at 370 says the next open on the connection relies on: `IdleAgentHasNoEntry` fails [`create`, `lock`].
* `replica_close` of a replica that was not written restores its status ("so that the replica is not mistakenly marked
  as good", `replica_close.cpp:247`) but makes its siblings stale all the same (257, and 453 with 458): when the replica
  was stale, no good one is left [`replica_close`].
* An open with a token that reaches the RAT after the primary left it is refused, and then unlocks the object with the
  rows it read at its start (`rsDataObjOpen.cpp:1261`), before or after the primary commits; the replica that was
  written is good again beside its old siblings: `GoodReplicasAgree` fails [`join`, `undisciplined`].
* A secondary stream that loses its client, or whose agent ends for another reason, is finalized like any open replica
  (`initServer.cpp:811-857`): the object is unlocked with its target stale while the primary goes on writing, another
  agent may lock a sibling, and the primary's close then publishes rows it read before that. `WritersHoldTheLock`,
  `OnePrimary`, `GoodReplicasAgree` and `IsWriteSession` fail [`join`, `exit`, `lost_stream`], and with [`create`] also
  `QuiescentIsAtRest`. In the environment of `transfer` without creates and with lost streams, `QuiescentIsAtRest`,
  `IdleAgentHasNoEntry`, `TableMatchesDescriptors` and `LockIsReleased` were checked once and hold.
* `rsDataObjClose` applies the metadata and the access control that came with the open before it unlocks
  (`rsDataObjClose.cpp:342-343`). When one of them throws, the scope exit at 804-813 erases the RST entry and frees the
  descriptor, and the object stays locked with nobody to unlock it: `QuiescentIsAtRest` and `LockIsReleased` fail
  [`metadata`].
* `replica_close` whose catalog update or notification fails publishes its RST entry once more (`replica_close.cpp:424`
  and 461), after the first attempts may have unlocked the object: a lock that another agent took in between is
  overwritten, and `WritersHoldTheLock` fails [`replica_close`, `republish`].
* The primary stream of a transfer may end without a write although a secondary one wrote: the primary's chunk is empty
  when there are fewer bytes than streams (`parallel_transfer_engine.hpp:408`), was sent before a restart (378-400), or
  is not begun when the transfer is stopped or its source fails (504-514). The primary's close then sees no write and
  restores the statuses: `GoodReplicasAgree` fails [`join`, `idle_primary`].
* A create whose file cannot be created unlocks the object twice (`rsDataObjOpen.cpp:515` and 454); a lock taken between
  the two is overwritten: `WritersHoldTheLock` fails [`create`, `create_file`].
* A join whose file cannot be opened unlocks the object of the agent it joined (`rsDataObjOpen.cpp:1223`):
  `WritersHoldTheLock` fails [`join`, `open_file`].
* A reader of an intermediate replica with a token enters the RAT (`rsDataObjOpen.cpp:1254`) but its close does not
  leave it: `TableMatchesDescriptors` fails [`read_token`].
* `replica_close` unlocks before it leaves the RAT (`replica_close.cpp:475`), the order that the comment at
  `rsDataObjClose.cpp:756` warns of; an open in between is refused at the RAT.
* Nobody removes the PID of a killed agent from the RAT (`agent_main.cpp:1274`), and its lock stays in the catalog.
* `try_lock` without a token looks only at the chosen replica (`logical_locking.cpp:317`): an *intermediate* sibling
  does not stop it, a write-locked target does.
* `replica_close` of a new replica by an agent that joined its creator can store -1 as status: the new row has no
  original status to be restored.
* `RAT::restore` after another agent made a new entry for the replica leaves two tokens for it. No call does this today:
  `rsDataObjClose` restores the entry only if the descriptor is still in use when it returns, and every path frees it.

### Replication (`rsDataObjRepl.cpp`)

* A failed replication does not erase its RST entry (227-236 and 299-354). The next open on the connection, or the next
  destination of `ALL_KW`, finds the old entry and works with its rows; the comment at `rsDataObjOpen.cpp:370` says that
  an open "would expect the RST to be cleaned up". With `"reuse"` among the `Mishaps`, `IdleAgentHasNoEntry`,
  `IsReplicatedSession` and `QuiescentIsAtRest` fail.
* The number of bytes to copy (601) and the size the copy is verified against are those of the source when it was
  opened. Of a source that has grown before the lock a prefix is copied and becomes good, unless a checksum shows it (one
  of the two cases of `excused`).
* When `fileModified` fails after the catalog was updated (`data_object_finalize.cpp:416-423`), `l3Unlink` (288) removes
  the file of a replica that is good in the catalog (the other case). `rsDataObjClose.cpp:327` has the same lines.
* A destination that is not at rest is logged as "not allowed to be updated" (858-871) but nothing is thrown; the open
  that follows refuses it.
* The early returns for `VERIFY_CHKSUM` and `REG_CHKSUM` (552-580) leave the source descriptor open until the agent ends.

### Delay server (`irodsDelayServer.cpp`)

* A row that was queried before another server ran and rescheduled the rule is enqueued afterwards: the lock is free
  again, and the lock statement does not look at the time, so that the rule runs before its time.
* The queue is destroyed before the pool is joined (905): tasks that still run use it. The model lets such a thread stop
  the process or go on.
* The comment at 705-712 says the removal from the queue "also allows the rule to be rescheduled". A rule whose
  information or connection cannot be had after it was locked stays locked until its delay server is gone and an
  administrator unlocks it.
* A one-shot rule is deleted when its execution ends in an error (572-581), over a new connection if need be. The error
  may be that the request did not reach the server: the rule is then deleted although it never ran.
  `NotDroppedUnexecuted` names the exception (`lost`). A rule with a frequency is only rescheduled.
* A frequency that a user changes while the rule runs is overwritten at the end of the run (376).
* With a queue that is always full of urgent rules that repeat for ever, other rules starve: `DueRulesAreTaken` is
  checked for rules that repeat finitely often.
* A query that throws half way destroys the query processor that its posted jobs still refer to (not modelled).

### Main server (`main.cpp`, `agent_main.cpp`)

* A SIGTERM while the first agent factory is being launched makes `main` return 1 and leaves the factory behind (1101):
  `ShutdownCompletes` fails [`"early"` in `Environment`].
* A signal interrupts `waitpid`, which is not repeated: a second SIGTERM, or a late SIGUSR2, lets the server report a
  complete shutdown while children still end.
* A reload forgets the PID of the delay server it stops; a shutdown soon after does not wait for it.
* A SIGHUP during a reload is dropped, because the flag is reset when `handle_configuration_reload` returns (1128). When
  the reload succeeds this is harmless, as the new agent factory reads the configuration later. When it fails, a SIGHUP
  for a corrected file that arrives after the invalid one was read (1134) is never served: the administrator has to send
  another. `ReloadIsServed` names this exception (`dropped`).
* A SIGUSR1 to an agent between its fork and its `sigaction` is lost, and its factory waits until the client leaves
  (`MissedSignal` in `ShutdownCompletes`).
* The write that ends a migration does not look at what it overwrites: a request made since the row was read is lost.
  The comment at 1441 says the leader entry is cleared when the leader shuts its delay server down; it is not. The table
  at 1422 says that the leader has stopped when the successor launches; the successor does not wait for it, and
  `OneExecutor` says why this is harmless.
* The comparison of host names in `set_delay_server_migration_info.cpp` (122-136) is compiled out.
