-------------------------- MODULE DataObjectAccess --------------------------
(***************************************************************************)
(* Agents that open, write and close the replicas of one data object:      *)
(* rsDataObjOpen, rsDataObjWrite, rsDataObjClose, replica_close and the    *)
(* clean-up of an agent that loses its client, on top of logical locking,  *)
(* the replica state table (one per agent), the replica access table       *)
(* (shared by the agents of the host) and the catalog.                     *)
(*                                                                         *)
(* An agent serves one client and here has at most one L1 descriptor.  The *)
(* steps of an agent are delimited by its accesses to shared state: one    *)
(* catalog query or transaction, or one operation on the replica access    *)
(* table.  What lies between two of them is local to the agent.            *)
(***************************************************************************)
EXTENDS LogicalLocking

CONSTANTS
    NoToken,    \* the empty token
    NoReplica,  \* the target of an agent without a descriptor
    Versions,   \* contents of a physical file; more of them than replicas
    Clients,    \* what clients do, see ClientBehaviours
    Faults      \* what may fail, see FaultKinds

(* What clients may do:
     "close"         use rsDataObjClose
     "replica_close" use replica_close with both updates
     "size_only", "status_only"  use replica_close with one update disabled
     "create"        create replicas
     "truncate"      open with O_TRUNC
     "join"          open for write with a replica token
     "read_token"    open for read with a replica token
     "exit"          disconnect with a replica open, see Exit
     "overlap"       open while another open of the object is between its
                     catalog query and its lock
     "idle_primary"  use the parallel transfer engine in such a way that the
                     secondary streams write and the primary one does not, see
                     MayWrite
     "undisciplined" share a replica in other ways than the parallel
                     transfer engine does, see MayJoin and MayFinalize      *)
ClientBehaviours ==
    {"close", "replica_close", "size_only", "status_only", "create", "truncate", "join",
     "read_token", "exit", "overlap", "idle_primary", "undisciplined"}

(* What may fail:
     "open_file"   the rule before an open, or the opening of a file
     "storage"     the closing of a file, the reading of its size or checksum,
                   the registration of a new replica
     "create_file" the creation of the file of a new replica
     "lock"        the catalog update that locks the object
     "republish"   the catalog update of a replica_close with the status, or the
                   notification that follows it: the catalog is then updated again
     "publish"     any other catalog update
     "metadata"    the metadata or the access control that came with an open,
                   when rsDataObjClose applies them
     "lost_stream" the connection of one stream of a transfer while others
                   are at work
     "crash"       an agent (it is killed: no clean-up runs)                *)
FaultKinds ==
    {"open_file", "storage", "create_file", "lock", "republish", "publish", "metadata",
     "lost_stream", "crash"}

ASSUME EnvironmentAssumption ==
    /\ Clients \subseteq ClientBehaviours
    /\ Faults \subseteq FaultKinds

ASSUME DistinctAssumption ==
    /\ NoToken \notin Tokens
    /\ NoReplica \notin Replicas

VARIABLES
    catalog,    \* rows of the data object in R_DATA_MAIN
    contents,   \* contents of the physical file of each replica
    g_map,      \* replica access table
    rst,        \* each agent's replica state table entry for the object
    pc,         \* where each agent is in the handling of a request
    l1,         \* each agent's L1 descriptor
    info        \* the rows each agent read at the start of an open

vars == <<catalog, contents, g_map, rst, pc, l1, info>>

-----------------------------------------------------------------------------

PC == {"idle", "resolved", "granted", "opened", "rat_create", "rat_update", "open",
       "finished", "closing", "failing", "released", "broken", "exiting", "creating",
       "registered", "cleaning", "unregistering", "crashed", "reaped"}

\* dataObjInfo, openType, replica_token and whether bytesWritten >= 0.
Desc(r, m, t, w) == [target |-> r, mode |-> m, token |-> t, wrote |-> w]

Descriptor ==
    [target : Replicas \cup {NoReplica}, mode : {"read", "write", "create"},
     token : Tokens \cup {NoToken}, wrote : BOOLEAN]

NoDesc == Desc(NoReplica, "read", NoToken, FALSE)

WithToken(d, t) == Desc(d.target, d.mode, t, d.wrote)

Written(d) == Desc(d.target, d.mode, d.token, TRUE)

\* The agent entered the replica with the token of another agent.
Joined(a) == l1[a].mode = "write" /\ rst[a].before[l1[a].target] = "intermediate"

\* The agent is between reading the catalog and locking (or joining) the object.
Opening(a) ==
    \/ pc[a] = "resolved"
    \/ pc[a] \in {"granted", "opened", "rat_update"} /\ l1[a].token # NoToken

\* What the physical file holds after a write: something new.
Fresh == Versions \ {contents[r] : r \in Replicas}

\* The outcomes of publishing an entry.
Published(e) ==
    {Publish(catalog, e)} \cup (IF "publish" \in Faults THEN {catalog} ELSE {})

\* ill::unlock_and_publish: nothing is published when the target is unknown
\* to the table entry.
UnlockOutcomes(e, r, status, others) ==
    IF RstHas(e, r) THEN Published(UnlockTarget(e, r, status, others)) ELSE {catalog}

\* Mutant: the entry of the replica state table is left behind.
Done_keeps_entry(a) ==
    /\ pc' = [pc EXCEPT ![a] = "idle"]
    /\ l1' = [l1 EXCEPT ![a] = NoDesc]
    /\ UNCHANGED rst

\* The agent forgets its descriptor and its table entry and is ready for the
\* next request.
Done(a) ==
    /\ pc' = [pc EXCEPT ![a] = "idle"]
    /\ l1' = [l1 EXCEPT ![a] = NoDesc]
    /\ rst' = [rst EXCEPT ![a] = NoEntry]

\* Mutant: the agent stays in the replica access table.
ErasedFor_nothing(a) == g_map

\* Replica access table without the agent's use of its token.
ErasedFor(a) ==
    LET t == l1[a].token IN
    IF t \in DOMAIN g_map /\ g_map[t].agent_pids[a] > 0 THEN ErasePid(g_map, t, a)
    ELSE g_map
-----------------------------------------------------------------------------
(* The parallel transfer engine                                            *)
(* (lib/core/include/irods/parallel_transfer_engine.hpp): the primary      *)
(* stream opens the replica, the secondary streams open it with its token, *)
(* write their chunks and close without catalog updates; the primary waits *)
(* for them to have written, not to have closed, and then closes.          *)

MayJoin(r, t) ==
    \/ "undisciplined" \in Clients
    \/ \E b \in Pids :
        /\ pc[b] = "open" /\ l1[b].target = r /\ l1[b].token = t
        /\ l1[b].mode # "read" /\ ~ Joined(b)

\* The primary stream has a chunk of its own, and a secondary stream's write,
\* which may come earlier, is ordered after the primary's.  With "idle_primary"
\* the primary stream may end without a write: there are fewer bytes than
\* streams and every chunk but the last is empty, the transfer is stopped or the
\* primary's source fails before its first write, or a transfer is restarted
\* whose primary stream had sent all of its chunk.
MayWrite(a) ==
    \/ Clients \cap {"idle_primary", "undisciplined"} # {}
    \/ ~ Joined(a)
    \/ \E b \in Pids : b # a /\ pc[b] = "open" /\ l1[b].target = l1[a].target /\ l1[b].wrote

\* The order in which the engine closes; nothing in the server asks for it.
MayFinalize(a) ==
    \/ "undisciplined" \in Clients
    \/ /\ ~ Joined(a)
       /\ \A b \in Pids \ {a} :
            l1[b].token = l1[a].token => pc[b] \in {"finished", "released"}

\* A secondary stream has written its chunk: latch_->count_down().
FinishWriting(a) ==
    /\ pc[a] = "open" /\ l1[a].mode = "write" /\ Joined(a)
    /\ pc' = [pc EXCEPT ![a] = "finished"]
    /\ UNCHANGED <<catalog, contents, g_map, rst, l1, info>>

-----------------------------------------------------------------------------
(* rsDataObjOpen of an existing replica.                                   *)

\* get_data_object_info_for_open: the catalog is read, and nothing of what
\* was read is protected from now on.
Resolve(a, r, m, t) ==
    /\ pc[a] = "idle"
    /\ IF m = "create" THEN "create" \in Clients /\ r \notin Present(catalog) /\ t = NoToken
                       ELSE r \in Present(catalog)
    /\ t # NoToken =>
        /\ (IF m = "read" THEN "read_token" ELSE "join") \in Clients
        /\ MayJoin(r, t)
        /\ \A u \in DOMAIN g_map : g_map[u].agent_pids[a] < MaxOpens
    /\ "overlap" \in Clients \/ \A b \in Pids : ~ Opening(b)
    /\ info' = [info EXCEPT ![a] = catalog]
    /\ l1' = [l1 EXCEPT ![a] = Desc(r, m, t, FALSE)]
    /\ pc' = [pc EXCEPT ![a] = "resolved"]
    /\ UNCHANGED <<catalog, contents, g_map, rst>>

TokenIsValid(a) == ContainsToken(g_map, l1[a].token, l1[a].target)

\* try_lock refuses the open.
OpenDenied(a) ==
    /\ pc[a] = "resolved" /\ l1[a].mode # "create"
    /\ ~ TryLockReplica(info[a], l1[a].target, TokenIsValid(a))
    /\ pc' = [pc EXCEPT ![a] = "idle"]
    /\ l1' = [l1 EXCEPT ![a] = NoDesc]
    /\ info' = [info EXCEPT ![a] = NoRows]
    /\ UNCHANGED <<catalog, contents, g_map, rst>>

\* try_lock lets a reader pass; nothing is locked.
ReadGranted(a) ==
    /\ pc[a] = "resolved" /\ l1[a].mode = "read"
    /\ TryLockReplica(info[a], l1[a].target, TokenIsValid(a))
    /\ pc' = [pc EXCEPT ![a] = "granted"]
    /\ UNCHANGED <<catalog, contents, g_map, rst, l1, info>>

\* try_lock lets a writer pass.  The replica was at rest when it was read: the
\* object is locked with the statuses that were read then.
LockObject(a) ==
    LET r == l1[a].target
        e == RstInsert(rst[a], info[a]) IN
    /\ pc[a] = "resolved" /\ l1[a].mode = "write"
    /\ TryLockReplica(info[a], r, TokenIsValid(a))
    /\ info[a][r].status # "intermediate"
    /\ \/ /\ RstHas(e, r)
          /\ catalog' = Publish(catalog, LockTarget(e, r))
          /\ rst' = [rst EXCEPT ![a] = LockTarget(e, r)]
          /\ pc' = [pc EXCEPT ![a] = "granted"]
          /\ UNCHANGED <<l1, info>>
       \/ /\ "lock" \in Faults \/ ~ RstHas(e, r)
          /\ Done(a)
          /\ info' = [info EXCEPT ![a] = NoRows]
          /\ UNCHANGED catalog
    /\ UNCHANGED <<contents, g_map>>

\* A writer with a valid token passes without locking anything.
JoinObject(a) ==
    LET r == l1[a].target IN
    /\ pc[a] = "resolved" /\ l1[a].mode = "write"
    /\ info[a][r].status = "intermediate" /\ TokenIsValid(a)
    /\ rst' = [rst EXCEPT ![a] = RstInsert(rst[a], info[a])]
    /\ pc' = [pc EXCEPT ![a] = "granted"]
    /\ UNCHANGED <<catalog, contents, g_map, l1, info>>

\* open_replica: the file is opened.  A replica that was not intermediate and
\* is only read needs no access table entry.
OpenReplica(a) ==
    /\ pc[a] = "granted"
    /\ IF l1[a].mode = "read" /\ info[a][l1[a].target].status # "intermediate"
       THEN /\ pc' = [pc EXCEPT ![a] = "open"]
            /\ l1' = [l1 EXCEPT ![a] = WithToken(l1[a], NoToken)]
       ELSE pc' = [pc EXCEPT ![a] = "opened"] /\ UNCHANGED l1
    /\ info' = [info EXCEPT ![a] = NoRows]
    /\ UNCHANGED <<catalog, contents, g_map, rst>>

\* open_replica with O_TRUNC: the file loses its contents, and the agent
\* publishes its table entry with size zero.
TruncateReplica(a) ==
    /\ pc[a] = "granted" /\ l1[a].mode = "write" /\ "truncate" \in Clients
    /\ \E v \in Fresh : contents' = [contents EXCEPT ![l1[a].target] = v]
    /\ info' = [info EXCEPT ![a] = NoRows]
    /\ \/ /\ catalog' = Publish(catalog, rst[a])
          /\ pc' = [pc EXCEPT ![a] = "opened"]
          /\ UNCHANGED <<rst, l1>>
       \/ /\ "publish" \in Faults
          /\ catalog' \in UnlockOutcomes(rst[a], l1[a].target, "restore", "restore")
          /\ Done(a)
    /\ UNCHANGED g_map

\* The rule before the open, or open_replica, fails: a writer unlocks the
\* object, whether it locked it or joined another writer.
OpenFails(a) ==
    /\ pc[a] = "granted" /\ "open_file" \in Faults
    /\ IF l1[a].mode = "write"
       THEN catalog' \in UnlockOutcomes(rst[a], l1[a].target, "restore", "restore")
       ELSE UNCHANGED catalog
    /\ Done(a)
    /\ info' = [info EXCEPT ![a] = NoRows]
    /\ UNCHANGED <<contents, g_map>>

\* rat::contains decides between creating an entry and joining one ...
ChooseRatUpdate(a) ==
    /\ pc[a] = "opened"
    /\ pc' = [pc EXCEPT ![a] =
                IF ContainsReplica(g_map, l1[a].target) THEN "rat_update" ELSE "rat_create"]
    /\ UNCHANGED <<catalog, contents, g_map, rst, l1, info>>

\* Mutant: what rat::contains said earlier is relied on.
CreateRatEntry_unchecked(a) ==
    /\ pc[a] = "rat_create"
    /\ \E t \in Tokens \ (DOMAIN g_map \cup {l1[b].token : b \in Pids}) :
        /\ g_map' = Insert(g_map, t, l1[a].target, a)
        /\ l1' = [l1 EXCEPT ![a] = WithToken(l1[a], t)]
    /\ pc' = [pc EXCEPT ![a] = "open"]
    /\ UNCHANGED <<catalog, contents, rst, info>>

\* ... and the table is locked anew for the operation that was chosen.
CreateRatEntry(a) ==
    /\ pc[a] = "rat_create" /\ ~ ContainsReplica(g_map, l1[a].target)
    /\ \E t \in Tokens \ (DOMAIN g_map \cup {l1[b].token : b \in Pids}) :
        /\ g_map' = Insert(g_map, t, l1[a].target, a)
        /\ l1' = [l1 EXCEPT ![a] = WithToken(l1[a], t)]
    /\ pc' = [pc EXCEPT ![a] = "open"]
    /\ UNCHANGED <<catalog, contents, rst, info>>

AppendToRatEntry(a) ==
    /\ pc[a] = "rat_update" /\ TokenIsValid(a)
    /\ g_map[l1[a].token].agent_pids[a] < MaxOpens
    /\ g_map' = PushPid(g_map, l1[a].token, a)
    /\ pc' = [pc EXCEPT ![a] = "open"]
    /\ UNCHANGED <<catalog, contents, rst, l1, info>>

\* The table refuses: close_replica_and_unlock_data_object.
RatUpdateFails(a) ==
    /\ l1[a].mode # "create"
    /\ \/ pc[a] = "rat_create" /\ ContainsReplica(g_map, l1[a].target)
       \/ pc[a] = "rat_update" /\ ~ TokenIsValid(a)
    /\ IF l1[a].mode = "write"
       THEN catalog' \in UnlockOutcomes(rst[a], l1[a].target, "restore", "restore")
       ELSE UNCHANGED catalog
    /\ Done(a)
    /\ UNCHANGED <<contents, g_map, info>>

-----------------------------------------------------------------------------
(* rsDataObjOpen that creates a replica.                                   *)

\* The object has replicas: try_lock looks at all of them.
CreateDenied(a) ==
    /\ pc[a] = "resolved" /\ l1[a].mode = "create" /\ ~ TryLockObject(info[a])
    /\ pc' = [pc EXCEPT ![a] = "idle"]
    /\ l1' = [l1 EXCEPT ![a] = NoDesc]
    /\ info' = [info EXCEPT ![a] = NoRows]
    /\ UNCHANGED <<catalog, contents, g_map, rst>>

\* The existing replicas are locked; when that fails the entry of the replica
\* state table is not erased.  A new data object has nothing to be locked.
LockForCreate(a) ==
    LET e == LockAll(RstInsert(rst[a], info[a])) IN
    /\ pc[a] = "resolved" /\ l1[a].mode = "create" /\ TryLockObject(info[a])
    /\ info' = [info EXCEPT ![a] = NoRows]
    /\ \/ /\ Present(info[a]) = {}
          /\ pc' = [pc EXCEPT ![a] = "creating"]
          /\ UNCHANGED <<catalog, rst, l1>>
       \/ /\ Present(info[a]) # {}
          /\ catalog' = Publish(catalog, e)
          /\ rst' = [rst EXCEPT ![a] = e]
          /\ pc' = [pc EXCEPT ![a] = "creating"]
          /\ UNCHANGED l1
       \/ /\ Present(info[a]) # {} /\ "lock" \in Faults
          /\ catalog' \in Published(UnlockAll(e))
          /\ rst' = [rst EXCEPT ![a] = UnlockAll(e)]
          /\ pc' = [pc EXCEPT ![a] = "idle"]
          /\ l1' = [l1 EXCEPT ![a] = NoDesc]
    /\ UNCHANGED <<contents, g_map>>

NewRow == MkRow("intermediate", "none")

\* The registration finds what the agent expects: the object with or without
\* other replicas, and no row for the new one.
Registrable(a) ==
    /\ l1[a].target \notin Present(catalog)
    /\ RstContains(rst[a]) <=> Present(catalog) # {}

\* rs_register_physical_path, and the new replica enters the agent's table.
RegisterReplica(a) ==
    /\ pc[a] = "creating" /\ Registrable(a)
    /\ catalog' = [catalog EXCEPT ![l1[a].target] = NewRow]
    /\ rst' = [rst EXCEPT ![a] = RstInsertReplica(rst[a], l1[a].target, NewRow)]
    /\ pc' = [pc EXCEPT ![a] = "registered"]
    /\ UNCHANGED <<contents, g_map, l1, info>>

\* Mutant: the object is not unlocked when the registration fails.
RegistrationFails_keeps_lock(a) ==
    /\ pc[a] = "creating"
    /\ "storage" \in Faults \/ ~ Registrable(a)
    /\ Done(a)
    /\ UNCHANGED <<catalog, contents, g_map, info>>

RegistrationFails(a) ==
    /\ pc[a] = "creating"
    /\ "storage" \in Faults \/ ~ Registrable(a)
    /\ catalog' \in Published(UnlockAll(rst[a]))
    /\ Done(a)
    /\ UNCHANGED <<contents, g_map, info>>

CreatePhysicalFile(a) ==
    /\ pc[a] = "registered"
    /\ \E v \in Fresh : contents' = [contents EXCEPT ![l1[a].target] = v]
    /\ pc' = [pc EXCEPT ![a] = "rat_create"]
    /\ UNCHANGED <<catalog, g_map, rst, l1, info>>

\* The object is unlocked with the new replica stale ...
CreatePhysicalFileFails(a) ==
    LET e == UnlockTarget(rst[a], l1[a].target, "stale", "restore") IN
    /\ pc[a] = "registered" /\ "create_file" \in Faults
    /\ catalog' \in Published(e)
    /\ rst' = [rst EXCEPT ![a] = e]
    /\ pc' = [pc EXCEPT ![a] = "cleaning"]
    /\ UNCHANGED <<contents, g_map, l1, info>>

\* ... and clean_up unlocks it a second time if it had been locked ...
CleanUpUnlocks(a) ==
    /\ pc[a] = "cleaning"
    /\ IF Present(rst[a].after) = {l1[a].target} THEN UNCHANGED catalog
       ELSE catalog' \in UnlockOutcomes(rst[a], l1[a].target, "restore", "restore")
    /\ pc' = [pc EXCEPT ![a] = "unregistering"]
    /\ UNCHANGED <<contents, g_map, rst, l1, info>>

\* ... before it unregisters the new replica, which a locked object refuses.
CleanUpUnregisters(a) ==
    /\ pc[a] = "unregistering"
    /\ catalog' = IF TryLockObject(catalog) THEN [catalog EXCEPT ![l1[a].target] = NoRow]
                  ELSE catalog
    /\ Done(a)
    /\ UNCHANGED <<contents, g_map, info>>

\* The access table has an entry for the new replica already.
CreateRatFails(a) ==
    /\ pc[a] = "rat_create" /\ l1[a].mode = "create"
    /\ ContainsReplica(g_map, l1[a].target)
    /\ catalog' \in UnlockOutcomes(rst[a], l1[a].target, "stale", "restore")
    /\ rst' = [rst EXCEPT ![a] = NoEntry]
    /\ pc' = [pc EXCEPT ![a] = "unregistering"]
    /\ UNCHANGED <<contents, g_map, l1, info>>

-----------------------------------------------------------------------------
(* Writing and closing.                                                    *)

\* rsDataObjWrite: the bytes are in the file at once.
Write(a) ==
    /\ pc[a] = "open" /\ l1[a].mode # "read" /\ MayWrite(a)
    /\ \E v \in Fresh : contents' = [contents EXCEPT ![l1[a].target] = v]
    /\ l1' = [l1 EXCEPT ![a] = Written(l1[a])]
    /\ UNCHANGED <<catalog, g_map, rst, pc, info>>

\* A replica opened for read is closed; the access table is not touched.
CloseRead(a) ==
    /\ pc[a] = "open" /\ l1[a].mode = "read"
    /\ Done(a)
    /\ UNCHANGED <<catalog, contents, g_map, info>>

\* rsDataObjClose leaves the access table first ...
Close(a) ==
    /\ pc[a] = "open" /\ l1[a].mode # "read" /\ "close" \in Clients /\ MayFinalize(a)
    /\ g_map' = ErasedFor(a)
    /\ pc' = [pc EXCEPT ![a] = "closing"]
    /\ UNCHANGED <<catalog, contents, rst, l1, info>>

\* Mutant: the siblings become stale although nothing was written.
FinalEntry_always_stales(a) ==
    LET r == l1[a].target IN
    IF l1[a].mode = "create" \/ l1[a].wrote THEN UnlockTarget(rst[a], r, "good", "stale")
    ELSE UnlockTarget(rst[a], r, rst[a].before[r], "stale")

\* finalize_data_object: the entry that is published when the replica is new
\* or was written, and when it was not.
FinalEntry(a) ==
    LET r == l1[a].target IN
    IF l1[a].mode = "create" \/ l1[a].wrote THEN UnlockTarget(rst[a], r, "good", "stale")
    ELSE UnlockTarget(rst[a], r, rst[a].before[r], "restore")

\* ... and then finalizes the object, which removes the table entry.
FinalizeDataObject(a) ==
    /\ pc[a] = "closing"
    /\ catalog' = Publish(catalog, FinalEntry(a))
    /\ Done(a)
    /\ UNCHANGED <<contents, g_map, info>>

\* The catalog update fails: stale_target_replica_and_publish.
FinalizeNotPublished(a) ==
    /\ pc[a] = "closing" /\ "publish" \in Faults
    /\ catalog' \in Published(SetStatus(FinalEntry(a), l1[a].target, "stale"))
    /\ Done(a)
    /\ UNCHANGED <<contents, g_map, info>>

\* Mutant: an error on the way to the catalog update skips the unlock.
FinalizeFailedOperation_keeps_lock(a) ==
    /\ pc[a] = "closing" /\ "storage" \in Faults
    /\ Done(a)
    /\ UNCHANGED <<catalog, contents, g_map, info>>

\* apply_metadata_from_cond_input or apply_acl_from_cond_input throws before
\* anything is unlocked: the table entry is erased and the descriptor freed, and
\* the object stays locked.
FinalizeThrows(a) ==
    /\ pc[a] = "closing" /\ "metadata" \in Faults
    /\ Done(a)
    /\ UNCHANGED <<catalog, contents, g_map, info>>

\* The operation on the descriptor failed, or closing the file, getting its
\* size or its checksum fails.
FinalizeFailedOperation(a) ==
    /\ pc[a] = "closing" /\ "storage" \in Faults
    /\ catalog' \in UnlockOutcomes(rst[a], l1[a].target, "stale", "restore")
    /\ Done(a)
    /\ UNCHANGED <<contents, g_map, info>>

-----------------------------------------------------------------------------
(* replica_close.                                                          *)

Unwritten(a) == l1[a].mode # "create" /\ ~ l1[a].wrote

\* The file has another size than when it was opened.
SizeChanges(a) ==
    IF Clients \cap {"join", "overlap"} # {} THEN BOOLEAN ELSE {~ Unwritten(a)}

\* The status of the target after a close that updates it: good when something
\* changed, else what it was; stale when only the status is updated and the
\* size cannot be read.
ReplicaCloseStatus(a) ==
    {IF Unwritten(a) /\ ~ changed THEN rst[a].after[l1[a].target].original ELSE "good" :
        changed \in SizeChanges(a)}
    \cup (IF "status_only" \in Clients /\ "storage" \in Faults THEN {"stale"} ELSE {})

\* Without catalog updates, as the secondary streams of a transfer close.
ReplicaCloseSilently(a) ==
    /\ pc[a] \in {"open", "finished"} /\ l1[a].mode # "read"
    /\ pc[a] = "finished" \/ "undisciplined" \in Clients
    /\ pc' = [pc EXCEPT ![a] = "released"]
    /\ rst' = [rst EXCEPT ![a] = NoEntry]
    /\ UNCHANGED <<catalog, contents, g_map, l1, info>>

\* With the update of the status, and of the size or not: the siblings become
\* stale whether or not anything was written.  When a checksum is asked for and
\* fails, the descriptor stays in use.
ReplicaClose(a) ==
    /\ pc[a] = "open" /\ l1[a].mode # "read" /\ MayFinalize(a)
    /\ Clients \cap {"replica_close", "status_only"} # {}
    /\ \E s \in ReplicaCloseStatus(a) :
        catalog' = Publish(catalog, UnlockTarget(rst[a], l1[a].target, s, "stale"))
    /\ rst' = [rst EXCEPT ![a] = NoEntry]
    /\ \/ pc' = [pc EXCEPT ![a] = "released"]
       \/ "storage" \in Faults /\ pc' = [pc EXCEPT ![a] = "broken"]
    /\ UNCHANGED <<contents, g_map, l1, info>>

\* With the update of the size only: the target keeps the status it has in the
\* L1 descriptor.
ReplicaCloseSizeOnly(a) ==
    /\ pc[a] = "open" /\ l1[a].mode # "read" /\ MayFinalize(a)
    /\ "size_only" \in Clients
    /\ catalog' = Publish(catalog, UnlockTarget(rst[a], l1[a].target, "intermediate", "stale"))
    /\ rst' = [rst EXCEPT ![a] = NoEntry]
    /\ pc' = [pc EXCEPT ![a] = "released"]
    /\ UNCHANGED <<contents, g_map, l1, info>>

\* The catalog is updated and the notification that follows fails, or the
\* update fails and another one that makes the target stale succeeds, or fails
\* as well.  The siblings are stale in all of them.
FailedReplicaClose(a, s) ==
    {Publish(catalog, UnlockTarget(rst[a], l1[a].target, s, "stale")),
     Publish(catalog, UnlockTarget(rst[a], l1[a].target, "stale", "stale")), catalog}

\* unlock_and_publish_replica fails: the descriptor stays in use.
ReplicaCloseNotPublished(a) ==
    /\ pc[a] = "open" /\ l1[a].mode # "read" /\ MayFinalize(a)
    /\ Clients \cap {"replica_close", "status_only"} # {} /\ "republish" \in Faults
    /\ \E s \in ReplicaCloseStatus(a) : catalog' \in FailedReplicaClose(a, s)
    /\ rst' = [rst EXCEPT ![a] = UnlockTarget(rst[a], l1[a].target, "stale", "stale")]
    /\ pc' = [pc EXCEPT ![a] = "failing"]
    /\ UNCHANGED <<contents, g_map, l1, info>>

\* update_replica_status_on_error publishes the entry once more, although the
\* object may be unlocked by now, or locked by another agent.
ReplicaCloseUpdatesOnError(a) ==
    /\ pc[a] = "failing"
    /\ catalog' \in {Publish(catalog, rst[a]), catalog}
    /\ rst' = [rst EXCEPT ![a] = NoEntry]
    /\ pc' = [pc EXCEPT ![a] = "broken"]
    /\ UNCHANGED <<contents, g_map, l1, info>>

\* With the update of the size only there is no update on error.
ReplicaCloseSizeNotPublished(a) ==
    /\ pc[a] = "open" /\ l1[a].mode # "read" /\ MayFinalize(a)
    /\ "size_only" \in Clients /\ "publish" \in Faults
    /\ catalog' \in FailedReplicaClose(a, "intermediate")
    /\ rst' = [rst EXCEPT ![a] = NoEntry]
    /\ pc' = [pc EXCEPT ![a] = "broken"]
    /\ UNCHANGED <<contents, g_map, l1, info>>

\* The file cannot be closed (the descriptor is freed) or its size cannot be
\* read (the descriptor stays in use): the access table keeps the agent.
ReplicaCloseFails(a) ==
    /\ pc[a] = "open" /\ l1[a].mode # "read" /\ MayFinalize(a) /\ "storage" \in Faults
    /\ Clients \cap {"replica_close", "status_only"} # {}
    /\ catalog' \in UnlockOutcomes(rst[a], l1[a].target, "stale", "restore")
    /\ \/ Done(a)
       \/ /\ "replica_close" \in Clients
          /\ rst' = [rst EXCEPT ![a] = NoEntry]
          /\ pc' = [pc EXCEPT ![a] = "broken"]
          /\ UNCHANGED l1
    /\ UNCHANGED <<contents, g_map, info>>

\* The same without the update of the status: the object stays as it is.
ReplicaCloseFailsSilently(a) ==
    /\ l1[a].mode # "read" /\ "storage" \in Faults
    /\ \/ pc[a] = "finished"
       \/ pc[a] = "open" /\ Clients \cap {"undisciplined", "size_only"} # {} /\ MayFinalize(a)
    /\ rst' = [rst EXCEPT ![a] = NoEntry]
    /\ pc' = [pc EXCEPT ![a] = "broken"]
    /\ UNCHANGED <<catalog, contents, g_map, l1, info>>

\* rsDataObjClose of a descriptor on which replica_close failed: there is no
\* table entry to be published.
CloseBroken(a) ==
    /\ pc[a] = "broken" /\ "close" \in Clients
    /\ g_map' = ErasedFor(a)
    /\ Done(a)
    /\ UNCHANGED <<catalog, contents, info>>

\* The access table is left last.
ReplicaCloseReleases(a) ==
    /\ pc[a] = "released"
    /\ g_map' = ErasedFor(a)
    /\ Done(a)
    /\ UNCHANGED <<catalog, contents, info>>

-----------------------------------------------------------------------------
(* The end of an agent.                                                    *)

\* The client is gone: close_all_l1_descriptors closes the file and leaves the
\* access table ...  With "lost_stream" this happens to any stream, also while
\* others have the replica open; without it only to an agent that nobody shares
\* its replica with any more.
Exit(a) ==
    /\ pc[a] \in {"open", "finished"} /\ "exit" \in Clients
    /\ l1[a].mode = "read" \/ MayFinalize(a) \/ "lost_stream" \in Faults
    /\ g_map' = IF l1[a].mode = "read" THEN g_map ELSE ErasedFor(a)
    /\ pc' = [pc EXCEPT ![a] = "exiting"]
    /\ UNCHANGED <<catalog, contents, rst, l1, info>>

\* ... finalizes what was open for writing, and the process ends.  Another
\* agent takes its place.
ExitFinalizes(a) ==
    /\ pc[a] = "exiting"
    /\ IF l1[a].mode = "read" THEN UNCHANGED catalog
       ELSE catalog' \in UnlockOutcomes(rst[a], l1[a].target, "stale", "restore")
    /\ g_map' = EraseAllOfPid(g_map, a)
    /\ Done(a)
    /\ UNCHANGED <<contents, info>>

\* Nothing is open, or only a descriptor whose file is closed already.
ExitWithoutOpenFile(a) ==
    /\ pc[a] \in {"idle", "broken"}
    /\ g_map' = EraseAllOfPid(g_map, a)
    /\ Done(a)
    /\ UNCHANGED <<catalog, contents, info>>

\* The process is killed.
Crash(a) ==
    /\ "crash" \in Faults /\ pc[a] \notin {"crashed", "reaped"}
    /\ pc' = [pc EXCEPT ![a] = "crashed"]
    /\ l1' = [l1 EXCEPT ![a] = NoDesc]
    /\ rst' = [rst EXCEPT ![a] = NoEntry]
    /\ info' = [info EXCEPT ![a] = NoRows]
    /\ UNCHANGED <<catalog, contents, g_map>>

\* The agent factory collects the process and removes its file under proc/.
Reap(a) ==
    /\ pc[a] = "crashed"
    /\ pc' = [pc EXCEPT ![a] = "reaped"]
    /\ UNCHANGED <<catalog, contents, g_map, rst, l1, info>>

-----------------------------------------------------------------------------

\* Any object whose good replicas agree, at rest, and nobody around.
Init ==
    /\ catalog \in [Replicas -> {NoRow} \cup {MkRow(s, "none") : s \in AtRestStatus}]
    /\ contents \in [Replicas -> Versions]
    /\ \A r, s \in Replicas :
        catalog[r].status = "good" /\ catalog[s].status = "good" => contents[r] = contents[s]
    /\ g_map = << >>
    /\ rst = [a \in Pids |-> NoEntry]
    /\ pc = [a \in Pids |-> "idle"]
    /\ l1 = [a \in Pids |-> NoDesc]
    /\ info = [a \in Pids |-> NoRows]

\* A client asks for something.
Request(a) ==
    \/ \E r \in Replicas, m \in {"read", "write", "create"}, t \in Tokens \cup {NoToken} :
        Resolve(a, r, m, t)
    \/ Write(a)

\* The agent proceeds with the open it is working on.
OpenStep(a) ==
    \/ OpenDenied(a) \/ ReadGranted(a) \/ LockObject(a) \/ JoinObject(a)
    \/ OpenReplica(a) \/ TruncateReplica(a) \/ OpenFails(a)
    \/ ChooseRatUpdate(a) \/ CreateRatEntry(a) \/ AppendToRatEntry(a) \/ RatUpdateFails(a)

CreateStep(a) ==
    \/ CreateDenied(a) \/ LockForCreate(a) \/ RegisterReplica(a) \/ RegistrationFails(a)
    \/ CreatePhysicalFile(a) \/ CreatePhysicalFileFails(a) \/ CleanUpUnlocks(a)
    \/ CleanUpUnregisters(a) \/ CreateRatFails(a)

\* The client closes what it has open, or is gone.
Leave(a) ==
    \/ FinishWriting(a) \/ CloseRead(a) \/ Close(a)
    \/ ReplicaCloseSilently(a) \/ ReplicaClose(a) \/ ReplicaCloseSizeOnly(a)
    \/ ReplicaCloseNotPublished(a) \/ ReplicaCloseSizeNotPublished(a)
    \/ ReplicaCloseFails(a) \/ ReplicaCloseFailsSilently(a)
    \/ CloseBroken(a) \/ Exit(a)

CloseStep(a) ==
    \/ FinalizeDataObject(a) \/ FinalizeNotPublished(a) \/ FinalizeThrows(a)
    \/ FinalizeFailedOperation(a) \/ ReplicaCloseUpdatesOnError(a)
    \/ ReplicaCloseReleases(a) \/ ExitFinalizes(a)

Next ==
    \E a \in Pids :
        Request(a) \/ OpenStep(a) \/ CreateStep(a) \/ Leave(a) \/ CloseStep(a)
        \/ ExitWithoutOpenFile(a) \/ Crash(a) \/ Reap(a)

Spec == Init /\ [][Next]_vars

-----------------------------------------------------------------------------

\* The catalog, the tables and the descriptors have their types; in particular
\* the special value restore_status is never stored as the status of a replica.
TypeOK ==
    /\ catalog \in Rows
    /\ contents \in [Replicas -> Versions]
    /\ g_map \in Table
    /\ rst \in [Pids -> RstEntry]
    /\ pc \in [Pids -> PC]
    /\ l1 \in [Pids -> Descriptor]
    /\ info \in [Pids -> Rows]

\* The agent has been allowed to modify its replica and has not given it back.
Writing(a) ==
    /\ l1[a].mode # "read"
    /\ pc[a] \in {"granted", "opened", "rat_create", "rat_update", "open", "closing", "exiting"}

\* "If the selected replica is part of a locked data object or is in the
\* intermediate state (and no valid replica access token can be found), the open
\* should be denied": an agent that may modify a replica finds that replica
\* intermediate and every sibling write-locked in the catalog from the end of its
\* open to the end of its close: nobody unlocked the object under it.  The server
\* has no check that says so.  It is false as soon as a secondary stream fails or
\* ends before its primary ("lost_stream", "open_file", "undisciplined"), two opens
\* overlap, or a replica_close publishes twice ("republish").
WritersHoldTheLock ==
    \A a \in Pids : Writing(a) =>
        \A r \in Present(catalog) :
            catalog[r].status = IF r = l1[a].target THEN "intermediate" ELSE "write_locked"

\* "Otherwise, multiple replicas can be created on the same data object
\* simultaneously in an uncoordinated fashion": at most one agent has locked the
\* object; everybody else who modifies it came with the token of that agent.
OnePrimary ==
    \A a, b \in Pids : Writing(a) /\ Writing(b) /\ a # b => Joined(a) \/ Joined(b)

\* Replicas that are good, or will be good again when the lock goes away, hold
\* the same bytes.  rsDataObjClose trusts the primary stream to know whether the
\* file was modified, so this needs a primary that writes when its secondary
\* streams do and outlives them (neither "idle_primary" nor "lost_stream").
GoodReplicasAgree ==
    \A r, s \in Replicas :
        /\ catalog[r].status # "intermediate" /\ Underlying(catalog[r]) = "good"
        /\ catalog[s].status # "intermediate" /\ Underlying(catalog[s]) = "good"
        => contents[r] = contents[s]

\* When every agent is between requests with nothing open, the object is
\* unlocked.  Every open, create and close gave the lock back that got as far as
\* the unlock, failures of the storage included; a close that throws before it
\* ("metadata"), a catalog update that fails and a killed agent leave the lock.
QuiescentIsAtRest ==
    (\A a \in Pids : pc[a] = "idle") => \A r \in Present(catalog) : AtRest(catalog[r])

\* "the agent for this connection may be re-used for another open operation which
\* would expect the RST to be cleaned up"
IdleAgentHasNoEntry == \A a \in Pids : pc[a] = "idle" => rst[a] = NoEntry

\* The access table lists exactly the agents that have the replica open for
\* writing, under the token in their descriptors.
TableMatchesDescriptors ==
    \A a \in Pids, t \in Tokens :
        (t \in DOMAIN g_map /\ g_map[t].agent_pids[a] > 0) <=>
        /\ pc[a] \in {"open", "finished", "failing", "released", "broken"}
        /\ l1[a].mode # "read" /\ l1[a].token = t

\* A write-locked row has recorded the status it is to be given back, whichever
\* opens overlap and whichever stream, file or update of a close fails: unlocking
\* can always restore the siblings.
LockedRowsRememberStatus ==
    \A r \in Replicas :
        catalog[r].status = "write_locked" => catalog[r].original # "none"

\* rat::contains and the operation chosen after it are not one step, yet a
\* replica never has two tokens.
OneTokenPerReplica == UniqueReplicas(g_map)
=============================================================================
