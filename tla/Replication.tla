---------------------------- MODULE Replication -----------------------------
(***************************************************************************)
(* rsDataObjRepl: an agent copies one replica of a data object over        *)
(* another, or into a new one, while other agents write the object or      *)
(* replicate it too.                                                       *)
(*                                                                         *)
(* The agent reads the catalog three times before anything is locked: for  *)
(* the source, for the destination, and when it opens the source.  The     *)
(* destination is then opened like any replica, with O_CREAT and O_TRUNC,  *)
(* by the actions of DataObjectAccess, which read the catalog once more.   *)
(* The descriptor of the source is part of repl, l1 holds that of the      *)
(* destination.                                                            *)
(***************************************************************************)
EXTENDS DataObjectSession

CONSTANT Mishaps    \* what happens to replications, see MishapKinds

(* "copy"      the copying of the data fails
   "finalize"  the catalog update of a replication that succeeded fails
   "notify"    it is made, but the fileModified that follows it fails
   "reuse"     a connection is used again, or ALL_KW goes on with the next
               replica, after a failed replication left an entry in the
               replica state table                                          *)
MishapKinds == {"copy", "finalize", "notify", "reuse"}

ASSUME MishapAssumption == Mishaps \subseteq MishapKinds

VARIABLES
    repl,       \* each agent's replication
    excused     \* history: a replication ended with a bad copy, see Excused

rvars == <<vars, repl, excused>>

\* The source and the status it had when it was looked up, the destinations to
\* be updated, the one at hand, and what the source held when it was opened.
Replicating(stage, s, status, todo, d, seen) ==
    [stage |-> stage, source |-> s, status |-> status, todo |-> todo, dest |-> d, seen |-> seen]

NoReplication == Replicating("none", NoReplica, "absent", {}, NoReplica, {})

At(a, stage) == repl[a].stage = stage

Becomes(a, r) == repl' = [repl EXCEPT ![a] = r]

\* The agent goes on with the destination d.
AtStage(a, stage, d, seen) ==
    Becomes(a, Replicating(stage, repl[a].source, repl[a].status, repl[a].todo, d, seen))

\* The agent is done with the destination d; only update_all_existing_replicas
\* has others, and it goes on with them whether this one failed or not.
LeaveDestination(a, d) ==
    LET rest == repl[a].todo \ {d} IN
    Becomes(a, IF rest = {} THEN NoReplication
               ELSE Replicating("checked", repl[a].source, repl[a].status, rest, NoReplica, {}))

\* A failure that leaves an entry in the agent's replica state table is in order.
MayLeaveEntry(a) == "reuse" \in Mishaps \/ repl[a].todo = {repl[a].dest}

\* The client has sent no request that is not answered.
Free(a) ==
    /\ At(a, "none") /\ pc[a] = "idle"
    /\ "reuse" \in Mishaps \/ rst[a] = NoEntry

-----------------------------------------------------------------------------
(* replicate_data_object and update_all_existing_replicas.                 *)

\* The source is looked up ...
ResolveSource(a, s) ==
    /\ Free(a) /\ s \in Present(catalog)
    /\ Becomes(a, Replicating("resolving", s, catalog[s].status, {}, NoReplica, {}))
    /\ UNCHANGED <<vars, excused>>

\* ... and then the destination.  A replica that exists is only updated from a
\* good one, and not when it is good itself.
ReplicateDataObject(a, d) ==
    /\ At(a, "resolving")
    /\ IF d \in Present(catalog)
          /\ (repl[a].status # "good" \/ d = repl[a].source \/ catalog[d].status = "good")
       THEN Becomes(a, NoReplication)
       ELSE Becomes(a, Replicating("checked", repl[a].source, repl[a].status, {d}, NoReplica, {}))
    /\ UNCHANGED <<vars, excused>>

\* With ALL_KW: all the stale replicas, from a good one.
UpdateAllExistingReplicas(a) ==
    LET stale == {r \in Present(catalog) \ {repl[a].source} : catalog[r].status = "stale"} IN
    /\ At(a, "resolving")
    /\ IF repl[a].status # "good" \/ stale = {} THEN Becomes(a, NoReplication)
       ELSE Becomes(a, Replicating("checked", repl[a].source, repl[a].status, stale, NoReplica, {}))
    /\ UNCHANGED <<vars, excused>>

-----------------------------------------------------------------------------
(* replicate_data.                                                         *)

\* open_source_replica: opened for read, nothing is locked.  The size and the
\* checksum in the descriptor are those of now.
OpenSourceReplica(a) ==
    LET s == repl[a].source IN
    /\ At(a, "checked")
    /\ \E d \in repl[a].todo :
        IF s \in Present(catalog) /\ TryLockReplica(catalog, s, FALSE)
        THEN AtStage(a, "source_open", d, {contents[s]})
        ELSE LeaveDestination(a, d)
    /\ UNCHANGED <<vars, excused>>

\* open_destination_replica: whether it is opened or created depends on the
\* catalog as it is now.
OpenDestinationReplica(a) ==
    /\ At(a, "source_open")
    /\ Resolve(a, repl[a].dest,
               IF repl[a].dest \in Present(catalog) THEN "write" ELSE "create", NoToken)
    /\ AtStage(a, "destination", repl[a].dest, repl[a].seen)
    /\ UNCHANGED excused

\* The steps of that open; the file is truncated.
OpenDestinationStep(a) ==
    /\ At(a, "destination")
    /\ \/ OpenDenied(a) \/ LockObject(a) \/ TruncateReplica(a) \/ OpenFails(a)
       \/ ChooseRatUpdate(a) \/ CreateRatEntry(a) \/ RatUpdateFails(a) \/ CreateStep(a)
    /\ UNCHANGED <<repl, excused>>

\* The destination could not be opened: the source is closed, which erases the
\* table entry.
DestinationNotOpened(a) ==
    /\ At(a, "destination") /\ pc[a] = "idle"
    /\ rst' = [rst EXCEPT ![a] = NoEntry]
    /\ LeaveDestination(a, repl[a].dest)
    /\ UNCHANGED <<catalog, contents, g_map, pc, l1, info, excused>>

\* The source is what it was when it was opened.
SourceUnchanged(a) == contents[repl[a].source] \in repl[a].seen

\* dataObjCopy copies as many bytes as the source had when it was opened: of a
\* source that was rewritten since then perhaps not all, and it fails if there
\* are fewer.
DataObjCopy(a) ==
    LET d == repl[a].dest
        whole == contents[repl[a].source] IN
    /\ At(a, "destination") /\ pc[a] = "open"
    /\ \/ /\ \E v \in {whole} \cup (IF SourceUnchanged(a) THEN {} ELSE Fresh) :
                contents' = [contents EXCEPT ![d] = v]
          /\ AtStage(a, "copied", d, repl[a].seen)
       \/ /\ MayLeaveEntry(a) /\ ("copy" \in Mishaps \/ ~ SourceUnchanged(a))
          /\ \E v \in Fresh : contents' = [contents EXCEPT ![d] = v]
          /\ AtStage(a, "copy_failed", d, repl[a].seen)
    /\ UNCHANGED <<catalog, g_map, rst, pc, l1, info, excused>>

\* Mutant: the access table is not left.
CloseReplicas_keeps_pid(a) ==
    /\ pc[a] = "open" /\ (At(a, "copied") \/ At(a, "copy_failed"))
    /\ pc' = [pc EXCEPT ![a] = "closing"]
    /\ UNCHANGED <<catalog, contents, g_map, rst, l1, info, repl, excused>>

\* Both replicas are closed without catalog updates; the agent leaves the
\* access table also when closing the file fails.
CloseReplicas(a) ==
    /\ pc[a] = "open" /\ (At(a, "copied") \/ At(a, "copy_failed"))
    /\ g_map' = ErasedFor(a)
    /\ pc' = [pc EXCEPT ![a] = "closing"]
    /\ UNCHANGED <<catalog, contents, rst, l1, info, repl, excused>>

\* The destination becomes stale and the other replicas what they were.
FailedEntry(a) == UnlockTarget(rst[a], repl[a].dest, "stale", "restore")

\* Mutant: the lock is forgotten.
FinalizeOnFailure_keeps_lock(a) ==
    /\ pc[a] = "closing" /\ At(a, "copy_failed")
    /\ Done(a)
    /\ LeaveDestination(a, repl[a].dest)
    /\ UNCHANGED <<catalog, contents, g_map, info, excused>>

\* finalize_destination_replica_on_failure: the table entry is left behind.
FinalizeOnFailure(a) ==
    /\ pc[a] = "closing" /\ At(a, "copy_failed")
    /\ catalog' \in Published(FailedEntry(a))
    /\ rst' = [rst EXCEPT ![a] = FailedEntry(a)]
    /\ pc' = [pc EXCEPT ![a] = "idle"]
    /\ l1' = [l1 EXCEPT ![a] = NoDesc]
    /\ LeaveDestination(a, repl[a].dest)
    /\ UNCHANGED <<contents, g_map, info, excused>>

\* The same in finalize_destination_replica when the size or the checksum is
\* not the one of the source's descriptor or cannot be found.
FinalizeNotVerified(a) ==
    /\ pc[a] = "closing" /\ At(a, "copied") /\ MayLeaveEntry(a)
    /\ "storage" \in Faults \/ contents[repl[a].dest] \notin repl[a].seen
    /\ catalog' \in Published(FailedEntry(a))
    /\ rst' = [rst EXCEPT ![a] = FailedEntry(a)]
    /\ pc' = [pc EXCEPT ![a] = "idle"]
    /\ l1' = [l1 EXCEPT ![a] = NoDesc]
    /\ LeaveDestination(a, repl[a].dest)
    /\ UNCHANGED <<contents, g_map, info, excused>>

\* Mutant: the copy is always good.
ReplicatedEntry_always_good(a) == UnlockTarget(rst[a], repl[a].dest, "good", "restore")

\* Mutant: the siblings become stale, as at the end of a write.
ReplicatedEntry_stales(a) ==
    UnlockTarget(rst[a], repl[a].dest, rst[a].after[repl[a].source].original, "stale")

\* The destination gets the status that the source had when the destination
\* was opened.
ReplicatedEntry(a) ==
    UnlockTarget(rst[a], repl[a].dest, rst[a].after[repl[a].source].original, "restore")

\* A replica became good whose source was rewritten after it was opened and
\* before the object was locked, or whose file was removed.
Excused(a) ==
    /\ catalog'[repl[a].dest].status = "good"
    /\ ~ SourceUnchanged(a) \/ contents' # contents

\* finalize_destination_replica: the file is removed when the update or the
\* notification fails.
FinalizeDestinationReplica(a) ==
    LET removed == {[contents EXCEPT ![repl[a].dest] = v] : v \in Fresh} IN
    /\ pc[a] = "closing" /\ At(a, "copied")
    /\ \/ /\ catalog' = Publish(catalog, ReplicatedEntry(a))
          /\ UNCHANGED contents
       \/ /\ "notify" \in Mishaps
          /\ catalog' = Publish(catalog, ReplicatedEntry(a))
          /\ contents' \in removed
       \/ /\ "finalize" \in Mishaps
          /\ catalog' \in Published(SetStatus(ReplicatedEntry(a), repl[a].dest, "stale"))
          /\ contents' \in removed
    /\ Done(a)
    /\ LeaveDestination(a, repl[a].dest)
    /\ excused' = (excused \/ Excused(a))
    /\ UNCHANGED <<g_map, info>>

-----------------------------------------------------------------------------

\* Requests and steps of an agent whose client writes a replica.
WriteRequest(a) ==
    /\ \/ Free(a) /\ \E r \in Replicas : Resolve(a, r, "write", NoToken)
       \/ At(a, "none") /\ Write(a)
    /\ UNCHANGED <<repl, excused>>

WriterStep(a) ==
    /\ At(a, "none")
    /\ \/ OpenDenied(a) \/ LockObject(a) \/ OpenReplica(a) \/ OpenFails(a)
       \/ ChooseRatUpdate(a) \/ CreateRatEntry(a) \/ RatUpdateFails(a)
       \/ Close(a) \/ FinalizeDataObject(a) \/ FinalizeNotPublished(a) \/ FinalizeThrows(a)
       \/ FinalizeFailedOperation(a)
    /\ UNCHANGED <<repl, excused>>

Disconnect(a) == At(a, "none") /\ ExitWithoutOpenFile(a) /\ UNCHANGED <<repl, excused>>

ReplicationStep(a) ==
    \/ UpdateAllExistingReplicas(a) \/ \E d \in Replicas : ReplicateDataObject(a, d)
    \/ OpenSourceReplica(a) \/ OpenDestinationReplica(a) \/ OpenDestinationStep(a)
    \/ DestinationNotOpened(a) \/ DataObjCopy(a) \/ CloseReplicas(a)
    \/ FinalizeOnFailure(a) \/ FinalizeNotVerified(a) \/ FinalizeDestinationReplica(a)

RInit ==
    /\ Init
    /\ repl = [a \in Pids |-> NoReplication]
    /\ excused = FALSE

RNext ==
    \E a \in Pids :
        \/ WriteRequest(a) \/ WriterStep(a) \/ Disconnect(a)
        \/ \E s \in Replicas : ResolveSource(a, s)
        \/ ReplicationStep(a)

RSpec == RInit /\ [][RNext]_rvars

-----------------------------------------------------------------------------

RSession == INSTANCE ReplicatedSession WITH
    replicas <- Present(catalog), good <- GoodReplicas, locked <- Locked, target <- SessionTarget

\* Replications and writes of an object are sessions, one after the other, and a
\* replication only ever adds its destination to the good replicas or loses it:
\* finalize_destination_replica restores the siblings on every path.
IsReplicatedSession == RSession!ReplicatedSpec

\* Good replicas hold the same bytes, unless a replication ended whose source was
\* rewritten before the object was locked (dataObjCopy goes by the old size), or
\* whose notification failed (finalize_destination_replica removes the file of
\* the good replica).  Nothing else, in particular no other failure and no race
\* with a writer or another replication, makes good replicas differ.
GoodReplicasAgreeUnlessExcused == ~ excused => GoodReplicasAgree

\* "If the source replica is not good, it cannot be used to update an existing
\* replica": the replica whose data is about to overwrite another one is good.
SourceIsGood ==
    \A a \in Pids :
        At(a, "destination") /\ pc[a] = "open" /\ l1[a].mode = "write" =>
            Underlying(catalog[repl[a].source]) = "good"
=============================================================================
