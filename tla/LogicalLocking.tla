--------------------------- MODULE LogicalLocking ---------------------------
(***************************************************************************)
(* Logical locking of one data object: server/core/src/logical_locking.cpp *)
(* on top of an agent's replica state table entry                          *)
(* (server/core/src/replica_state_table.cpp) and the catalog columns       *)
(* data_is_dirty and data_status of R_DATA_MAIN.                           *)
(*                                                                         *)
(* Rows are the rows of the data object, one per replica; a replica with   *)
(* status "absent" has no row.  data_status holds a JSON object whose only *)
(* member is original_status: here that status, or "none" when the column  *)
(* is empty.  The module has no variables: the agents apply its operators  *)
(* to the catalog and to their own table entries.                          *)
(***************************************************************************)
EXTENDS ReplicaAccessMap

\* The replica_status values that the server writes; nothing sets READ_LOCKED.
AtRestStatus == {"stale", "good"}
LockStatus == {"intermediate", "write_locked"}
Status == AtRestStatus \cup LockStatus

\* data_is_dirty is -1 ("none") when replica_close restores a status that was
\* never recorded.
Stored == Status \cup {"absent", "none"}
Row == [status : Stored, original : Stored]
Rows == [Replicas -> Row]

NoRow == [status |-> "absent", original |-> "none"]
NoRows == [r \in Replicas |-> NoRow]

MkRow(s, o) == [status |-> s, original |-> o]

\* The replicas that have a row.
Present(rows) == {r \in Replicas : rows[r].status # "absent"}

-----------------------------------------------------------------------------
(* Replica state table.  An entry lists the replicas of the object as they *)
(* were read ("before") and as they are to be written ("after").  Of       *)
(* "before" only data_is_dirty is ever read back.  An entry lists at least *)
(* one replica, so the entry without replicas stands for "no entry".       *)

RstEntry == [before : [Replicas -> Stored], after : Rows]

NoEntry == [before |-> [r \in Replicas |-> "absent"], after |-> NoRows]

RstContains(e) == e # NoEntry

\* insert(data_object_proxy): an entry that exists is left as it is.
RstInsert(e, rows) ==
    IF RstContains(e) THEN e
    ELSE [before |-> [r \in Replicas |-> rows[r].status], after |-> rows]

\* insert(replica_proxy): the replica is appended to the entry, if there is one.
RstInsertReplica(e, r, row) ==
    [before |-> [e.before EXCEPT ![r] = row.status], after |-> [e.after EXCEPT ![r] = row]]

RstWithAfter(e, rows) == [before |-> e.before, after |-> rows]

\* rst::update and rst::at throw for a replica that is not in the entry.
RstHas(e, r) == r \in Present(e.after)

\* data_object_finalize: every replica of the entry overwrites its row,
\* whatever the row holds now; a replica without a row updates nothing.
Publish(catalog, e) ==
    [r \in Replicas |->
        IF r \in Present(catalog) \cap Present(e.after) THEN e.after[r] ELSE catalog[r]]

-----------------------------------------------------------------------------
(* Locking.                                                                *)

\* insert_data_status: the first lock records the status that was read; an
\* original status that is already recorded is kept.
InsertDataStatus(e) ==
    [r \in Replicas |->
        IF e.after[r].status = "absent" THEN e.after[r]
        ELSE MkRow(e.after[r].status,
                   IF e.after[r].original # "none" THEN e.after[r].original ELSE e.before[r])]

\* lock_impl for a write lock on a given target: the target becomes
\* intermediate, its siblings write-locked.
LockTarget(e, target) ==
    LET rows == InsertDataStatus(e) IN
    RstWithAfter(e, [r \in Replicas |->
        IF rows[r].status = "absent" THEN rows[r]
        ELSE MkRow(IF r = target THEN "intermediate" ELSE "write_locked", rows[r].original)])

\* Mutant: the original statuses are not recorded.
LockAll_without_original(e) ==
    RstWithAfter(e, [r \in Replicas |->
        IF e.after[r].status = "absent" THEN e.after[r]
        ELSE MkRow("write_locked", e.after[r].original)])

\* lock_impl for unknown_replica_id: there is no target to be made intermediate.
LockAll(e) ==
    LET rows == InsertDataStatus(e) IN
    RstWithAfter(e, [r \in Replicas |->
        IF rows[r].status = "absent" THEN rows[r]
        ELSE MkRow("write_locked", rows[r].original)])

\* restore_replica_statuses and set_replica_statuses for one sibling.
RestoredSibling(row) == IF row.original # "none" THEN row.original ELSE row.status

\* Mutant: the siblings are always given back their statuses.
SiblingStatus_always_restores(row, others) == RestoredSibling(row)

SiblingStatus(row, others) == IF others = "restore" THEN RestoredSibling(row) ELSE others

\* The target of an unlock that restores: stale when no original is recorded.
RestoredTarget(row) == IF row.original # "none" THEN row.original ELSE "stale"

\* Mutant: restore_status is written as if it were a status.
TargetStatus_unresolved(row, status) == status

TargetStatus(row, status) == IF status = "restore" THEN RestoredTarget(row) ELSE status

\* unlock_impl: the target and its siblings get their statuses, and
\* data_status is emptied in every row of the entry.
UnlockTarget(e, target, status, others) ==
    RstWithAfter(e, [r \in Replicas |->
        IF e.after[r].status = "absent" THEN e.after[r]
        ELSE MkRow(IF r = target THEN TargetStatus(e.after[r], status)
                                 ELSE SiblingStatus(e.after[r], others), "none")])

\* unlock_impl for unknown_replica_id, always called to restore everything.
UnlockAll(e) ==
    RstWithAfter(e, [r \in Replicas |->
        IF e.after[r].status = "absent" THEN e.after[r]
        ELSE MkRow(RestoredSibling(e.after[r]), "none")])

\* rst::update of data_is_dirty of one replica.
SetStatus(e, target, status) ==
    RstWithAfter(e, [e.after EXCEPT ![target] = MkRow(status, e.after[target].original)])

-----------------------------------------------------------------------------
(* try_lock: may the object, as it was read from the catalog, be opened?   *)

\* Without a target, or with one that is not in the list of replicas.
TryLockObject(rows) == \A r \in Replicas : rows[r].status \notin LockStatus

\* Mutant: a write lock does not stop anybody.
TryLockReplica_ignores_write_lock(rows, target, tokenIsValid) ==
    rows[target].status = "intermediate" => tokenIsValid

\* With a target: only the target's own status is looked at, and the token
\* (which rat::contains has found, or not) only when the target is intermediate.
TryLockReplica(rows, target, tokenIsValid) ==
    /\ rows[target].status = "intermediate" => tokenIsValid
    /\ rows[target].status # "write_locked"

-----------------------------------------------------------------------------

\* The status a row has, or had before its object was locked.
Underlying(row) == IF row.original # "none" THEN row.original ELSE row.status

\* The row is unlocked.
AtRest(row) == row.status \in AtRestStatus /\ row.original = "none"
=============================================================================
