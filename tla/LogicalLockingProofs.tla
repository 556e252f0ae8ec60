------------------------ MODULE LogicalLockingProofs ------------------------
(***************************************************************************)
(* What the operators on the map of the replica access table and those of  *)
(* logical locking preserve, for every table and every data object.        *)
(***************************************************************************)
EXTENDS LogicalLocking, TLAPS

\* Zenon proves most leaves; those that need another prover cite it.
USE ZenonT(30)


-----------------------------------------------------------------------------
(* The map of the replica access table.                                    *)

\* A table is a function from some of the tokens to entries.
LEMMA TableMembership ==
    ASSUME NEW m
    PROVE  m \in Table <=> DOMAIN m \subseteq Tokens /\ m \in [DOMAIN m -> Entry]
BY DEF Table

\* Inserting an entry for a token keeps every other entry.
LEMMA InsertTable ==
    ASSUME NEW m \in Table, NEW t \in Tokens, NEW r \in Replicas, NEW p \in Pids
    PROVE  /\ Insert(m, t, r, p) \in Table
           /\ Insert(m, t, r, p)[t].agent_pids[p] > 0
<1>1. m \in [DOMAIN m -> Entry] /\ DOMAIN m \subseteq Tokens
  BY TableMembership
<1>2. OnlyPid(p) \in [Pids -> Occurrences]
  BY BoundAssumption, SMT DEF OnlyPid, Occurrences
<1>3. [replica |-> r, agent_pids |-> OnlyPid(p)] \in Entry
  BY <1>2 DEF Entry
<1>4. /\ DOMAIN Insert(m, t, r, p) = DOMAIN m \cup {t}
      /\ Insert(m, t, r, p) \in [DOMAIN m \cup {t} -> Entry]
  BY <1>1, <1>3 DEF Insert
<1>5. Insert(m, t, r, p) \in Table
  BY <1>1, <1>4, TableMembership
<1>6. Insert(m, t, r, p)[t] = [replica |-> r, agent_pids |-> OnlyPid(p)]
  BY DEF Insert
<1>7. OnlyPid(p)[p] > 0
  BY SMT DEF OnlyPid
<1> QED
  BY <1>4, <1>5, <1>6, <1>7 DEF Insert

\* Replacing the PID list of an entry changes nothing else.
LEMMA WithPidsTable ==
    ASSUME NEW m \in Table, NEW t \in DOMAIN m, NEW c \in [Pids -> Occurrences]
    PROVE  /\ WithPids(m, t, c) \in Table
           /\ DOMAIN WithPids(m, t, c) = DOMAIN m
           /\ WithPids(m, t, c)[t].agent_pids = c
           /\ \A u \in DOMAIN m : WithPids(m, t, c)[u].replica = m[u].replica
           /\ \A u \in DOMAIN m \ {t} : WithPids(m, t, c)[u] = m[u]
<1> DEFINE e == [replica |-> m[t].replica, agent_pids |-> c]
<1>1. m \in [DOMAIN m -> Entry] /\ DOMAIN m \subseteq Tokens
  BY TableMembership
<1>2. e \in Entry /\ e.replica = m[t].replica /\ e.agent_pids = c
  BY <1>1 DEF Entry
<1> HIDE DEF e
<1>3. /\ WithPids(m, t, c) = [m EXCEPT ![t] = e]
      /\ DOMAIN WithPids(m, t, c) = DOMAIN m
  BY <1>1 DEF WithPids, e
<1>4. WithPids(m, t, c) \in [DOMAIN m -> Entry]
  BY <1>1, <1>2, <1>3
<1>5. WithPids(m, t, c) \in Table
  BY <1>1, <1>3, <1>4, TableMembership
<1> QED
  BY <1>1, <1>2, <1>3, <1>5

\* DropEmpty restricts a table to the tokens whose entry has a PID.
LEMMA DropEmptyTable ==
    ASSUME NEW m \in Table
    PROVE  /\ DropEmpty(m) \in Table
           /\ DOMAIN DropEmpty(m) = {t \in DOMAIN m : \E p \in Pids : m[t].agent_pids[p] > 0}
           /\ DOMAIN DropEmpty(m) \subseteq DOMAIN m
           /\ \A t \in DOMAIN DropEmpty(m) :
                  DropEmpty(m)[t] = m[t] /\ \E p \in Pids : DropEmpty(m)[t].agent_pids[p] > 0
<1> DEFINE D == {t \in DOMAIN m : \E p \in Pids : m[t].agent_pids[p] > 0}
<1>1. m \in [DOMAIN m -> Entry] /\ DOMAIN m \subseteq Tokens /\ D \subseteq DOMAIN m
  BY TableMembership
<1>2. DropEmpty(m) = [t \in D |-> m[t]]
  BY DEF DropEmpty
<1> HIDE DEF D
<1>3. DOMAIN DropEmpty(m) = D /\ DropEmpty(m) \in [D -> Entry]
  BY <1>1, <1>2
<1>4. DropEmpty(m) \in Table
  BY <1>1, <1>3, TableMembership
<1> QED
  BY <1>1, <1>2, <1>3, <1>4 DEF D

\* The three ways in which PIDs enter or leave a table.
LEMMA PushPidTable ==
    ASSUME NEW m \in Table, NEW t \in DOMAIN m, NEW p \in Pids,
           m[t].agent_pids[p] < MaxOpens
    PROVE  /\ PushPid(m, t, p) \in Table
           /\ DOMAIN PushPid(m, t, p) = DOMAIN m
           /\ PushPid(m, t, p)[t].agent_pids[p] > 0
           /\ \A u \in DOMAIN m : PushPid(m, t, p)[u].replica = m[u].replica
           /\ \A u \in DOMAIN m \ {t} : PushPid(m, t, p)[u] = m[u]
<1> DEFINE c == [m[t].agent_pids EXCEPT ![p] = @ + 1]
<1>1. m[t].agent_pids \in [Pids -> Occurrences]
  BY TableMembership DEF Entry
<1>2. c \in [Pids -> Occurrences] /\ c[p] > 0
  BY <1>1, BoundAssumption, SMT DEF Occurrences
<1>3. PushPid(m, t, p) = WithPids(m, t, c)
  BY DEF PushPid
<1> HIDE DEF c
<1> QED
  BY <1>2, <1>3, WithPidsTable, SMT

LEMMA ErasePidTable ==
    ASSUME NEW m \in Table, NEW t \in DOMAIN m, NEW p \in Pids,
           m[t].agent_pids[p] > 0
    PROVE  /\ ErasePid(m, t, p) \in Table
           /\ DOMAIN ErasePid(m, t, p) \subseteq DOMAIN m
           /\ \A u \in DOMAIN ErasePid(m, t, p) :
                  /\ ErasePid(m, t, p)[u].replica = m[u].replica
                  /\ \E q \in Pids : ErasePid(m, t, p)[u].agent_pids[q] > 0
<1> DEFINE c == [m[t].agent_pids EXCEPT ![p] = @ - 1]
           w == WithPids(m, t, c)
<1>1. m[t].agent_pids \in [Pids -> Occurrences]
  BY TableMembership DEF Entry
<1>2. c \in [Pids -> Occurrences]
  BY <1>1, BoundAssumption, SMT DEF Occurrences
<1>3. ErasePid(m, t, p) = DropEmpty(w)
  BY DEF ErasePid
<1> HIDE DEF c
<1>4. w \in Table /\ DOMAIN w = DOMAIN m /\ \A u \in DOMAIN m : w[u].replica = m[u].replica
  BY <1>2, WithPidsTable
<1> HIDE DEF w
<1>5. /\ DropEmpty(w) \in Table /\ DOMAIN DropEmpty(w) \subseteq DOMAIN w
      /\ \A u \in DOMAIN DropEmpty(w) :
             DropEmpty(w)[u] = w[u] /\ \E q \in Pids : DropEmpty(w)[u].agent_pids[q] > 0
  BY <1>4, DropEmptyTable
<1> QED
  BY <1>3, <1>4, <1>5

LEMMA EraseAllOfPidTable ==
    ASSUME NEW m \in Table, NEW p \in Pids
    PROVE  /\ EraseAllOfPid(m, p) \in Table
           /\ DOMAIN EraseAllOfPid(m, p) \subseteq DOMAIN m
           /\ \A u \in DOMAIN EraseAllOfPid(m, p) :
                  /\ EraseAllOfPid(m, p)[u].replica = m[u].replica
                  /\ EraseAllOfPid(m, p)[u].agent_pids[p] = 0
                  /\ \E q \in Pids : EraseAllOfPid(m, p)[u].agent_pids[q] > 0
<1> DEFINE w == [t \in DOMAIN m |->
        [replica |-> m[t].replica, agent_pids |-> [m[t].agent_pids EXCEPT ![p] = 0]]]
<1>1. m \in [DOMAIN m -> Entry] /\ DOMAIN m \subseteq Tokens
  BY TableMembership
<1>2. \A t \in DOMAIN m : [m[t].agent_pids EXCEPT ![p] = 0] \in [Pids -> Occurrences]
  BY <1>1, BoundAssumption, SMT DEF Entry, Occurrences
<1>3. w \in [DOMAIN m -> Entry] /\ DOMAIN w = DOMAIN m
  BY <1>1, <1>2 DEF Entry
<1>4. w \in Table
  BY <1>1, <1>3, TableMembership
<1>5. \A u \in DOMAIN m : w[u].replica = m[u].replica /\ w[u].agent_pids[p] = 0
  BY <1>1 DEF Entry
<1>6. EraseAllOfPid(m, p) = DropEmpty(w)
  BY DEF EraseAllOfPid
<1> HIDE DEF w
<1>7. /\ DropEmpty(w) \in Table /\ DOMAIN DropEmpty(w) \subseteq DOMAIN w
      /\ \A u \in DOMAIN DropEmpty(w) :
             DropEmpty(w)[u] = w[u] /\ \E q \in Pids : DropEmpty(w)[u].agent_pids[q] > 0
  BY <1>4, DropEmptyTable
<1> QED
  BY <1>3, <1>5, <1>6, <1>7

-----------------------------------------------------------------------------
(* How often a PID occurs under a token.                                   *)

Count(m, t, q) == IF t \in DOMAIN m THEN m[t].agent_pids[q] ELSE 0

LEMMA CountType ==
    ASSUME NEW m \in Table, NEW t, NEW q \in Pids
    PROVE  Count(m, t, q) \in Nat
BY TableMembership, BoundAssumption, SMT DEF Count, Entry, Occurrences

LEMMA DropEmptyCount ==
    ASSUME NEW m \in Table, NEW t, NEW q \in Pids
    PROVE  Count(DropEmpty(m), t, q) = Count(m, t, q)
<1>1. m[t].agent_pids[q] \in Nat \/ t \notin DOMAIN m
  BY CountType DEF Count
<1>2. /\ DOMAIN DropEmpty(m) = {u \in DOMAIN m : \E p \in Pids : m[u].agent_pids[p] > 0}
      /\ \A u \in DOMAIN DropEmpty(m) : DropEmpty(m)[u] = m[u]
  BY DropEmptyTable
<1>3. CASE t \in DOMAIN m /\ t \notin DOMAIN DropEmpty(m)
  <2>1. ~ (m[t].agent_pids[q] > 0)
    BY <1>2, <1>3
  <2> QED
    BY <1>1, <1>3, <2>1, SMT DEF Count
<1>4. CASE t \notin DOMAIN m \/ t \in DOMAIN DropEmpty(m)
  BY <1>2, <1>4 DEF Count
<1> QED
  BY <1>3, <1>4

LEMMA InsertCount ==
    ASSUME NEW m \in Table, NEW t, t \notin DOMAIN m, NEW r, NEW p \in Pids, NEW u, NEW q \in Pids
    PROVE  Count(Insert(m, t, r, p), u, q) = IF u = t /\ q = p THEN 1 ELSE Count(m, u, q)
BY DEF Count, Insert, OnlyPid

LEMMA WithPidsCount ==
    ASSUME NEW m \in Table, NEW t \in DOMAIN m, NEW c, NEW u, NEW q \in Pids
    PROVE  Count(WithPids(m, t, c), u, q) = IF u = t THEN c[q] ELSE Count(m, u, q)
BY TableMembership DEF Count, WithPids

LEMMA PushCount ==
    ASSUME NEW m \in Table, NEW t \in DOMAIN m, NEW p \in Pids, NEW u, NEW q \in Pids
    PROVE  Count(PushPid(m, t, p), u, q) =
           IF u = t /\ q = p THEN Count(m, t, p) + 1 ELSE Count(m, u, q)
<1>1. m[t].agent_pids \in [Pids -> Occurrences]
  BY TableMembership DEF Entry
<1> DEFINE c == [m[t].agent_pids EXCEPT ![p] = @ + 1]
<1>2. c[q] = IF q = p THEN m[t].agent_pids[p] + 1 ELSE m[t].agent_pids[q]
  BY <1>1
<1>3. PushPid(m, t, p) = WithPids(m, t, c)
  BY DEF PushPid
<1> HIDE DEF c
<1>4. Count(PushPid(m, t, p), u, q) = IF u = t THEN c[q] ELSE Count(m, u, q)
  BY <1>3, WithPidsCount, SMT
<1> QED
  BY <1>2, <1>4 DEF Count

LEMMA EraseCount ==
    ASSUME NEW m \in Table, NEW t \in DOMAIN m, NEW p \in Pids, m[t].agent_pids[p] > 0,
           NEW u, NEW q \in Pids
    PROVE  Count(ErasePid(m, t, p), u, q) =
           IF u = t /\ q = p THEN Count(m, t, p) - 1 ELSE Count(m, u, q)
<1> DEFINE c == [m[t].agent_pids EXCEPT ![p] = @ - 1]
<1>1. m[t].agent_pids \in [Pids -> Occurrences]
  BY TableMembership DEF Entry
<1>2. c \in [Pids -> Occurrences] /\ c[q] = IF q = p THEN m[t].agent_pids[p] - 1 ELSE m[t].agent_pids[q]
  BY <1>1, BoundAssumption, SMT DEF Occurrences
<1>3. ErasePid(m, t, p) = DropEmpty(WithPids(m, t, c))
  BY DEF ErasePid
<1> HIDE DEF c
<1>4. WithPids(m, t, c) \in Table
  BY <1>2, WithPidsTable
<1>5. Count(ErasePid(m, t, p), u, q) = Count(WithPids(m, t, c), u, q)
  BY <1>3, <1>4, DropEmptyCount
<1>6. Count(ErasePid(m, t, p), u, q) = IF u = t THEN c[q] ELSE Count(m, u, q)
  BY <1>5, WithPidsCount, SMT
<1> QED
  BY <1>2, <1>6 DEF Count

LEMMA EraseAllCount ==
    ASSUME NEW m \in Table, NEW p \in Pids, NEW u, NEW q \in Pids
    PROVE  Count(EraseAllOfPid(m, p), u, q) = IF q = p THEN 0 ELSE Count(m, u, q)
<1> DEFINE w == [t \in DOMAIN m |->
        [replica |-> m[t].replica, agent_pids |-> [m[t].agent_pids EXCEPT ![p] = 0]]]
<1>1. m \in [DOMAIN m -> Entry] /\ DOMAIN m \subseteq Tokens
  BY TableMembership
<1>2. \A t \in DOMAIN m : /\ m[t].agent_pids \in [Pids -> Occurrences]
                          /\ [m[t].agent_pids EXCEPT ![p] = 0] \in [Pids -> Occurrences]
  BY <1>1, BoundAssumption, SMT DEF Entry, Occurrences
<1>3. w \in [DOMAIN m -> Entry] /\ DOMAIN w = DOMAIN m
  BY <1>1, <1>2 DEF Entry
<1>4. w \in Table
  BY <1>1, <1>3, TableMembership
<1>5. Count(w, u, q) = IF q = p THEN 0 ELSE Count(m, u, q)
  BY <1>2 DEF Count
<1>6. EraseAllOfPid(m, p) = DropEmpty(w)
  BY DEF EraseAllOfPid
<1> HIDE DEF w
<1> QED
  BY <1>4, <1>5, <1>6, DropEmptyCount

-----------------------------------------------------------------------------
(* Rows and entries of the replica state table.                            *)

\* Rows and entries are built from statuses.
LEMMA MkRowType ==
    ASSUME NEW s \in Stored, NEW o \in Stored
    PROVE  MkRow(s, o) \in Row
BY DEF MkRow, Row

LEMMA StatusesAreStored ==
    /\ "stale" \in Stored /\ "good" \in Stored /\ "none" \in Stored /\ "absent" \in Stored
    /\ "intermediate" \in Stored /\ "write_locked" \in Stored
    /\ "restore" \notin Stored
BY DEF Stored, Status, AtRestStatus, LockStatus

LEMMA NoRowsType == NoRow \in Row /\ NoRows \in Rows /\ NoEntry \in RstEntry
BY StatusesAreStored DEF NoRow, Row, NoRows, Rows, NoEntry, RstEntry

LEMMA RowFields ==
    ASSUME NEW rows \in Rows, NEW r \in Replicas
    PROVE  rows[r] \in Row /\ rows[r].status \in Stored /\ rows[r].original \in Stored
BY DEF Rows, Row

LEMMA EntryFields ==
    ASSUME NEW e \in RstEntry
    PROVE  e.after \in Rows /\ e.before \in [Replicas -> Stored]
BY DEF RstEntry

LEMMA WithAfterType ==
    ASSUME NEW e \in RstEntry, NEW rows \in Rows
    PROVE  /\ RstWithAfter(e, rows) \in RstEntry
           /\ RstWithAfter(e, rows).after = rows
           /\ RstWithAfter(e, rows).before = e.before
BY EntryFields DEF RstWithAfter, RstEntry

\* Publishing writes rows of the entry or keeps rows of the catalog.
LEMMA PublishType ==
    ASSUME NEW c \in Rows, NEW e \in RstEntry
    PROVE  Publish(c, e) \in Rows
BY EntryFields DEF Publish, Rows

LEMMA RstInsertType ==
    ASSUME NEW e \in RstEntry, NEW rows \in Rows
    PROVE  RstInsert(e, rows) \in RstEntry
<1>1. [r \in Replicas |-> rows[r].status] \in [Replicas -> Stored]
  BY RowFields
<1> QED
  BY <1>1 DEF RstInsert, RstEntry

LEMMA RstInsertReplicaType ==
    ASSUME NEW e \in RstEntry, NEW r \in Replicas, NEW row \in Row
    PROVE  RstInsertReplica(e, r, row) \in RstEntry
<1>1. [e.before EXCEPT ![r] = row.status] \in [Replicas -> Stored]
  BY EntryFields DEF Row
<1>2. [e.after EXCEPT ![r] = row] \in Rows
  BY EntryFields DEF Rows
<1> QED
  BY <1>1, <1>2 DEF RstInsertReplica, RstEntry

LEMMA InsertDataStatusType ==
    ASSUME NEW e \in RstEntry
    PROVE  InsertDataStatus(e) \in Rows
<1> SUFFICES ASSUME NEW r \in Replicas
             PROVE  (IF e.after[r].status = "absent" THEN e.after[r]
                     ELSE MkRow(e.after[r].status,
                                IF e.after[r].original # "none" THEN e.after[r].original
                                ELSE e.before[r])) \in Row
  BY DEF InsertDataStatus, Rows
<1>1. e.after[r] \in Row /\ e.after[r].status \in Stored /\ e.after[r].original \in Stored
  BY EntryFields, RowFields
<1>2. e.before[r] \in Stored
  BY EntryFields
<1> QED
  BY <1>1, <1>2, MkRowType

LEMMA LockType ==
    ASSUME NEW e \in RstEntry, NEW target
    PROVE  LockTarget(e, target) \in RstEntry /\ LockAll(e) \in RstEntry
<1> DEFINE rows == InsertDataStatus(e)
<1>1. rows \in Rows
  BY InsertDataStatusType
<1> HIDE DEF rows
<1>2. \A r \in Replicas :
        /\ rows[r] \in Row
        /\ MkRow("intermediate", rows[r].original) \in Row
        /\ MkRow("write_locked", rows[r].original) \in Row
  BY <1>1, RowFields, StatusesAreStored, MkRowType
<1>3. [r \in Replicas |->
        IF rows[r].status = "absent" THEN rows[r]
        ELSE MkRow(IF r = target THEN "intermediate" ELSE "write_locked", rows[r].original)]
      \in Rows
  BY <1>2 DEF Rows
<1>4. [r \in Replicas |->
        IF rows[r].status = "absent" THEN rows[r]
        ELSE MkRow("write_locked", rows[r].original)] \in Rows
  BY <1>2 DEF Rows
<1> QED
  BY <1>3, <1>4, WithAfterType DEF LockTarget, LockAll, rows

\* The special value restore_status never gets into a row.
LEMMA UnlockStatusType ==
    ASSUME NEW row \in Row, NEW s \in Stored \cup {"restore"}
    PROVE  /\ RestoredSibling(row) \in Stored
           /\ SiblingStatus(row, s) \in Stored
           /\ TargetStatus(row, s) \in Stored
BY StatusesAreStored DEF RestoredSibling, SiblingStatus, TargetStatus, RestoredTarget, Row

LEMMA UnlockTargetType ==
    ASSUME NEW e \in RstEntry, NEW target,
           NEW s \in Stored \cup {"restore"}, NEW o \in Stored \cup {"restore"}
    PROVE  UnlockTarget(e, target, s, o) \in RstEntry
<1>1. \A r \in Replicas :
        /\ e.after[r] \in Row
        /\ MkRow(TargetStatus(e.after[r], s), "none") \in Row
        /\ MkRow(SiblingStatus(e.after[r], o), "none") \in Row
  BY EntryFields, RowFields, UnlockStatusType, StatusesAreStored, MkRowType
<1>2. [r \in Replicas |->
        IF e.after[r].status = "absent" THEN e.after[r]
        ELSE MkRow(IF r = target THEN TargetStatus(e.after[r], s)
                                 ELSE SiblingStatus(e.after[r], o), "none")] \in Rows
  BY <1>1 DEF Rows
<1> QED
  BY <1>2, WithAfterType DEF UnlockTarget

LEMMA UnlockAllType ==
    ASSUME NEW e \in RstEntry
    PROVE  UnlockAll(e) \in RstEntry
<1>1. \A r \in Replicas : e.after[r] \in Row /\ MkRow(RestoredSibling(e.after[r]), "none") \in Row
  BY EntryFields, RowFields, UnlockStatusType, StatusesAreStored, MkRowType
<1>2. [r \in Replicas |->
        IF e.after[r].status = "absent" THEN e.after[r]
        ELSE MkRow(RestoredSibling(e.after[r]), "none")] \in Rows
  BY <1>1 DEF Rows
<1> QED
  BY <1>2, WithAfterType DEF UnlockAll

LEMMA SetStatusType ==
    ASSUME NEW e \in RstEntry, NEW target \in Replicas, NEW s \in Stored
    PROVE  SetStatus(e, target, s) \in RstEntry
<1>1. [e.after EXCEPT ![target] = MkRow(s, e.after[target].original)] \in Rows
  BY EntryFields, RowFields, MkRowType DEF Rows
<1> QED
  BY <1>1, WithAfterType DEF SetStatus

-----------------------------------------------------------------------------

\* The rows of an object that nobody has locked.
Unlocked(rows) == \A r \in Replicas : rows[r] = NoRow \/ (rows[r] \in Row /\ AtRest(rows[r]))

\* lock records in data_status, for every replica, the status that was read.
LEMMA LockRecordsStatus ==
    ASSUME NEW rows \in Rows, Unlocked(rows), NEW target, NEW r \in Replicas
    PROVE  LET e == LockTarget(RstInsert(NoEntry, rows), target) IN
           IF rows[r].status = "absent" THEN e.after[r] = rows[r]
           ELSE e.after[r] = MkRow(IF r = target THEN "intermediate" ELSE "write_locked",
                                   rows[r].status)
<1> DEFINE e == RstInsert(NoEntry, rows)
<1>1. e.before = [q \in Replicas |-> rows[q].status] /\ e.after = rows
  BY DEF RstInsert, RstContains
<1>2. e \in RstEntry
  BY NoRowsType, RstInsertType
<1> HIDE DEF e
<1>3. rows[r].status # "absent" => rows[r].original = "none"
  BY SMT DEF Unlocked, AtRest, NoRow
<1>4. InsertDataStatus(e)[r] = IF rows[r].status = "absent" THEN rows[r]
                               ELSE MkRow(rows[r].status, rows[r].status)
  BY <1>1, <1>3 DEF InsertDataStatus
<1> QED
  BY <1>1, <1>4, SMT DEF LockTarget, RstWithAfter, MkRow, e

\* An open that fails leaves no trace: unlocking with restore_status for the
\* target and its siblings gives every replica the row it had before the lock.
THEOREM UnlockUndoesLock ==
    ASSUME NEW rows \in Rows, Unlocked(rows), NEW target
    PROVE  UnlockTarget(LockTarget(RstInsert(NoEntry, rows), target),
                        target, "restore", "restore").after = rows
<1> DEFINE e == LockTarget(RstInsert(NoEntry, rows), target)
           u == UnlockTarget(e, target, "restore", "restore")
<1>1. e \in RstEntry
  BY NoRowsType, RstInsertType, LockType
<1>2. u \in RstEntry
  BY <1>1, UnlockTargetType
<1>3. ASSUME NEW r \in Replicas PROVE u.after[r] = rows[r]
  <2>1. CASE rows[r].status = "absent"
    <3>1. e.after[r] = rows[r]
      BY <2>1, LockRecordsStatus
    <3> HIDE DEF e
    <3> QED
      BY <2>1, <3>1 DEF UnlockTarget, RstWithAfter
  <2>2. CASE rows[r].status # "absent"
    <3>1. e.after[r] = MkRow(IF r = target THEN "intermediate" ELSE "write_locked", rows[r].status)
      BY <2>2, LockRecordsStatus
    <3>2. rows[r] = MkRow(rows[r].status, "none") /\ rows[r].status # "none"
      BY <2>2, SMT DEF Unlocked, AtRest, NoRow, MkRow, Row, AtRestStatus
    <3> HIDE DEF e
    <3>3. /\ e.after[r].status # "absent"
          /\ e.after[r].original = rows[r].status
      BY <3>1, SMT DEF MkRow
    <3>4. u.after[r] = MkRow(rows[r].status, "none")
      BY <3>2, <3>3 DEF UnlockTarget, RstWithAfter, TargetStatus, RestoredTarget,
                         SiblingStatus, RestoredSibling
    <3> QED
      BY <3>2, <3>4
  <2> QED
    BY <2>1, <2>2
<1>4. u.after \in Rows
  BY <1>2, EntryFields
<1> HIDE DEF u
<1> QED
  BY <1>3, <1>4, SMT DEF Rows, u
-----------------------------------------------------------------------------
(* Rows that know what they are to be given back.                          *)

\* What an unlocked row may hold in data_is_dirty.
GivenBack == {"stale", "good", "intermediate"}

\* A row as open and close leave it: only a locked row has an original status,
\* and a write-locked row has one.
ProperRow(row) ==
    \/ row = NoRow
    \/ /\ row.status \in Status /\ row.original \in GivenBack \cup {"none"}
       /\ row.status \in AtRestStatus => row.original = "none"
       /\ row.status = "write_locked" => row.original # "none"

ProperRows(rows) == \A r \in Replicas : ProperRow(rows[r])

ProperEntry(e) ==
    /\ ProperRows(e.after)
    /\ \A r \in Present(e.after) : e.before[r] \in Status

\* Locking would record a status that can be given back for every replica.
Recordable(e) ==
    \A r \in Present(e.after) : e.after[r].original = "none" => e.before[r] \in GivenBack

LEMMA NoEntryProper == ProperRows(NoRows) /\ ProperEntry(NoEntry) /\ NoEntry.after = NoRows
BY DEF ProperRows, ProperRow, ProperEntry, NoRows, NoEntry, Present, NoRow

LEMMA GivenBackProper ==
    ASSUME NEW s \in GivenBack
    PROVE  ProperRow(MkRow(s, "none")) /\ MkRow(s, "none").status # "absent"
BY DEF GivenBack, ProperRow, MkRow, Status, AtRestStatus, LockStatus

LEMMA RestoredIsGivenBack ==
    ASSUME NEW row, ProperRow(row), row.status # "absent"
    PROVE  RestoredSibling(row) \in GivenBack /\ RestoredTarget(row) \in GivenBack
BY SMT DEF RestoredSibling, RestoredTarget, ProperRow, NoRow, GivenBack, Status, AtRestStatus, LockStatus

\* Unlocking keeps the rows proper and adds or drops none.
LEMMA UnlockTargetProper ==
    ASSUME NEW e \in RstEntry, ProperEntry(e), NEW target, NEW s, NEW o \in {"stale", "restore"},
           target \in Present(e.after) => s \in GivenBack \cup {"restore"}
    PROVE  LET u == UnlockTarget(e, target, s, o) IN
           /\ ProperEntry(u) /\ u.before = e.before /\ Present(u.after) = Present(e.after)
           /\ u.after \in [Replicas -> {NoRow} \cup {MkRow(x, "none") : x \in GivenBack}]
<1> DEFINE u == UnlockTarget(e, target, s, o)
           st(r) == IF r = target THEN TargetStatus(e.after[r], s) ELSE SiblingStatus(e.after[r], o)
<1>1. /\ u.before = e.before
      /\ u.after = [r \in Replicas |-> IF e.after[r].status = "absent" THEN e.after[r]
                                       ELSE MkRow(st(r), "none")]
  BY DEF UnlockTarget, RstWithAfter
<1>2. ASSUME NEW r \in Replicas
      PROVE  IF r \in Present(e.after) THEN u.after[r] = MkRow(st(r), "none") /\ st(r) \in GivenBack
             ELSE u.after[r] = NoRow
  <2>1. CASE r \notin Present(e.after)
    <3>1. e.after[r].status = "absent" /\ e.after[r] = NoRow
      BY <2>1 DEF Present, ProperEntry, ProperRows, ProperRow, Status, AtRestStatus, LockStatus
    <3> QED
      BY <1>1, <2>1, <3>1
  <2>2. CASE r \in Present(e.after)
    <3>1. ProperRow(e.after[r]) /\ e.after[r].status # "absent"
      BY <2>2 DEF Present, ProperEntry, ProperRows
    <3>2. RestoredSibling(e.after[r]) \in GivenBack /\ RestoredTarget(e.after[r]) \in GivenBack
      BY <3>1, RestoredIsGivenBack
    <3>3. st(r) \in GivenBack
      BY <2>2, <3>2 DEF TargetStatus, SiblingStatus, GivenBack
    <3> QED
      BY <1>1, <2>2, <3>1, <3>3
  <2> QED
    BY <2>1, <2>2
<1> HIDE DEF u, st
<1>3. ASSUME NEW r \in Replicas
      PROVE  /\ u.after[r] \in {NoRow} \cup {MkRow(x, "none") : x \in GivenBack}
             /\ ProperRow(u.after[r]) /\ (r \in Present(u.after) <=> r \in Present(e.after))
  BY <1>2, GivenBackProper, SMT DEF ProperRow, Present, NoRow
<1>4. u.after \in [Replicas -> {NoRow} \cup {MkRow(x, "none") : x \in GivenBack}]
  BY <1>1, <1>3
<1>5. Present(u.after) = Present(e.after)
  BY <1>3 DEF Present
<1>6. ProperEntry(u)
  BY <1>1, <1>3, <1>5 DEF ProperEntry, ProperRows
<1> QED
  BY <1>1, <1>4, <1>5, <1>6 DEF u

LEMMA UnlockAllProper ==
    ASSUME NEW e \in RstEntry, ProperEntry(e)
    PROVE  LET u == UnlockAll(e) IN
           /\ ProperEntry(u) /\ u.before = e.before /\ Present(u.after) = Present(e.after)
           /\ u.after \in [Replicas -> {NoRow} \cup {MkRow(x, "none") : x \in GivenBack}]
<1> DEFINE u == UnlockAll(e)
<1>1. /\ u.before = e.before
      /\ u.after = [r \in Replicas |-> IF e.after[r].status = "absent" THEN e.after[r]
                                       ELSE MkRow(RestoredSibling(e.after[r]), "none")]
  BY DEF UnlockAll, RstWithAfter
<1> HIDE DEF u
<1>2. ASSUME NEW r \in Replicas
      PROVE  IF r \in Present(e.after)
             THEN /\ u.after[r] = MkRow(RestoredSibling(e.after[r]), "none")
                  /\ RestoredSibling(e.after[r]) \in GivenBack
             ELSE u.after[r] = NoRow
  BY <1>1, RestoredIsGivenBack
     DEF Present, ProperEntry, ProperRows, ProperRow, Status, AtRestStatus, LockStatus
<1>3. ASSUME NEW r \in Replicas
      PROVE  /\ u.after[r] \in {NoRow} \cup {MkRow(x, "none") : x \in GivenBack}
             /\ ProperRow(u.after[r]) /\ (r \in Present(u.after) <=> r \in Present(e.after))
  BY <1>2, GivenBackProper, SMT DEF ProperRow, Present, NoRow
<1>4. u.after \in [Replicas -> {NoRow} \cup {MkRow(x, "none") : x \in GivenBack}]
  BY <1>1, <1>3
<1>5. Present(u.after) = Present(e.after)
  BY <1>3 DEF Present
<1>6. ProperEntry(u)
  BY <1>1, <1>3, <1>5 DEF ProperEntry, ProperRows
<1> QED
  BY <1>1, <1>4, <1>5, <1>6 DEF u

\* What locking writes in each row.
LEMMA LockedRow ==
    ASSUME NEW e \in RstEntry, ProperEntry(e), Recordable(e), NEW target, NEW r \in Replicas
    PROVE  LET o == IF e.after[r].original # "none" THEN e.after[r].original ELSE e.before[r] IN
           /\ LockTarget(e, target).before = e.before /\ LockAll(e).before = e.before
           /\ IF r \in Present(e.after)
              THEN /\ o \in GivenBack
                   /\ LockTarget(e, target).after[r] =
                        MkRow(IF r = target THEN "intermediate" ELSE "write_locked", o)
                   /\ LockAll(e).after[r] = MkRow("write_locked", o)
              ELSE e.after[r] = NoRow /\ LockTarget(e, target).after[r] = NoRow
                   /\ LockAll(e).after[r] = NoRow
<1> DEFINE o == IF e.after[r].original # "none" THEN e.after[r].original ELSE e.before[r]
           rows == InsertDataStatus(e)
<1>1. rows[r] = IF e.after[r].status = "absent" THEN e.after[r] ELSE MkRow(e.after[r].status, o)
  BY DEF InsertDataStatus
<1>2. CASE r \notin Present(e.after)
  <2>1. e.after[r].status = "absent" /\ e.after[r] = NoRow
    BY <1>2 DEF Present, ProperEntry, ProperRows, ProperRow, Status, AtRestStatus, LockStatus
  <2>2. rows[r] = NoRow /\ NoRow.status = "absent"
    BY <1>1, <2>1 DEF NoRow
  <2> HIDE DEF rows
  <2> QED
    BY <1>2, <2>1, <2>2 DEF LockTarget, LockAll, RstWithAfter, rows
<1>3. CASE r \in Present(e.after)
  <2>1. ProperRow(e.after[r]) /\ e.after[r].status # "absent"
    BY <1>3 DEF Present, ProperEntry, ProperRows
  <2>2. o \in GivenBack
    BY <1>3, <2>1, SMT DEF Recordable, ProperRow, NoRow, GivenBack
  <2>3. rows[r].status # "absent" /\ rows[r].original = o
    BY <1>1, <2>1, SMT DEF MkRow
  <2> HIDE DEF rows, o
  <2>4. /\ LockTarget(e, target).after[r] =
             MkRow(IF r = target THEN "intermediate" ELSE "write_locked", o)
        /\ LockAll(e).after[r] = MkRow("write_locked", o)
        /\ LockTarget(e, target).before = e.before /\ LockAll(e).before = e.before
    BY <2>3 DEF LockTarget, LockAll, RstWithAfter, rows
  <2> QED
    BY <1>3, <2>2, <2>4 DEF o
<1> QED
  BY <1>2, <1>3

LEMMA LockProper ==
    ASSUME NEW e \in RstEntry, ProperEntry(e), Recordable(e), NEW target
    PROVE  /\ ProperEntry(LockTarget(e, target)) /\ ProperEntry(LockAll(e))
           /\ LockTarget(e, target).before = e.before /\ LockAll(e).before = e.before
           /\ Present(LockTarget(e, target).after) = Present(e.after)
           /\ Present(LockAll(e).after) = Present(e.after)
           /\ \A r \in Present(e.after) : /\ LockTarget(e, target).after[r].original \in GivenBack
                                          /\ LockAll(e).after[r].original \in GivenBack
<1> DEFINE lt == LockTarget(e, target)
           la == LockAll(e)
<1>1. lt.before = e.before /\ la.before = e.before
  BY DEF LockTarget, LockAll, RstWithAfter
<1>2. ASSUME NEW r \in Replicas
      PROVE  /\ r \in Present(e.after) => \E o \in GivenBack :
                    /\ lt.after[r] = MkRow(IF r = target THEN "intermediate" ELSE "write_locked", o)
                    /\ la.after[r] = MkRow("write_locked", o)
             /\ r \notin Present(e.after) => lt.after[r] = NoRow /\ la.after[r] = NoRow
  BY LockedRow, SMT
<1> HIDE DEF lt, la
<1>3. ASSUME NEW r \in Replicas
      PROVE  /\ ProperRow(lt.after[r]) /\ ProperRow(la.after[r])
             /\ r \in Present(e.after) <=> r \in Present(lt.after)
             /\ r \in Present(e.after) <=> r \in Present(la.after)
             /\ r \in Present(e.after) =>
                    lt.after[r].original \in GivenBack /\ la.after[r].original \in GivenBack
  <2>1. CASE r \notin Present(e.after)
    BY <1>2, <2>1, SMT DEF ProperRow, NoRow, Present
  <2>2. CASE r \in Present(e.after)
    <3>1. PICK o \in GivenBack :
            /\ lt.after[r] = MkRow(IF r = target THEN "intermediate" ELSE "write_locked", o)
            /\ la.after[r] = MkRow("write_locked", o)
      BY <1>2, <2>2
    <3>2. /\ lt.after[r].original = o /\ la.after[r].original = o
          /\ lt.after[r].status \in LockStatus /\ la.after[r].status \in LockStatus
      BY <3>1, SMT DEF MkRow, LockStatus
    <3>3. o # "none"
      BY DEF GivenBack
    <3> QED
      BY <2>2, <3>2, <3>3 DEF ProperRow, Present, Status, AtRestStatus, LockStatus
  <2> QED
    BY <2>1, <2>2
<1>4. Present(lt.after) = Present(e.after) /\ Present(la.after) = Present(e.after)
  BY <1>3 DEF Present
<1>5. ProperEntry(lt) /\ ProperEntry(la)
  BY <1>1, <1>3, <1>4 DEF ProperEntry, ProperRows
<1> QED
  BY <1>1, <1>3, <1>4, <1>5 DEF lt, la, Present

LEMMA PublishProper ==
    ASSUME NEW c \in Rows, NEW e \in RstEntry, ProperRows(c), ProperRows(e.after)
    PROVE  ProperRows(Publish(c, e)) /\ Present(Publish(c, e)) = Present(c)
<1>1. \A r \in Replicas : /\ ProperRow(Publish(c, e)[r])
                          /\ Publish(c, e)[r].status = "absent" <=> c[r].status = "absent"
  BY DEF Publish, ProperRows, Present
<1> QED
  BY <1>1 DEF ProperRows, Present

LEMMA RstInsertProper ==
    ASSUME NEW e \in RstEntry, NEW rows \in Rows, ProperEntry(e), ProperRows(rows)
    PROVE  ProperEntry(RstInsert(e, rows))
<1>1. CASE RstContains(e)
  BY <1>1 DEF RstInsert
<1>2. CASE ~ RstContains(e)
  <2>1. RstInsert(e, rows).after = rows /\ \A r \in Replicas : RstInsert(e, rows).before[r] = rows[r].status
    BY <1>2 DEF RstInsert
  <2>2. \A r \in Present(rows) : rows[r].status \in Status
    BY SMT DEF Present, ProperRows, ProperRow, NoRow
  <2> QED
    BY <2>1, <2>2 DEF ProperEntry, Present
<1> QED
  BY <1>1, <1>2

LEMMA RstInsertReplicaProper ==
    ASSUME NEW e \in RstEntry, NEW r \in Replicas, NEW row \in Row, ProperEntry(e),
           ProperRow(row), row.status \in Status
    PROVE  ProperEntry(RstInsertReplica(e, r, row))
<1>1. e.before \in [Replicas -> Stored] /\ e.after \in [Replicas -> Row]
  BY EntryFields DEF Rows
<1> DEFINE n == RstInsertReplica(e, r, row)
<1>2. \A q \in Replicas : /\ n.after[q] = IF q = r THEN row ELSE e.after[q]
                          /\ n.before[q] = IF q = r THEN row.status ELSE e.before[q]
  BY <1>1 DEF RstInsertReplica
<1> HIDE DEF n
<1> QED
  BY <1>2 DEF ProperEntry, ProperRows, Present, n

\* A row without original status may be made stale.
LEMMA SetStaleProper ==
    ASSUME NEW e \in RstEntry, NEW r \in Replicas, ProperRows(e.after),
           e.after[r].original = "none"
    PROVE  ProperRows(SetStatus(e, r, "stale").after)
<1>1. e.after \in [Replicas -> Row]
  BY EntryFields DEF Rows
<1>2. ProperRow(MkRow("stale", "none"))
  BY GivenBackProper DEF GivenBack
<1> QED
  BY <1>1, <1>2 DEF SetStatus, RstWithAfter, ProperRows
=============================================================================
