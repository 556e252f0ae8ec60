----------------------- MODULE DataObjectAccessProofs -----------------------
(***************************************************************************)
(* What holds of the agents on one data object for every number of agents, *)
(* replicas, tokens and versions: types and tokens, whatever agents ask    *)
(* for and whatever fails; then what the two tables of an agent hold, the  *)
(* replica state table, from which the statuses of locked replicas are     *)
(* given back, and the replica access table, which lists who has a replica *)
(* open; and last, who holds the lock.                                     *)
(***************************************************************************)
EXTENDS DataObjectAccess, LogicalLockingProofs

\* Zenon proves most leaves; those that need another prover cite it.
USE ZenonT(30)

\* An agent that handles a request has a descriptor with a replica.
HasTarget ==
    \A a \in Pids : pc[a] \notin {"idle", "crashed", "reaped"} => l1[a].target \in Replicas

IInv == TypeOK /\ HasTarget /\ OneTokenPerReplica

-----------------------------------------------------------------------------
(* Parts of steps.                                                         *)

LEMMA DescType ==
    ASSUME NEW r \in Replicas \cup {NoReplica}, NEW m \in {"read", "write", "create"},
           NEW t \in Tokens \cup {NoToken}, NEW w \in BOOLEAN
    PROVE  /\ Desc(r, m, t, w) \in Descriptor
           /\ Desc(r, m, t, w).target = r
BY DEF Desc, Descriptor

LEMMA NoDescType == NoDesc \in Descriptor
BY DescType DEF NoDesc

LEMMA DescFields ==
    ASSUME NEW d \in Descriptor
    PROVE  /\ d.target \in Replicas \cup {NoReplica} /\ d.mode \in {"read", "write", "create"}
           /\ d.token \in Tokens \cup {NoToken} /\ d.wrote \in BOOLEAN
BY DEF Descriptor

LEMMA WithTokenType ==
    ASSUME NEW d \in Descriptor, NEW t \in Tokens \cup {NoToken}
    PROVE  /\ WithToken(d, t) \in Descriptor /\ WithToken(d, t).target = d.target
           /\ Written(d) \in Descriptor /\ Written(d).target = d.target
<1>1. /\ d.target \in Replicas \cup {NoReplica} /\ d.mode \in {"read", "write", "create"}
      /\ d.token \in Tokens \cup {NoToken} /\ d.wrote \in BOOLEAN /\ TRUE \in BOOLEAN
  BY DescFields
<1>2. Desc(d.target, d.mode, t, d.wrote) \in Descriptor /\ Desc(d.target, d.mode, t, d.wrote).target = d.target
  BY <1>1 DEF Desc, Descriptor
<1>3. Desc(d.target, d.mode, d.token, TRUE) \in Descriptor
      /\ Desc(d.target, d.mode, d.token, TRUE).target = d.target
  BY <1>1 DEF Desc, Descriptor
<1> QED
  BY <1>2, <1>3 DEF WithToken, Written

\* The invariant in two parts: what the agents share and what each has.
SharedOK ==
    /\ catalog \in Rows /\ contents \in [Replicas -> Versions]
    /\ g_map \in Table /\ OneTokenPerReplica

AgentsOK ==
    /\ rst \in [Pids -> RstEntry] /\ pc \in [Pids -> PC]
    /\ l1 \in [Pids -> Descriptor] /\ info \in [Pids -> Rows]
    /\ HasTarget

LEMMA InvParts == IInv <=> SharedOK /\ AgentsOK
BY DEF IInv, TypeOK, SharedOK, AgentsOK

\* An agent moves on: each of its variables is left alone or gets a new value.
LEMMA AgentMoves ==
    ASSUME AgentsOK, NEW a \in Pids,
           NEW p \in PC, NEW d \in Descriptor, NEW e \in RstEntry, NEW i \in Rows,
           p \in {"idle", "crashed", "reaped"} \/ d.target \in Replicas,
           pc' = [pc EXCEPT ![a] = p] \/ (pc' = pc /\ pc[a] = p),
           l1' = [l1 EXCEPT ![a] = d] \/ (l1' = l1 /\ l1[a] = d),
           rst' = [rst EXCEPT ![a] = e] \/ rst' = rst,
           info' = [info EXCEPT ![a] = i] \/ info' = info
    PROVE  AgentsOK'
<1>1. /\ pc' \in [Pids -> PC] /\ pc'[a] = p /\ \A b \in Pids \ {a} : pc'[b] = pc[b]
  BY DEF AgentsOK
<1>2. /\ l1' \in [Pids -> Descriptor] /\ l1'[a] = d /\ \A b \in Pids \ {a} : l1'[b] = l1[b]
  BY DEF AgentsOK
<1>3. rst' \in [Pids -> RstEntry] /\ info' \in [Pids -> Rows]
  BY DEF AgentsOK
<1>4. HasTarget'
  BY <1>1, <1>2 DEF AgentsOK, HasTarget
<1> QED
  BY <1>1, <1>2, <1>3, <1>4 DEF AgentsOK

\* An agent finishes a request.
LEMMA AgentDone ==
    ASSUME AgentsOK, NEW a \in Pids, Done(a),
           info' = [info EXCEPT ![a] = NoRows] \/ info' = info
    PROVE  AgentsOK'
<1>1. "idle" \in PC
  BY DEF PC
<1>2. pc' = [pc EXCEPT ![a] = "idle"] /\ l1' = [l1 EXCEPT ![a] = NoDesc]
      /\ rst' = [rst EXCEPT ![a] = NoEntry]
  BY DEF Done
<1> QED
  BY <1>1, <1>2, AgentMoves, NoDescType, NoRowsType

LEMMA PublishedType ==
    ASSUME SharedOK, NEW e \in RstEntry, NEW c \in Published(e)
    PROVE  c \in Rows
<1>1. catalog \in Rows
  BY DEF SharedOK
<1> QED
  BY <1>1, PublishType DEF Published

LEMMA UnlockOutcomesType ==
    ASSUME SharedOK, NEW e \in RstEntry, NEW r, NEW s \in {"stale", "restore"},
           NEW c \in UnlockOutcomes(e, r, s, "restore")
    PROVE  c \in Rows
<1>1. UnlockTarget(e, r, s, "restore") \in RstEntry
  BY UnlockTargetType, StatusesAreStored
<1>2. catalog \in Rows
  BY DEF SharedOK
<1> QED
  BY <1>1, <1>2, PublishedType DEF UnlockOutcomes

\* The table keeps its shape and its tokens stay unique.
LEMMA SmallerTable ==
    ASSUME NEW m \in Table, NEW n \in Table, UniqueReplicas(m),
           \A u \in DOMAIN n : u \in DOMAIN m /\ n[u].replica = m[u].replica
    PROVE  UniqueReplicas(n)
BY DEF UniqueReplicas

LEMMA ErasedForTable ==
    ASSUME SharedOK, NEW a \in Pids
    PROVE  ErasedFor(a) \in Table /\ UniqueReplicas(ErasedFor(a))
<1>1. g_map \in Table /\ UniqueReplicas(g_map)
  BY DEF SharedOK, OneTokenPerReplica
<1>2. CASE l1[a].token \in DOMAIN g_map /\ g_map[l1[a].token].agent_pids[a] > 0
  <2>1. ErasedFor(a) = ErasePid(g_map, l1[a].token, a)
    BY <1>2 DEF ErasedFor
  <2>2. /\ ErasePid(g_map, l1[a].token, a) \in Table
        /\ \A u \in DOMAIN ErasePid(g_map, l1[a].token, a) :
              u \in DOMAIN g_map
              /\ ErasePid(g_map, l1[a].token, a)[u].replica = g_map[u].replica
    BY <1>1, <1>2, ErasePidTable
  <2> QED
    BY <1>1, <2>1, <2>2, SmallerTable
<1>3. CASE ~ (l1[a].token \in DOMAIN g_map /\ g_map[l1[a].token].agent_pids[a] > 0)
  BY <1>1, <1>3 DEF ErasedFor
<1> QED
  BY <1>2, <1>3

LEMMA EraseAllTable ==
    ASSUME SharedOK, NEW a \in Pids
    PROVE  EraseAllOfPid(g_map, a) \in Table /\ UniqueReplicas(EraseAllOfPid(g_map, a))
<1>1. g_map \in Table /\ UniqueReplicas(g_map)
  BY DEF SharedOK, OneTokenPerReplica
<1>2. /\ EraseAllOfPid(g_map, a) \in Table
      /\ \A u \in DOMAIN EraseAllOfPid(g_map, a) :
            u \in DOMAIN g_map /\ EraseAllOfPid(g_map, a)[u].replica = g_map[u].replica
  BY <1>1, EraseAllOfPidTable
<1> QED
  BY <1>1, <1>2, SmallerTable
-----------------------------------------------------------------------------
(* Steps that change the catalog, or a file, and no token.                 *)

LEMMA CatalogStep ==
    ASSUME SharedOK, catalog' \in Rows, contents' = contents, g_map' = g_map
    PROVE  SharedOK'
BY DEF SharedOK, OneTokenPerReplica

LEMMA FreshContents ==
    ASSUME SharedOK, NEW v \in Fresh, NEW r
    PROVE  [contents EXCEPT ![r] = v] \in [Replicas -> Versions]
BY DEF SharedOK, Fresh

LEMMA TableStep ==
    ASSUME SharedOK, catalog' = catalog, contents' = contents,
           g_map' \in Table, UniqueReplicas(g_map')
    PROVE  SharedOK'
BY DEF SharedOK, OneTokenPerReplica

LEMMA AgentSelf ==
    ASSUME AgentsOK, NEW a \in Pids
    PROVE  /\ pc[a] \in PC /\ l1[a] \in Descriptor /\ rst[a] \in RstEntry /\ info[a] \in Rows
           /\ pc[a] \notin {"idle", "crashed", "reaped"} => l1[a].target \in Replicas
BY DEF AgentsOK, HasTarget

\* A replica that the table does not know gets a fresh token.
LEMMA InsertKeepsUnique ==
    ASSUME SharedOK, NEW a \in Pids, NEW r \in Replicas, NEW t \in Tokens \ DOMAIN g_map,
           ~ ContainsReplica(g_map, r)
    PROVE  Insert(g_map, t, r, a) \in Table /\ UniqueReplicas(Insert(g_map, t, r, a))
<1> DEFINE n == Insert(g_map, t, r, a)
<1>1. g_map \in Table /\ UniqueReplicas(g_map) /\ n \in Table
  BY InsertTable DEF SharedOK, OneTokenPerReplica
<1>2. /\ DOMAIN n = DOMAIN g_map \cup {t} /\ n[t].replica = r
      /\ \A u \in DOMAIN g_map : n[u].replica = g_map[u].replica
  BY <1>1 DEF Insert
<1>3. \A u \in DOMAIN g_map : g_map[u].replica # r
  BY DEF ContainsReplica
<1> HIDE DEF n
<1>4. UniqueReplicas(n)
  BY <1>1, <1>2, <1>3 DEF UniqueReplicas
<1> QED
  BY <1>1, <1>4 DEF n

LEMMA PushKeepsUnique ==
    ASSUME SharedOK, NEW a \in Pids, NEW t \in DOMAIN g_map,
           g_map[t].agent_pids[a] < MaxOpens
    PROVE  PushPid(g_map, t, a) \in Table /\ UniqueReplicas(PushPid(g_map, t, a))
<1>1. g_map \in Table /\ UniqueReplicas(g_map)
  BY DEF SharedOK, OneTokenPerReplica
<1>2. /\ PushPid(g_map, t, a) \in Table /\ DOMAIN PushPid(g_map, t, a) = DOMAIN g_map
      /\ \A u \in DOMAIN g_map : PushPid(g_map, t, a)[u].replica = g_map[u].replica
  BY <1>1, PushPidTable
<1> QED
  BY <1>1, <1>2, SmallerTable

-----------------------------------------------------------------------------
(* The handlers.                                                           *)

LEMMA RequestKeepsInv ==
    ASSUME SharedOK, AgentsOK, NEW a \in Pids, Request(a)
    PROVE  SharedOK' /\ AgentsOK'
<1>1. ASSUME NEW r \in Replicas, NEW m \in {"read", "write", "create"},
             NEW t \in Tokens \cup {NoToken}, Resolve(a, r, m, t)
      PROVE  SharedOK' /\ AgentsOK'
  <2>1. SharedOK'
    BY <1>1, CatalogStep DEF Resolve, SharedOK
  <2>2. Desc(r, m, t, FALSE) \in Descriptor /\ Desc(r, m, t, FALSE).target = r
    BY DescType
  <2>3. "resolved" \in PC /\ catalog \in Rows
    BY DEF PC, SharedOK
  <2>4. /\ pc' = [pc EXCEPT ![a] = "resolved"] /\ l1' = [l1 EXCEPT ![a] = Desc(r, m, t, FALSE)]
        /\ rst' = rst /\ info' = [info EXCEPT ![a] = catalog]
    BY <1>1 DEF Resolve
  <2>5. AgentsOK'
    BY <2>2, <2>3, <2>4, AgentSelf, AgentMoves
  <2> QED
    BY <2>1, <2>5
<1>2. CASE Write(a)
  <2>1. SharedOK'
    BY <1>2, FreshContents, SMT DEF Write, SharedOK, OneTokenPerReplica
  <2>2. Written(l1[a]) \in Descriptor /\ Written(l1[a]).target = l1[a].target
    BY AgentSelf, WithTokenType
  <2>3. l1[a].target \in Replicas /\ pc[a] \in PC
    BY <1>2, AgentSelf DEF Write
  <2>4. /\ pc' = pc /\ l1' = [l1 EXCEPT ![a] = Written(l1[a])] /\ rst' = rst /\ info' = info
    BY <1>2 DEF Write
  <2>5. AgentsOK'
    BY <2>2, <2>3, <2>4, AgentSelf, AgentMoves
  <2> QED
    BY <2>1, <2>5
<1> QED
  BY <1>1, <1>2 DEF Request

LEMMA OpenStepKeepsInv ==
    ASSUME SharedOK, AgentsOK, NEW a \in Pids, OpenStep(a)
    PROVE  SharedOK' /\ AgentsOK'
<1> USE AgentSelf
<1>1. CASE OpenDenied(a)
  <2>1. SharedOK'
    BY <1>1, CatalogStep DEF OpenDenied, SharedOK
  <2>2. "idle" \in PC
    BY DEF PC
  <2>3. AgentsOK'
    BY <1>1, <2>2, AgentMoves, NoDescType, NoRowsType DEF OpenDenied
  <2> QED
    BY <2>1, <2>3
<1>2. CASE ReadGranted(a)
  <2>1. SharedOK'
    BY <1>2, CatalogStep DEF ReadGranted, SharedOK
  <2>2. "granted" \in PC
    BY DEF PC
  <2>3. AgentsOK'
    BY <1>2, <2>2, AgentMoves DEF ReadGranted
  <2> QED
    BY <2>1, <2>3
<1>3. CASE LockObject(a)
  <2> DEFINE e == RstInsert(rst[a], info[a])
  <2>1. e \in RstEntry /\ LockTarget(e, l1[a].target) \in RstEntry
    BY RstInsertType, LockType
  <2>2. Publish(catalog, LockTarget(e, l1[a].target)) \in Rows
    BY <2>1, PublishType DEF SharedOK
  <2> HIDE DEF e
  <2>3. SharedOK'
    BY <1>3, <2>2, CatalogStep DEF LockObject, SharedOK, e
  <2>4. "granted" \in PC
    BY DEF PC
  <2>5. \/ Done(a) /\ info' = [info EXCEPT ![a] = NoRows]
        \/ /\ pc[a] = "resolved" /\ pc' = [pc EXCEPT ![a] = "granted"] /\ l1' = l1 /\ info' = info
           /\ rst' = [rst EXCEPT ![a] = LockTarget(e, l1[a].target)]
    BY <1>3 DEF LockObject, e
  <2>6. CASE Done(a) /\ info' = [info EXCEPT ![a] = NoRows]
    BY <2>6, <2>3, AgentDone
  <2>7. CASE /\ pc[a] = "resolved" /\ pc' = [pc EXCEPT ![a] = "granted"] /\ l1' = l1 /\ info' = info
             /\ rst' = [rst EXCEPT ![a] = LockTarget(e, l1[a].target)]
    BY <2>7, <2>1, <2>3, <2>4, AgentMoves
  <2> QED
    BY <2>5, <2>6, <2>7
<1>4. CASE JoinObject(a)
  <2>1. SharedOK'
    BY <1>4, CatalogStep DEF JoinObject, SharedOK
  <2>2. "granted" \in PC /\ RstInsert(rst[a], info[a]) \in RstEntry
    BY RstInsertType DEF PC
  <2>3. AgentsOK'
    BY <1>4, <2>2, AgentMoves DEF JoinObject
  <2> QED
    BY <2>1, <2>3
<1>5. CASE OpenReplica(a)
  <2>1. SharedOK'
    BY <1>5, CatalogStep DEF OpenReplica, SharedOK
  <2>2. /\ "opened" \in PC /\ "open" \in PC /\ pc[a] = "granted" /\ l1[a].target \in Replicas
        /\ WithToken(l1[a], NoToken) \in Descriptor
        /\ WithToken(l1[a], NoToken).target = l1[a].target
    BY <1>5, WithTokenType DEF PC, OpenReplica
  <2>3. AgentsOK'
    BY <1>5, <2>2, AgentMoves, NoRowsType DEF OpenReplica
  <2> QED
    BY <2>1, <2>3
<1>6. CASE TruncateReplica(a)
  <2>1. Publish(catalog, rst[a]) \in Rows
    BY PublishType DEF SharedOK
  <2>2. catalog' \in Rows
    BY <1>6, <2>1, UnlockOutcomesType DEF TruncateReplica
  <2>3. SharedOK'
    BY <1>6, <2>2, FreshContents, SMT DEF TruncateReplica, SharedOK, OneTokenPerReplica
  <2>4. "opened" \in PC
    BY DEF PC
  <2>5. /\ info' = [info EXCEPT ![a] = NoRows] /\ pc[a] = "granted"
        /\ Done(a) \/ (pc' = [pc EXCEPT ![a] = "opened"] /\ rst' = rst /\ l1' = l1)
    BY <1>6 DEF TruncateReplica
  <2>6. AgentsOK'
    BY <2>4, <2>5, AgentDone, AgentMoves, NoRowsType
  <2> QED
    BY <2>3, <2>6
<1>7. CASE OpenFails(a)
  <2>1. catalog' \in Rows
    BY <1>7, UnlockOutcomesType DEF OpenFails, SharedOK
  <2>2. SharedOK'
    BY <1>7, <2>1, CatalogStep DEF OpenFails
  <2>3. AgentsOK'
    BY <1>7, AgentDone DEF OpenFails
  <2> QED
    BY <2>2, <2>3
<1>8. CASE ChooseRatUpdate(a)
  <2>1. SharedOK'
    BY <1>8, CatalogStep DEF ChooseRatUpdate, SharedOK
  <2>2. "rat_update" \in PC /\ "rat_create" \in PC
    BY DEF PC
  <2>3. AgentsOK'
    BY <1>8, <2>2, AgentMoves DEF ChooseRatUpdate
  <2> QED
    BY <2>1, <2>3
<1>9. CASE CreateRatEntry(a)
  <2>1. PICK t \in Tokens \ DOMAIN g_map :
            /\ g_map' = Insert(g_map, t, l1[a].target, a)
            /\ l1' = [l1 EXCEPT ![a] = WithToken(l1[a], t)]
    BY <1>9 DEF CreateRatEntry
  <2>2. l1[a].target \in Replicas /\ ~ ContainsReplica(g_map, l1[a].target)
    BY <1>9 DEF CreateRatEntry
  <2>3. SharedOK'
    BY <1>9, <2>1, <2>2, InsertKeepsUnique, TableStep DEF CreateRatEntry
  <2>4. /\ "open" \in PC /\ WithToken(l1[a], t) \in Descriptor
        /\ WithToken(l1[a], t).target = l1[a].target
    BY WithTokenType DEF PC
  <2>5. AgentsOK'
    BY <1>9, <2>1, <2>2, <2>4, AgentMoves DEF CreateRatEntry
  <2> QED
    BY <2>3, <2>5
<1>10. CASE AppendToRatEntry(a)
  <2>1. l1[a].token \in DOMAIN g_map
    BY <1>10 DEF AppendToRatEntry, TokenIsValid, ContainsToken
  <2>2. SharedOK'
    BY <1>10, <2>1, PushKeepsUnique, TableStep DEF AppendToRatEntry
  <2>3. "open" \in PC
    BY DEF PC
  <2>4. AgentsOK'
    BY <1>10, <2>3, AgentMoves DEF AppendToRatEntry
  <2> QED
    BY <2>2, <2>4
<1>11. CASE RatUpdateFails(a)
  <2>1. catalog' \in Rows
    BY <1>11, UnlockOutcomesType DEF RatUpdateFails, SharedOK
  <2>2. SharedOK'
    BY <1>11, <2>1, CatalogStep DEF RatUpdateFails
  <2>3. AgentsOK'
    BY <1>11, AgentDone DEF RatUpdateFails
  <2> QED
    BY <2>2, <2>3
<1> QED
  BY <1>1, <1>2, <1>3, <1>4, <1>5, <1>6, <1>7, <1>8, <1>9, <1>10, <1>11 DEF OpenStep

LEMMA CreateStepKeepsInv ==
    ASSUME SharedOK, AgentsOK, NEW a \in Pids, CreateStep(a)
    PROVE  SharedOK' /\ AgentsOK'
<1> USE AgentSelf
<1>1. CASE CreateDenied(a)
  <2>1. SharedOK'
    BY <1>1, CatalogStep DEF CreateDenied, SharedOK
  <2>2. "idle" \in PC
    BY DEF PC
  <2>3. AgentsOK'
    BY <1>1, <2>2, AgentMoves, NoDescType, NoRowsType DEF CreateDenied
  <2> QED
    BY <2>1, <2>3
<1>2. CASE LockForCreate(a)
  <2> DEFINE e == LockAll(RstInsert(rst[a], info[a]))
  <2>1. e \in RstEntry /\ UnlockAll(e) \in RstEntry
    BY RstInsertType, LockType, UnlockAllType
  <2> HIDE DEF e
  <2>2. Publish(catalog, e) \in Rows
    BY <2>1, PublishType DEF SharedOK
  <2>3. catalog' \in Rows
    BY <1>2, <2>1, <2>2, PublishedType DEF LockForCreate, SharedOK, e
  <2>4. SharedOK'
    BY <1>2, <2>3, CatalogStep DEF LockForCreate
  <2>5. "creating" \in PC /\ "idle" \in PC
    BY DEF PC
  <2>6. /\ info' = [info EXCEPT ![a] = NoRows] /\ pc[a] = "resolved"
        /\ \/ pc' = [pc EXCEPT ![a] = "creating"] /\ rst' = rst /\ l1' = l1
           \/ pc' = [pc EXCEPT ![a] = "creating"] /\ rst' = [rst EXCEPT ![a] = e] /\ l1' = l1
           \/ /\ pc' = [pc EXCEPT ![a] = "idle"] /\ rst' = [rst EXCEPT ![a] = UnlockAll(e)]
              /\ l1' = [l1 EXCEPT ![a] = NoDesc]
    BY <1>2 DEF LockForCreate, e
  <2>7. AgentsOK'
    BY <2>1, <2>5, <2>6, AgentMoves, NoDescType, NoRowsType
  <2> QED
    BY <2>4, <2>7
<1>3. CASE RegisterReplica(a)
  <2>1. NewRow \in Row /\ l1[a].target \in Replicas
    BY <1>3, MkRowType, StatusesAreStored DEF NewRow, RegisterReplica
  <2>2. /\ [catalog EXCEPT ![l1[a].target] = NewRow] \in Rows
        /\ RstInsertReplica(rst[a], l1[a].target, NewRow) \in RstEntry
    BY <2>1, RstInsertReplicaType DEF SharedOK, Rows
  <2>3. SharedOK'
    BY <1>3, <2>2, CatalogStep DEF RegisterReplica
  <2>4. "registered" \in PC
    BY DEF PC
  <2>5. AgentsOK'
    BY <1>3, <2>2, <2>4, AgentMoves DEF RegisterReplica
  <2> QED
    BY <2>3, <2>5
<1>4. CASE RegistrationFails(a)
  <2>1. catalog' \in Rows
    BY <1>4, UnlockAllType, PublishedType DEF RegistrationFails
  <2>2. SharedOK' /\ AgentsOK'
    BY <1>4, <2>1, CatalogStep, AgentDone DEF RegistrationFails
  <2> QED
    BY <2>2
<1>5. CASE CreatePhysicalFile(a)
  <2>1. SharedOK'
    BY <1>5, FreshContents, SMT DEF CreatePhysicalFile, SharedOK, OneTokenPerReplica
  <2>2. "rat_create" \in PC
    BY DEF PC
  <2>3. AgentsOK'
    BY <1>5, <2>2, AgentMoves DEF CreatePhysicalFile
  <2> QED
    BY <2>1, <2>3
<1>6. CASE CreatePhysicalFileFails(a)
  <2> DEFINE e == UnlockTarget(rst[a], l1[a].target, "stale", "restore")
  <2>1. e \in RstEntry
    BY UnlockTargetType, StatusesAreStored
  <2> HIDE DEF e
  <2>2. catalog' \in Rows
    BY <1>6, <2>1, PublishedType DEF CreatePhysicalFileFails, e
  <2>3. SharedOK'
    BY <1>6, <2>2, CatalogStep DEF CreatePhysicalFileFails
  <2>4. "cleaning" \in PC
    BY DEF PC
  <2>5. AgentsOK'
    BY <1>6, <2>1, <2>4, AgentMoves DEF CreatePhysicalFileFails, e
  <2> QED
    BY <2>3, <2>5
<1>7. CASE CleanUpUnlocks(a)
  <2>1. catalog' \in Rows
    BY <1>7, UnlockOutcomesType DEF CleanUpUnlocks, SharedOK
  <2>2. SharedOK'
    BY <1>7, <2>1, CatalogStep DEF CleanUpUnlocks
  <2>3. "unregistering" \in PC
    BY DEF PC
  <2>4. AgentsOK'
    BY <1>7, <2>3, AgentMoves DEF CleanUpUnlocks
  <2> QED
    BY <2>2, <2>4
<1>8. CASE CleanUpUnregisters(a)
  <2>1. catalog' \in Rows
    BY <1>8, NoRowsType DEF CleanUpUnregisters, SharedOK, Rows
  <2>2. SharedOK' /\ AgentsOK'
    BY <1>8, <2>1, CatalogStep, AgentDone DEF CleanUpUnregisters
  <2> QED
    BY <2>2
<1>9. CASE CreateRatFails(a)
  <2>1. catalog' \in Rows
    BY <1>9, UnlockOutcomesType DEF CreateRatFails
  <2>2. SharedOK'
    BY <1>9, <2>1, CatalogStep DEF CreateRatFails
  <2>3. "unregistering" \in PC
    BY DEF PC
  <2>4. AgentsOK'
    BY <1>9, <2>3, AgentMoves, NoRowsType DEF CreateRatFails
  <2> QED
    BY <2>2, <2>4
<1> QED
  BY <1>1, <1>2, <1>3, <1>4, <1>5, <1>6, <1>7, <1>8, <1>9 DEF CreateStep

\* The table without one use, or without any use, of the agent's token.
LEMMA EraseStep ==
    ASSUME SharedOK, NEW a \in Pids, catalog' \in Rows, contents' = contents,
           g_map' \in {g_map, ErasedFor(a), EraseAllOfPid(g_map, a)}
    PROVE  SharedOK'
<1>1. g_map' \in Table /\ UniqueReplicas(g_map')
  BY ErasedForTable, EraseAllTable DEF SharedOK, OneTokenPerReplica
<1> QED
  BY <1>1 DEF SharedOK, OneTokenPerReplica

\* An agent that closed its file, with or without success, keeps its descriptor.
LEMMA AgentReleases ==
    ASSUME AgentsOK, NEW a \in Pids, pc[a] \in {"open", "finished"},
           NEW p \in {"finished", "closing", "released", "broken", "exiting"},
           pc' = [pc EXCEPT ![a] = p], l1' = l1, info' = info,
           rst' = rst \/ rst' = [rst EXCEPT ![a] = NoEntry]
    PROVE  AgentsOK'
<1>1. p \in PC /\ l1[a].target \in Replicas
  BY AgentSelf DEF PC
<1> QED
  BY <1>1, AgentSelf, AgentMoves, NoRowsType

\* The entries that a failing replica_close may publish.
LEMMA FailedCloseType ==
    ASSUME SharedOK, NEW a \in Pids, rst[a] \in RstEntry, NEW s \in Stored,
           NEW c \in FailedReplicaClose(a, s)
    PROVE  c \in Rows
<1>1. \A x \in {s, "stale"} : UnlockTarget(rst[a], l1[a].target, x, "stale") \in RstEntry
  BY UnlockTargetType, StatusesAreStored
<1> QED
  BY <1>1, PublishType DEF FailedReplicaClose, SharedOK

\* The statuses that the closes write.
LEMMA CloseStatusType ==
    ASSUME AgentsOK, NEW a \in Pids, l1[a].target \in Replicas
    PROVE  FinalEntry(a) \in RstEntry /\ ReplicaCloseStatus(a) \subseteq Stored
<1>1. rst[a].before[l1[a].target] \in Stored /\ rst[a].after[l1[a].target].original \in Stored
  BY AgentSelf, EntryFields, RowFields
<1>2. FinalEntry(a) \in RstEntry
  BY <1>1, AgentSelf, UnlockTargetType, StatusesAreStored DEF FinalEntry
<1>3. ReplicaCloseStatus(a) \subseteq Stored
  BY <1>1, StatusesAreStored DEF ReplicaCloseStatus
<1> QED
  BY <1>2, <1>3

LEMMA LeaveKeepsInv ==
    ASSUME SharedOK, AgentsOK, NEW a \in Pids, Leave(a)
    PROVE  SharedOK' /\ AgentsOK'
<1> USE AgentSelf
<1>0. catalog \in Rows
  BY DEF SharedOK
<1>1. CASE FinishWriting(a)
  BY <1>0, <1>1, CatalogStep, AgentReleases DEF FinishWriting
<1>2. CASE CloseRead(a)
  BY <1>0, <1>2, CatalogStep, AgentDone DEF CloseRead
<1>3. CASE Close(a)
  BY <1>0, <1>3, EraseStep, AgentReleases DEF Close
<1>4. CASE ReplicaCloseSilently(a)
  BY <1>0, <1>4, CatalogStep, AgentReleases DEF ReplicaCloseSilently
<1>5. CASE ReplicaClose(a)
  <2>1. l1[a].target \in Replicas
    BY <1>5 DEF ReplicaClose
  <2>2. PICK s \in ReplicaCloseStatus(a) :
            catalog' = Publish(catalog, UnlockTarget(rst[a], l1[a].target, s, "stale"))
    BY <1>5 DEF ReplicaClose
  <2>3. UnlockTarget(rst[a], l1[a].target, s, "stale") \in RstEntry
    BY <2>1, CloseStatusType, UnlockTargetType, StatusesAreStored
  <2>4. catalog' \in Rows
    BY <1>0, <2>2, <2>3, PublishType
  <2> QED
    BY <1>5, <2>4, CatalogStep, AgentReleases DEF ReplicaClose
<1>6. CASE ReplicaCloseSizeOnly(a)
  <2>1. UnlockTarget(rst[a], l1[a].target, "intermediate", "stale") \in RstEntry
    BY UnlockTargetType, StatusesAreStored
  <2>2. catalog' \in Rows
    BY <1>0, <1>6, <2>1, PublishType DEF ReplicaCloseSizeOnly
  <2> QED
    BY <1>6, <2>2, CatalogStep, AgentReleases DEF ReplicaCloseSizeOnly
<1>7. CASE ReplicaCloseNotPublished(a)
  <2>1. UnlockTarget(rst[a], l1[a].target, "stale", "stale") \in RstEntry /\ "failing" \in PC
    BY UnlockTargetType, StatusesAreStored DEF PC
  <2>2. l1[a].target \in Replicas
    BY <1>7 DEF ReplicaCloseNotPublished
  <2>3. catalog' \in Rows
    BY <1>7, <2>2, CloseStatusType, FailedCloseType DEF ReplicaCloseNotPublished
  <2> QED
    BY <1>7, <2>1, <2>2, <2>3, CatalogStep, AgentMoves DEF ReplicaCloseNotPublished
<1>12. CASE ReplicaCloseSizeNotPublished(a)
  <2>1. catalog' \in Rows
    BY <1>12, FailedCloseType, StatusesAreStored DEF ReplicaCloseSizeNotPublished
  <2> QED
    BY <1>12, <2>1, CatalogStep, AgentReleases DEF ReplicaCloseSizeNotPublished
<1>8. CASE ReplicaCloseFails(a)
  <2>1. catalog' \in Rows
    BY <1>8, UnlockOutcomesType DEF ReplicaCloseFails
  <2> QED
    BY <1>8, <2>1, CatalogStep, AgentDone, AgentReleases DEF ReplicaCloseFails
<1>9. CASE ReplicaCloseFailsSilently(a)
  BY <1>0, <1>9, CatalogStep, AgentReleases DEF ReplicaCloseFailsSilently
<1>10. CASE CloseBroken(a)
  BY <1>0, <1>10, EraseStep, AgentDone DEF CloseBroken
<1>11. CASE Exit(a)
  BY <1>0, <1>11, EraseStep, AgentReleases DEF Exit
<1> QED
  BY <1>1, <1>2, <1>3, <1>4, <1>5, <1>6, <1>7, <1>8, <1>9, <1>10, <1>11, <1>12 DEF Leave

LEMMA CloseStepKeepsInv ==
    ASSUME SharedOK, AgentsOK, NEW a \in Pids, CloseStep(a)
    PROVE  SharedOK' /\ AgentsOK'
<1> USE AgentSelf
<1>0. catalog \in Rows
  BY DEF SharedOK
<1>1. CASE FinalizeDataObject(a)
  <2>1. FinalEntry(a) \in RstEntry
    BY <1>1, CloseStatusType DEF FinalizeDataObject
  <2>2. catalog' \in Rows
    BY <1>0, <1>1, <2>1, PublishType DEF FinalizeDataObject
  <2> QED
    BY <1>1, <2>2, CatalogStep, AgentDone DEF FinalizeDataObject
<1>2. CASE FinalizeNotPublished(a)
  <2>1. l1[a].target \in Replicas
    BY <1>2 DEF FinalizeNotPublished
  <2>2. SetStatus(FinalEntry(a), l1[a].target, "stale") \in RstEntry
    BY <2>1, CloseStatusType, SetStatusType, StatusesAreStored
  <2>3. catalog' \in Rows
    BY <1>2, <2>2, PublishedType DEF FinalizeNotPublished
  <2> QED
    BY <1>2, <2>3, CatalogStep, AgentDone DEF FinalizeNotPublished
<1>3. CASE FinalizeFailedOperation(a)
  <2>1. catalog' \in Rows
    BY <1>3, UnlockOutcomesType DEF FinalizeFailedOperation
  <2> QED
    BY <1>3, <2>1, CatalogStep, AgentDone DEF FinalizeFailedOperation
<1>4. CASE ReplicaCloseReleases(a)
  BY <1>0, <1>4, EraseStep, AgentDone DEF ReplicaCloseReleases
<1>5. CASE ExitFinalizes(a)
  <2>1. catalog' \in Rows
    BY <1>0, <1>5, UnlockOutcomesType DEF ExitFinalizes
  <2> QED
    BY <1>5, <2>1, EraseStep, AgentDone DEF ExitFinalizes
<1>6. CASE FinalizeThrows(a)
  BY <1>0, <1>6, CatalogStep, AgentDone DEF FinalizeThrows
<1>7. CASE ReplicaCloseUpdatesOnError(a)
  <2>1. catalog' \in Rows /\ "broken" \in PC
    BY <1>0, <1>7, PublishType DEF ReplicaCloseUpdatesOnError, PC
  <2> QED
    BY <1>7, <2>1, CatalogStep, AgentMoves, NoRowsType DEF ReplicaCloseUpdatesOnError
<1> QED
  BY <1>1, <1>2, <1>3, <1>4, <1>5, <1>6, <1>7 DEF CloseStep

LEMMA EndKeepsInv ==
    ASSUME SharedOK, AgentsOK, NEW a \in Pids,
           ExitWithoutOpenFile(a) \/ Crash(a) \/ Reap(a)
    PROVE  SharedOK' /\ AgentsOK'
<1>0. catalog \in Rows /\ "crashed" \in PC /\ "reaped" \in PC
  BY DEF SharedOK, PC
<1>1. CASE ExitWithoutOpenFile(a)
  BY <1>0, <1>1, EraseStep, AgentDone DEF ExitWithoutOpenFile
<1>2. CASE Crash(a)
  BY <1>0, <1>2, CatalogStep, AgentMoves, NoDescType, NoRowsType DEF Crash
<1>3. CASE Reap(a)
  BY <1>0, <1>3, AgentSelf, CatalogStep, AgentMoves DEF Reap
<1> QED
  BY <1>1, <1>2, <1>3

-----------------------------------------------------------------------------
(* The theorems.                                                           *)

LEMMA InitInv == Init => IInv
<1> SUFFICES ASSUME Init PROVE IInv
  OBVIOUS
<1>1. catalog \in Rows
  <2>1. \A s \in AtRestStatus : MkRow(s, "none") \in Row
    BY MkRowType, StatusesAreStored DEF AtRestStatus
  <2>2. {NoRow} \cup {MkRow(s, "none") : s \in AtRestStatus} \subseteq Row
    BY <2>1, NoRowsType
  <2> QED
    BY <2>2 DEF Init, Rows
<1>2. g_map \in Table /\ OneTokenPerReplica
  <2>1. g_map = << >> /\ DOMAIN g_map = {}
    BY SMT DEF Init
  <2>2. g_map \in [DOMAIN g_map -> Entry]
    BY <2>1, SMT
  <2>3. g_map \in Table
    BY <2>1, <2>2, TableMembership
  <2> QED
    BY <2>1, <2>3 DEF OneTokenPerReplica, UniqueReplicas
<1>3. SharedOK
  BY <1>1, <1>2 DEF SharedOK, Init
<1>4. AgentsOK
  BY NoRowsType, NoDescType DEF Init, AgentsOK, HasTarget, PC
<1> QED
  BY <1>3, <1>4, InvParts

LEMMA StepInv == IInv /\ [Next]_vars => IInv'
<1> SUFFICES ASSUME IInv, [Next]_vars PROVE IInv'
  OBVIOUS
<1>1. SharedOK /\ AgentsOK
  BY InvParts
<1>2. SharedOK' /\ AgentsOK'
  <2>1. CASE UNCHANGED vars
    BY <1>1, <2>1 DEF vars, SharedOK, AgentsOK, OneTokenPerReplica, HasTarget
  <2>2. ASSUME NEW a \in Pids, Request(a) \/ OpenStep(a) \/ CreateStep(a) \/ Leave(a)
                               \/ CloseStep(a) \/ ExitWithoutOpenFile(a) \/ Crash(a) \/ Reap(a)
        PROVE  SharedOK' /\ AgentsOK'
    BY <1>1, <2>2, RequestKeepsInv, OpenStepKeepsInv, CreateStepKeepsInv, LeaveKeepsInv,
       CloseStepKeepsInv, EndKeepsInv
  <2> QED
    BY <2>1, <2>2 DEF Next
<1> QED
  BY <1>2 DEF IInv, TypeOK, SharedOK, AgentsOK

\* Whatever clients do and whatever fails, the tables and descriptors keep their
\* shape and no path of an open, a create, a close or an exit writes the special
\* value restore_status into data_is_dirty.
THEOREM TypeCorrect == Spec => []TypeOK
<1>1. IInv => TypeOK
  BY DEF IInv
<1> QED
  BY InitInv, StepInv, <1>1, PTL DEF Spec

\* Whatever clients do and whatever fails, and although rat::contains and the
\* operation chosen by its answer are separate steps, two agents never hold
\* different tokens for the same replica.
THEOREM TokensAreUnique == Spec => []OneTokenPerReplica
<1>1. IInv => OneTokenPerReplica
  BY DEF IInv
<1> QED
  BY InitInv, StepInv, <1>1, PTL DEF Spec

-----------------------------------------------------------------------------
(* A step is a step of one agent.                                          *)

AgentStep(a) ==
    \/ Request(a) \/ OpenStep(a) \/ CreateStep(a) \/ Leave(a) \/ CloseStep(a)
    \/ ExitWithoutOpenFile(a) \/ Crash(a) \/ Reap(a)

\* What the other agents have of their own is left alone.
OthersKeep(a) ==
    \A b \in Pids \ {a} :
        pc'[b] = pc[b] /\ l1'[b] = l1[b] /\ rst'[b] = rst[b] /\ info'[b] = info[b]

LEMMA OnlyOneMoves ==
    ASSUME NEW a \in Pids, NEW p, NEW d, NEW e, NEW i, AgentsOK,
           pc' = [pc EXCEPT ![a] = p] \/ pc' = pc,
           l1' = [l1 EXCEPT ![a] = d] \/ l1' = l1,
           rst' = [rst EXCEPT ![a] = e] \/ rst' = rst,
           info' = [info EXCEPT ![a] = i] \/ info' = info
    PROVE  OthersKeep(a)
BY DEF AgentsOK, OthersKeep

LEMMA DoneKeepsOthers ==
    ASSUME NEW a \in Pids, NEW i, AgentsOK, Done(a),
           info' = [info EXCEPT ![a] = i] \/ info' = info
    PROVE  /\ OthersKeep(a)
           /\ pc'[a] = "idle" /\ l1'[a] = NoDesc /\ rst'[a] = NoEntry
BY DEF AgentsOK, OthersKeep, Done

LEMMA StepKeepsOthers ==
    ASSUME NEW a \in Pids, AgentsOK, AgentStep(a)
    PROVE  OthersKeep(a)
<1>1. CASE Request(a)
  BY <1>1, OnlyOneMoves DEF Request, Resolve, Write
<1>2. CASE OpenStep(a)
  <2>1. CASE OpenDenied(a) \/ ReadGranted(a) \/ JoinObject(a)
    BY <2>1, OnlyOneMoves DEF OpenDenied, ReadGranted, JoinObject
  <2>2. CASE LockObject(a)
    BY <2>2, OnlyOneMoves, DoneKeepsOthers DEF LockObject
  <2>3. CASE OpenReplica(a)
    BY <2>3, OnlyOneMoves DEF OpenReplica
  <2>4. CASE TruncateReplica(a)
    BY <2>4, OnlyOneMoves, DoneKeepsOthers DEF TruncateReplica
  <2>5. CASE OpenFails(a) \/ RatUpdateFails(a)
    BY <2>5, DoneKeepsOthers DEF OpenFails, RatUpdateFails
  <2>6. CASE ChooseRatUpdate(a) \/ CreateRatEntry(a) \/ AppendToRatEntry(a)
    BY <2>6, OnlyOneMoves DEF ChooseRatUpdate, CreateRatEntry, AppendToRatEntry
  <2> QED
    BY <1>2, <2>1, <2>2, <2>3, <2>4, <2>5, <2>6 DEF OpenStep
<1>3. CASE CreateStep(a)
  <2>1. CASE CreateDenied(a) \/ RegisterReplica(a) \/ CreatePhysicalFile(a)
    BY <2>1, OnlyOneMoves DEF CreateDenied, RegisterReplica, CreatePhysicalFile
  <2>2. CASE LockForCreate(a)
    BY <2>2, OnlyOneMoves DEF LockForCreate
  <2>3. CASE RegistrationFails(a) \/ CleanUpUnregisters(a)
    BY <2>3, DoneKeepsOthers DEF RegistrationFails, CleanUpUnregisters
  <2>4. CASE CreatePhysicalFileFails(a) \/ CleanUpUnlocks(a) \/ CreateRatFails(a)
    BY <2>4, OnlyOneMoves DEF CreatePhysicalFileFails, CleanUpUnlocks, CreateRatFails
  <2> QED
    BY <1>3, <2>1, <2>2, <2>3, <2>4 DEF CreateStep
<1>4. CASE Leave(a)
  <2>1. CASE CloseRead(a) \/ CloseBroken(a)
    BY <2>1, DoneKeepsOthers DEF CloseRead, CloseBroken
  <2>2. CASE FinishWriting(a) \/ Close(a) \/ ReplicaCloseSilently(a) \/ Exit(a)
    BY <2>2, OnlyOneMoves DEF FinishWriting, Close, ReplicaCloseSilently, Exit
  <2>3. CASE ReplicaClose(a) \/ ReplicaCloseSizeOnly(a) \/ ReplicaCloseNotPublished(a)
             \/ ReplicaCloseSizeNotPublished(a) \/ ReplicaCloseFailsSilently(a)
    BY <2>3, OnlyOneMoves DEF ReplicaClose, ReplicaCloseSizeOnly, ReplicaCloseNotPublished,
                              ReplicaCloseSizeNotPublished, ReplicaCloseFailsSilently
  <2>4. CASE ReplicaCloseFails(a)
    BY <2>4, OnlyOneMoves, DoneKeepsOthers DEF ReplicaCloseFails
  <2> QED
    BY <1>4, <2>1, <2>2, <2>3, <2>4 DEF Leave
<1>5. CASE CloseStep(a)
  BY <1>5, OnlyOneMoves, DoneKeepsOthers DEF CloseStep, FinalizeDataObject, FinalizeNotPublished,
        FinalizeThrows, FinalizeFailedOperation, ReplicaCloseUpdatesOnError,
        ReplicaCloseReleases, ExitFinalizes
<1>6. CASE ExitWithoutOpenFile(a) \/ Crash(a) \/ Reap(a)
  BY <1>6, OnlyOneMoves, DoneKeepsOthers DEF ExitWithoutOpenFile, Crash, Reap
<1> QED
  BY <1>1, <1>2, <1>3, <1>4, <1>5, <1>6 DEF AgentStep
-----------------------------------------------------------------------------
(* The statuses that locked replicas are to be given back.                 *)

\* Clients use replica_close with the update of the status.
ClosesByReplica == Clients \cap {"replica_close", "status_only"} # {}

\* replica_close gives a target that was not written the original status of its
\* row in the table entry, recorded or not.  It is recorded when the agent that
\* closes is the one that locked the object, and the entry is not one that a
\* failed creation left behind.
StatusesRecorded ==
    ClosesByReplica =>
        /\ "undisciplined" \notin Clients
        /\ "create" \in Clients => "lock" \notin Faults

CreatePC == {"creating", "registered", "cleaning", "unregistering"}
HoldPC == {"granted", "opened", "rat_create", "rat_update", "open"}

\* What an agent has of its own: rows and entries are proper, and a row that is
\* going to be locked or given back was not write-locked when it was read.
AgentStatus(a) ==
    /\ ProperRows(info[a]) /\ ProperEntry(rst[a])
    /\ l1[a].mode = "create" => "create" \in Clients
    /\ pc[a] \in CreatePC => l1[a].mode = "create"
    /\ pc[a] = "closing" => l1[a].mode # "read"
    /\ l1[a].mode = "create" \/ pc[a] \in {"idle", "resolved"} =>
        \A r \in Replicas : rst[a].before[r] # "write_locked"
    /\ l1[a].mode = "write" => rst[a].before[l1[a].target] # "write_locked"
    /\ ClosesByReplica =>
        /\ pc[a] \in {"idle", "resolved"} => rst[a] = NoEntry
        /\ l1[a].mode = "write" /\ ~ Joined(a) /\ pc[a] \in HoldPC
           => rst[a].after[l1[a].target].original # "none"

StatusInv == ProperRows(catalog) /\ \A a \in Pids : AgentStatus(a)

LEMMA PublishedProper ==
    ASSUME SharedOK, ProperRows(catalog), NEW e \in RstEntry, ProperRows(e.after),
           NEW c \in Published(e)
    PROVE  ProperRows(c) /\ Present(c) = Present(catalog)
BY PublishProper DEF SharedOK, Published

LEMMA UnlockOutcomesProper ==
    ASSUME SharedOK, ProperRows(catalog), NEW e \in RstEntry, ProperEntry(e), NEW r,
           NEW s \in {"stale", "restore"}, NEW c \in UnlockOutcomes(e, r, s, "restore")
    PROVE  ProperRows(c) /\ Present(c) = Present(catalog)
<1>1. UnlockTarget(e, r, s, "restore") \in RstEntry
  BY UnlockTargetType, StatusesAreStored
<1>2. ProperRows(UnlockTarget(e, r, s, "restore").after)
  BY UnlockTargetProper DEF GivenBack, ProperEntry
<1> QED
  BY <1>1, <1>2, PublishedProper DEF UnlockOutcomes

\* The agent goes on with its entry.
LEMMA StatusKept ==
    ASSUME NEW a \in Pids, AgentStatus(a), ProperRows(info'[a]), rst'[a] = rst[a],
           l1'[a].mode = l1[a].mode, l1'[a].target = l1[a].target,
           pc'[a] \notin {"idle", "resolved"},
           pc'[a] \in CreatePC => l1[a].mode = "create",
           pc'[a] = "closing" => l1[a].mode # "read",
           pc'[a] \in HoldPC => pc[a] \in HoldPC \/ l1[a].mode # "write"
    PROVE  AgentStatus(a)'
BY DEF AgentStatus, Joined

\* The agent has no entry any more.
LEMMA StatusDropped ==
    ASSUME NEW a \in Pids, ProperRows(info'[a]), rst'[a] = NoEntry,
           l1'[a].mode = "create" => "create" \in Clients,
           l1'[a].mode = "write" => l1'[a].target \in Replicas,
           pc'[a] \notin HoldPC, pc'[a] # "closing",
           pc'[a] \in CreatePC => l1'[a].mode = "create"
    PROVE  AgentStatus(a)'
<1>1. \A r \in Replicas : NoEntry.before[r] # "write_locked"
  BY DEF NoEntry
<1> QED
  BY <1>1, NoEntryProper DEF AgentStatus

LEMMA StatusDone ==
    ASSUME NEW a \in Pids, AgentsOK, AgentStatus(a), Done(a),
           info' = [info EXCEPT ![a] = NoRows] \/ info' = info
    PROVE  AgentStatus(a)'
<1>1. pc'[a] = "idle" /\ l1'[a] = NoDesc /\ rst'[a] = NoEntry
  BY DEF Done, AgentsOK
<1>2. ProperRows(info'[a])
  BY NoEntryProper DEF AgentsOK, AgentStatus
<1>3. l1'[a].mode = "read"
  BY <1>1, SMT DEF NoDesc, Desc
<1> QED
  BY <1>1, <1>2, <1>3, StatusDropped DEF HoldPC, CreatePC

\* The entry of an agent that is about to lock can be locked.
LEMMA ResolvedRecordable ==
    ASSUME NEW a \in Pids, AgentsOK, AgentStatus(a), pc[a] = "resolved"
    PROVE  LET e == RstInsert(rst[a], info[a]) IN
           e \in RstEntry /\ ProperEntry(e) /\ Recordable(e)
<1> DEFINE e == RstInsert(rst[a], info[a])
<1>1. e \in RstEntry /\ ProperEntry(e)
  BY AgentSelf, RstInsertType, RstInsertProper DEF AgentStatus
<1>2. Recordable(e)
  <2>1. CASE RstContains(rst[a])
    <3>1. e = rst[a]
      BY <2>1 DEF RstInsert
    <3>2. \A r \in Present(rst[a].after) : rst[a].before[r] \in Status \ {"write_locked"}
      BY DEF AgentStatus, ProperEntry, Present
    <3> QED
      BY <3>1, <3>2 DEF Recordable, GivenBack, Status, AtRestStatus, LockStatus
  <2>2. CASE ~ RstContains(rst[a])
    <3>1. e.after = info[a] /\ \A r \in Replicas : e.before[r] = info[a][r].status
      BY <2>2 DEF RstInsert
    <3>2. \A r \in Present(info[a]) : info[a][r].original = "none" => info[a][r].status \in GivenBack
      BY SMT DEF AgentStatus, ProperRows, ProperRow, Present, NoRow, GivenBack, Status, AtRestStatus,
             LockStatus
    <3> QED
      BY <3>1, <3>2 DEF Recordable, Present
  <2> QED
    BY <2>1, <2>2
<1> QED
  BY <1>1, <1>2

LEMMA RequestKeepsStatus ==
    ASSUME NEW a \in Pids, SharedOK, AgentsOK, ProperRows(catalog), AgentStatus(a), Request(a)
    PROVE  ProperRows(catalog') /\ AgentStatus(a)'
<1>1. ASSUME NEW r \in Replicas, NEW m \in {"read", "write", "create"},
             NEW t \in Tokens \cup {NoToken}, Resolve(a, r, m, t)
      PROVE  ProperRows(catalog') /\ AgentStatus(a)'
  <2>1. /\ pc[a] = "idle" /\ pc'[a] = "resolved" /\ rst'[a] = rst[a] /\ catalog' = catalog
        /\ info'[a] = catalog /\ l1'[a].mode = m /\ l1'[a].target = r
        /\ m = "create" => "create" \in Clients
    BY <1>1 DEF Resolve, AgentsOK, Desc
  <2> QED
    BY <2>1 DEF AgentStatus, CreatePC, HoldPC
<1>2. CASE Write(a)
  <2>1. /\ l1'[a].mode = l1[a].mode /\ l1'[a].target = l1[a].target /\ pc'[a] = "open"
        /\ pc[a] = "open" /\ rst'[a] = rst[a] /\ info'[a] = info[a] /\ catalog' = catalog
    BY <1>2 DEF Write, AgentsOK, Written, Desc
  <2> QED
    BY <2>1, StatusKept DEF AgentStatus, CreatePC, HoldPC
<1> QED
  BY <1>1, <1>2 DEF Request

LEMMA OpenStepKeepsStatus ==
    ASSUME NEW a \in Pids, SharedOK, AgentsOK, ProperRows(catalog), AgentStatus(a), OpenStep(a)
    PROVE  ProperRows(catalog') /\ AgentStatus(a)'
<1>0. rst[a] \in RstEntry /\ ProperEntry(rst[a]) /\ catalog \in Rows /\ ProperRows(info[a])
  BY AgentSelf DEF AgentStatus, SharedOK
<1>1. CASE OpenDenied(a)
  <2>1. /\ pc[a] = "resolved" /\ pc'[a] = "idle" /\ l1'[a].mode = "read" /\ rst'[a] = rst[a]
        /\ info'[a] = NoRows /\ catalog' = catalog
    BY <1>1 DEF OpenDenied, AgentsOK, NoDesc, Desc
  <2> QED
    BY <2>1, NoEntryProper DEF AgentStatus, CreatePC, HoldPC
<1>2. CASE ReadGranted(a)
  <2>1. /\ pc'[a] = "granted" /\ l1'[a] = l1[a] /\ l1[a].mode = "read" /\ rst'[a] = rst[a]
        /\ info'[a] = info[a] /\ catalog' = catalog
    BY <1>2 DEF ReadGranted, AgentsOK
  <2> QED
    BY <1>0, <2>1, StatusKept DEF CreatePC
<1>3. CASE LockObject(a)
  <2> DEFINE e == RstInsert(rst[a], info[a])
             r == l1[a].target
  <2>1. /\ pc[a] = "resolved" /\ l1[a].mode = "write" /\ r \in Replicas
        /\ info[a][r].status # "write_locked"
    BY <1>3, AgentSelf DEF LockObject, TryLockReplica
  <2>2. e \in RstEntry /\ ProperEntry(e) /\ Recordable(e)
    BY <2>1, ResolvedRecordable
  <2>3. e.before[r] # "write_locked"
    BY <2>1 DEF RstInsert, AgentStatus
  <2> HIDE DEF e
  <2>4. /\ LockTarget(e, r) \in RstEntry /\ ProperEntry(LockTarget(e, r))
        /\ LockTarget(e, r).before = e.before
        /\ \A q \in Present(e.after) : LockTarget(e, r).after[q].original \in GivenBack
    BY <2>2, LockType, LockProper
  <2>5. CASE Done(a) /\ info' = [info EXCEPT ![a] = NoRows] /\ catalog' = catalog
    BY <2>5, StatusDone
  <2>6. CASE /\ RstHas(e, r) /\ catalog' = Publish(catalog, LockTarget(e, r))
             /\ rst' = [rst EXCEPT ![a] = LockTarget(e, r)] /\ pc' = [pc EXCEPT ![a] = "granted"]
             /\ l1' = l1 /\ info' = info
    <3>1. ProperRows(catalog')
      BY <1>0, <2>4, <2>6, PublishProper DEF ProperEntry
    <3>2. rst'[a] = LockTarget(e, r) /\ pc'[a] = "granted" /\ l1'[a] = l1[a] /\ info'[a] = info[a]
      BY <2>6 DEF AgentsOK
    <3>3. rst'[a].after[r].original # "none"
      BY <2>4, <2>6, <3>2 DEF RstHas, GivenBack
    <3>4. rst'[a].before[r] # "write_locked"
      BY <2>3, <2>4, <3>2
    <3>5. AgentStatus(a)'
      BY <1>0, <2>1, <2>4, <3>2, <3>3, <3>4 DEF AgentStatus, CreatePC
    <3> QED
      BY <3>1, <3>5
  <2> QED
    BY <1>3, <2>5, <2>6 DEF LockObject, e
<1>4. CASE JoinObject(a)
  <2> DEFINE e == RstInsert(rst[a], info[a])
             r == l1[a].target
  <2>1. /\ pc[a] = "resolved" /\ l1[a].mode = "write" /\ r \in Replicas
        /\ info[a][r].status = "intermediate" /\ catalog' = catalog
    BY <1>4, AgentSelf DEF JoinObject
  <2>2. ProperEntry(e)
    BY <2>1, ResolvedRecordable
  <2>3. e.before[r] # "write_locked" /\ (rst[a] = NoEntry => e.before[r] = "intermediate")
    BY <2>1 DEF RstInsert, AgentStatus, RstContains
  <2> HIDE DEF e
  <2>4. rst'[a] = e /\ pc'[a] = "granted" /\ l1'[a] = l1[a] /\ info'[a] = info[a]
    BY <1>4 DEF JoinObject, AgentsOK, e
  <2> QED
    BY <1>0, <2>1, <2>2, <2>3, <2>4 DEF AgentStatus, CreatePC, Joined
<1>5. CASE OpenReplica(a)
  <2>1. /\ pc[a] = "granted" /\ pc'[a] \in {"open", "opened"} /\ catalog' = catalog
        /\ info'[a] = NoRows /\ rst'[a] = rst[a]
        /\ l1'[a].mode = l1[a].mode /\ l1'[a].target = l1[a].target
    BY <1>5, SMT DEF OpenReplica, AgentsOK, WithToken, Desc
  <2> QED
    BY <2>1, StatusKept, NoEntryProper DEF CreatePC, HoldPC
<1>6. CASE TruncateReplica(a)
  <2>1. CASE /\ catalog' = Publish(catalog, rst[a]) /\ pc' = [pc EXCEPT ![a] = "opened"]
             /\ rst' = rst /\ l1' = l1
    <3>1. /\ pc[a] = "granted" /\ pc'[a] = "opened" /\ info'[a] = NoRows /\ rst'[a] = rst[a]
          /\ l1'[a] = l1[a]
      BY <1>6, <2>1 DEF TruncateReplica, AgentsOK
    <3>2. ProperRows(catalog')
      BY <1>0, <2>1, PublishProper DEF ProperEntry
    <3> QED
      BY <3>1, <3>2, StatusKept, NoEntryProper DEF CreatePC, HoldPC
  <2>2. CASE catalog' \in UnlockOutcomes(rst[a], l1[a].target, "restore", "restore") /\ Done(a)
    BY <1>0, <1>6, <2>2, UnlockOutcomesProper, StatusDone DEF TruncateReplica
  <2> QED
    BY <1>6, <2>1, <2>2 DEF TruncateReplica
<1>7. CASE OpenFails(a) \/ RatUpdateFails(a)
  <2>1. ProperRows(catalog')
    BY <1>0, <1>7, UnlockOutcomesProper DEF OpenFails, RatUpdateFails
  <2> QED
    BY <1>7, <2>1, StatusDone DEF OpenFails, RatUpdateFails
<1>8. CASE ChooseRatUpdate(a) \/ AppendToRatEntry(a)
  <2>1. /\ pc[a] \in {"opened", "rat_update"} /\ pc'[a] \in {"rat_update", "rat_create", "open"}
        /\ catalog' = catalog /\ info'[a] = info[a] /\ rst'[a] = rst[a] /\ l1'[a] = l1[a]
    BY <1>8 DEF ChooseRatUpdate, AppendToRatEntry, AgentsOK
  <2> QED
    BY <1>0, <2>1, StatusKept DEF CreatePC, HoldPC
<1>9. CASE CreateRatEntry(a)
  <2>1. /\ pc[a] = "rat_create" /\ pc'[a] = "open"
        /\ catalog' = catalog /\ info'[a] = info[a] /\ rst'[a] = rst[a]
        /\ l1'[a].mode = l1[a].mode /\ l1'[a].target = l1[a].target
    BY <1>9, SMT DEF CreateRatEntry, AgentsOK, WithToken, Desc
  <2> QED
    BY <1>0, <2>1, StatusKept DEF CreatePC, HoldPC
<1> QED
  BY <1>1, <1>2, <1>3, <1>4, <1>5, <1>6, <1>7, <1>8, <1>9 DEF OpenStep
LEMMA CreateStepKeepsStatus ==
    ASSUME NEW a \in Pids, SharedOK, AgentsOK, ProperRows(catalog), AgentStatus(a), CreateStep(a),
           StatusesRecorded
    PROVE  ProperRows(catalog') /\ AgentStatus(a)'
<1>0. rst[a] \in RstEntry /\ ProperEntry(rst[a]) /\ catalog \in Rows /\ ProperRows(info[a])
  BY AgentSelf DEF AgentStatus, SharedOK
<1>1. CASE CreateDenied(a)
  <2>1. /\ pc[a] = "resolved" /\ pc'[a] = "idle" /\ l1'[a].mode = "read" /\ rst'[a] = rst[a]
        /\ info'[a] = NoRows /\ catalog' = catalog
    BY <1>1 DEF CreateDenied, AgentsOK, NoDesc, Desc
  <2> QED
    BY <2>1, NoEntryProper DEF AgentStatus, CreatePC, HoldPC
<1>2. CASE LockForCreate(a)
  <2> DEFINE i == RstInsert(rst[a], info[a])
             e == LockAll(i)
  <2>1. /\ pc[a] = "resolved" /\ l1[a].mode = "create" /\ info'[a] = NoRows
        /\ TryLockObject(info[a])
    BY <1>2 DEF LockForCreate, AgentsOK
  <2>2. i \in RstEntry /\ ProperEntry(i) /\ Recordable(i)
    BY <2>1, ResolvedRecordable
  <2>3. \A r \in Replicas : i.before[r] # "write_locked"
    BY <2>1 DEF RstInsert, AgentStatus, TryLockObject, LockStatus
  <2> HIDE DEF i
  <2>4. e \in RstEntry /\ ProperEntry(e) /\ e.before = i.before
    BY <2>2, LockType, LockProper
  <2> HIDE DEF e
  <2>5. UnlockAll(e) \in RstEntry /\ ProperEntry(UnlockAll(e)) /\ UnlockAll(e).before = i.before
    BY <2>4, UnlockAllType, UnlockAllProper
  <2>6. CASE pc' = [pc EXCEPT ![a] = "creating"] /\ catalog' = catalog /\ rst' = rst /\ l1' = l1
    <3>1. pc'[a] = "creating" /\ rst'[a] = rst[a] /\ l1'[a] = l1[a]
      BY <2>6 DEF AgentsOK
    <3> QED
      BY <2>1, <2>6, <3>1, StatusKept, NoEntryProper DEF HoldPC
  <2>7. CASE /\ catalog' = Publish(catalog, e) /\ rst' = [rst EXCEPT ![a] = e]
             /\ pc' = [pc EXCEPT ![a] = "creating"] /\ l1' = l1
    <3>1. pc'[a] = "creating" /\ rst'[a] = e /\ l1'[a] = l1[a]
      BY <2>7 DEF AgentsOK
    <3>2. ProperRows(catalog')
      BY <1>0, <2>4, <2>7, PublishProper DEF ProperEntry
    <3> QED
      BY <2>1, <2>3, <2>4, <3>1, <3>2, NoEntryProper DEF AgentStatus, HoldPC
  <2>8. CASE /\ "lock" \in Faults /\ catalog' \in Published(UnlockAll(e))
             /\ rst' = [rst EXCEPT ![a] = UnlockAll(e)] /\ pc' = [pc EXCEPT ![a] = "idle"]
             /\ l1' = [l1 EXCEPT ![a] = NoDesc]
    <3>1. pc'[a] = "idle" /\ rst'[a] = UnlockAll(e) /\ l1'[a].mode = "read"
      BY <2>8 DEF AgentsOK, NoDesc, Desc
    <3>2. ProperRows(catalog')
      BY <2>5, <2>8, PublishedProper DEF ProperEntry
    <3>3. ~ ClosesByReplica
      BY <2>1, <2>8 DEF StatusesRecorded, AgentStatus
    <3> QED
      BY <2>1, <2>3, <2>5, <3>1, <3>2, <3>3, NoEntryProper DEF AgentStatus, HoldPC, CreatePC
  <2> QED
    BY <1>2, <2>6, <2>7, <2>8 DEF LockForCreate, e, i
<1>3. CASE RegisterReplica(a)
  <2> DEFINE r == l1[a].target
             e == RstInsertReplica(rst[a], r, NewRow)
  <2>1. pc[a] = "creating" /\ l1[a].mode = "create" /\ r \in Replicas
    BY <1>3, AgentSelf DEF RegisterReplica, AgentStatus, CreatePC
  <2>2. NewRow \in Row /\ ProperRow(NewRow) /\ NewRow.status = "intermediate"
    BY MkRowType, StatusesAreStored, GivenBackProper DEF NewRow, GivenBack, MkRow
  <2>3. ProperEntry(e)
    BY <1>0, <2>1, <2>2, RstInsertReplicaProper DEF Status, LockStatus
  <2>4. \A q \in Replicas : e.before[q] # "write_locked"
    BY <1>0, <2>1, <2>2, EntryFields DEF RstInsertReplica, AgentStatus
  <2>5. ProperRows(catalog')
    BY <1>0, <1>3, <2>1, <2>2 DEF RegisterReplica, ProperRows, Rows
  <2>6. pc'[a] = "registered" /\ rst'[a] = e /\ l1'[a] = l1[a] /\ info'[a] = info[a]
    BY <1>3 DEF RegisterReplica, AgentsOK
  <2> HIDE DEF e
  <2> QED
    BY <1>0, <2>1, <2>3, <2>4, <2>5, <2>6 DEF AgentStatus, HoldPC
<1>4. CASE RegistrationFails(a)
  <2>1. UnlockAll(rst[a]) \in RstEntry /\ ProperRows(UnlockAll(rst[a]).after)
    BY <1>0, UnlockAllType, UnlockAllProper DEF ProperEntry
  <2> QED
    BY <1>4, <2>1, PublishedProper, StatusDone DEF RegistrationFails
<1>5. CASE CreatePhysicalFile(a)
  <2>1. /\ pc[a] = "registered" /\ pc'[a] = "rat_create" /\ catalog' = catalog
        /\ rst'[a] = rst[a] /\ l1'[a] = l1[a] /\ info'[a] = info[a]
    BY <1>5 DEF CreatePhysicalFile, AgentsOK
  <2>2. l1[a].mode = "create"
    BY <2>1 DEF AgentStatus, CreatePC
  <2> QED
    BY <1>0, <2>1, <2>2, StatusKept
<1>6. CASE CreatePhysicalFileFails(a)
  <2> DEFINE e == UnlockTarget(rst[a], l1[a].target, "stale", "restore")
  <2>1. e \in RstEntry /\ ProperEntry(e) /\ e.before = rst[a].before
    BY <1>0, UnlockTargetType, StatusesAreStored, UnlockTargetProper DEF GivenBack
  <2> HIDE DEF e
  <2>2. /\ pc[a] = "registered" /\ pc'[a] = "cleaning" /\ catalog' \in Published(e)
        /\ rst'[a] = e /\ l1'[a] = l1[a] /\ info'[a] = info[a]
    BY <1>6 DEF CreatePhysicalFileFails, AgentsOK, e
  <2>3. ProperRows(catalog')
    BY <2>1, <2>2, PublishedProper DEF ProperEntry
  <2>4. l1[a].mode = "create"
    BY <2>2 DEF AgentStatus, CreatePC
  <2> QED
    BY <1>0, <2>1, <2>2, <2>3, <2>4 DEF AgentStatus, HoldPC
<1>7. CASE CleanUpUnlocks(a)
  <2>1. ProperRows(catalog')
    BY <1>0, <1>7, UnlockOutcomesProper DEF CleanUpUnlocks
  <2>2. /\ pc[a] = "cleaning" /\ pc'[a] = "unregistering"
        /\ rst'[a] = rst[a] /\ l1'[a] = l1[a] /\ info'[a] = info[a]
    BY <1>7 DEF CleanUpUnlocks, AgentsOK
  <2>3. l1[a].mode = "create"
    BY <2>2 DEF AgentStatus, CreatePC
  <2> QED
    BY <1>0, <2>1, <2>2, <2>3, StatusKept
<1>8. CASE CleanUpUnregisters(a)
  <2>1. ProperRows(catalog')
    BY <1>0, <1>8 DEF CleanUpUnregisters, ProperRows, ProperRow, Rows
  <2> QED
    BY <1>8, <2>1, StatusDone DEF CleanUpUnregisters
<1>9. CASE CreateRatFails(a)
  <2>1. ProperRows(catalog')
    BY <1>0, <1>9, UnlockOutcomesProper DEF CreateRatFails
  <2>2. /\ l1'[a].mode = "create" /\ pc'[a] = "unregistering" /\ rst'[a] = NoEntry
        /\ l1'[a] = l1[a] /\ info'[a] = info[a]
    BY <1>9 DEF CreateRatFails, AgentsOK
  <2> QED
    BY <1>0, <2>1, <2>2, StatusDropped DEF AgentStatus, HoldPC
<1> QED
  BY <1>1, <1>2, <1>3, <1>4, <1>5, <1>6, <1>7, <1>8, <1>9 DEF CreateStep

\* An agent that closes its file keeps its entry until it has published it.
LEMMA StatusLeaves ==
    ASSUME NEW a \in Pids, AgentsOK, AgentStatus(a), pc[a] \in {"open", "finished"},
           NEW p \in {"finished", "closing", "exiting", "released", "broken"},
           pc' = [pc EXCEPT ![a] = p], l1' = l1, info' = info,
           \/ rst' = rst /\ (p = "closing" => l1[a].mode # "read")
           \/ rst' = [rst EXCEPT ![a] = NoEntry] /\ p \in {"released", "broken"}
    PROVE  AgentStatus(a)'
<1>1. pc'[a] = p /\ l1'[a] = l1[a] /\ info'[a] = info[a] /\ rst'[a] \in {rst[a], NoEntry}
  BY DEF AgentsOK
<1>2. l1[a].target \in Replicas /\ ProperRows(info[a])
  BY AgentSelf DEF AgentStatus
<1>3. CASE rst' = rst /\ (p = "closing" => l1[a].mode # "read")
  BY <1>1, <1>2, <1>3, StatusKept DEF CreatePC, HoldPC
<1>4. CASE rst' = [rst EXCEPT ![a] = NoEntry] /\ p \in {"released", "broken"}
  <2>1. rst'[a] = NoEntry
    BY <1>4 DEF AgentsOK
  <2> QED
    BY <1>1, <1>2, <1>4, <2>1, StatusDropped DEF CreatePC, HoldPC, AgentStatus
<1> QED
  BY <1>3, <1>4

LEMMA LeaveKeepsStatus ==
    ASSUME NEW a \in Pids, SharedOK, AgentsOK, ProperRows(catalog), AgentStatus(a), Leave(a),
           StatusesRecorded
    PROVE  ProperRows(catalog') /\ AgentStatus(a)'
<1>0. rst[a] \in RstEntry /\ ProperEntry(rst[a]) /\ catalog \in Rows /\ ProperRows(info[a])
  BY AgentSelf DEF AgentStatus, SharedOK
<1>1. CASE FinishWriting(a) \/ Close(a) \/ ReplicaCloseSilently(a) \/ ReplicaCloseFailsSilently(a)
           \/ Exit(a)
  BY <1>1, StatusLeaves DEF FinishWriting, Close, ReplicaCloseSilently, ReplicaCloseFailsSilently, Exit
<1>s. ASSUME pc[a] = "open", l1[a].mode # "read", MayFinalize(a), ClosesByReplica
      PROVE  ReplicaCloseStatus(a) \subseteq GivenBack
  <2> DEFINE r == l1[a].target
  <2>1. r \in Replicas /\ ~ Joined(a)
    BY <1>s, AgentSelf DEF MayFinalize, StatusesRecorded
  <2>2. Unwritten(a) => l1[a].mode = "write"
    BY <1>s, AgentSelf, DescFields DEF Unwritten
  <2>3. Unwritten(a) => rst[a].after[r].original # "none"
    BY <1>s, <2>1, <2>2 DEF AgentStatus, HoldPC
  <2>4. Unwritten(a) => rst[a].after[r].original \in GivenBack
    BY <1>0, <2>1, <2>3, SMT DEF ProperEntry, ProperRows, ProperRow, NoRow, GivenBack
  <2> QED
    BY <2>4 DEF ReplicaCloseStatus, GivenBack
<1>u. ASSUME NEW s \in GivenBack
      PROVE  /\ UnlockTarget(rst[a], l1[a].target, s, "stale") \in RstEntry
             /\ ProperEntry(UnlockTarget(rst[a], l1[a].target, s, "stale"))
  BY <1>0, UnlockTargetType, UnlockTargetProper, StatusesAreStored DEF GivenBack
<1>w. ASSUME NEW s \in GivenBack, catalog' \in FailedReplicaClose(a, s)
      PROVE  ProperRows(catalog')
  <2>1. "stale" \in GivenBack
    BY DEF GivenBack
  <2> QED
    BY <1>0, <1>u, <1>w, <2>1, PublishProper DEF FailedReplicaClose, ProperEntry
<1>2. CASE CloseRead(a) \/ CloseBroken(a)
  BY <1>2, StatusDone DEF CloseRead, CloseBroken
<1>3. CASE ReplicaClose(a)
  <2>1. PICK s \in ReplicaCloseStatus(a) :
            catalog' = Publish(catalog, UnlockTarget(rst[a], l1[a].target, s, "stale"))
    BY <1>3 DEF ReplicaClose
  <2>2. s \in GivenBack
    BY <1>3, <2>1, <1>s DEF ReplicaClose, ClosesByReplica
  <2>3. ProperRows(catalog')
    BY <1>0, <1>u, <2>1, <2>2, PublishProper DEF ProperEntry
  <2> QED
    BY <1>3, <2>3, StatusLeaves DEF ReplicaClose
<1>4. CASE ReplicaCloseSizeOnly(a)
  <2>1. ProperRows(catalog')
    BY <1>0, <1>4, <1>u, PublishProper DEF ReplicaCloseSizeOnly, GivenBack, ProperEntry
  <2> QED
    BY <1>4, <2>1, StatusLeaves DEF ReplicaCloseSizeOnly
<1>6. CASE ReplicaCloseSizeNotPublished(a)
  <2>1. ProperRows(catalog')
    BY <1>6, <1>w DEF ReplicaCloseSizeNotPublished, GivenBack
  <2> QED
    BY <1>6, <2>1, StatusLeaves DEF ReplicaCloseSizeNotPublished
<1>7. CASE ReplicaCloseNotPublished(a)
  <2> DEFINE e == UnlockTarget(rst[a], l1[a].target, "stale", "stale")
  <2>1. PICK s \in ReplicaCloseStatus(a) : catalog' \in FailedReplicaClose(a, s)
    BY <1>7 DEF ReplicaCloseNotPublished
  <2>2. s \in GivenBack
    BY <1>7, <2>1, <1>s DEF ReplicaCloseNotPublished, ClosesByReplica
  <2>3. ProperRows(catalog')
    BY <2>1, <2>2, <1>w
  <2>4. ProperEntry(e)
    BY <1>u DEF GivenBack
  <2>6. e.before = rst[a].before
    BY SMT DEF UnlockTarget, RstWithAfter
  <2> HIDE DEF e
  <2>5. /\ pc'[a] = "failing" /\ rst'[a] = e /\ l1'[a] = l1[a] /\ info'[a] = info[a]
        /\ pc[a] = "open"
    BY <1>7 DEF ReplicaCloseNotPublished, AgentsOK, e
  <2> QED
    BY <2>3, <2>4, <2>5, <2>6 DEF AgentStatus, CreatePC, HoldPC
<1>5. CASE ReplicaCloseFails(a)
  <2>1. ProperRows(catalog')
    BY <1>0, <1>5, UnlockOutcomesProper DEF ReplicaCloseFails
  <2> QED
    BY <1>5, <2>1, StatusLeaves, StatusDone DEF ReplicaCloseFails
<1> QED
  BY <1>1, <1>2, <1>3, <1>4, <1>5, <1>6, <1>7 DEF Leave

\* The entry that a close publishes.
LEMMA FinalEntryProper ==
    ASSUME NEW a \in Pids, AgentsOK, AgentStatus(a), pc[a] = "closing"
    PROVE  /\ FinalEntry(a) \in RstEntry /\ ProperRows(FinalEntry(a).after)
           /\ FinalEntry(a).after[l1[a].target].original = "none"
<1> DEFINE r == l1[a].target
           b == rst[a].before[r]
<1>1. rst[a] \in RstEntry /\ ProperEntry(rst[a]) /\ r \in Replicas /\ b \in Stored
  BY AgentSelf, EntryFields DEF AgentStatus
<1>2. l1[a].mode \in {"write", "create"} /\ b # "write_locked"
  BY <1>1, AgentSelf, DescFields DEF AgentStatus
<1>3. RstHas(rst[a], r) => b \in GivenBack
  BY <1>1, <1>2 DEF ProperEntry, RstHas, GivenBack, Status, AtRestStatus, LockStatus
<1>4. ASSUME NEW s \in Stored, NEW o \in {"stale", "restore"}, RstHas(rst[a], r) => s \in GivenBack
      PROVE  LET u == UnlockTarget(rst[a], r, s, o) IN
             u \in RstEntry /\ ProperRows(u.after) /\ u.after[r].original = "none"
  <2> DEFINE u == UnlockTarget(rst[a], r, s, o)
  <2>1. u \in RstEntry
    BY <1>1, <1>4, UnlockTargetType, StatusesAreStored
  <2>2. ProperEntry(u) /\ u.after \in [Replicas -> {NoRow} \cup {MkRow(x, "none") : x \in GivenBack}]
    BY <1>1, <1>4, UnlockTargetProper DEF RstHas
  <2> HIDE DEF u
  <2>3. u.after[r].original = "none"
    BY <1>1, <2>2, SMT DEF NoRow, MkRow
  <2> QED
    BY <2>1, <2>2, <2>3 DEF ProperEntry, u
<1> QED
  BY <1>1, <1>3, <1>4, StatusesAreStored DEF FinalEntry, GivenBack

LEMMA CloseStepKeepsStatus ==
    ASSUME NEW a \in Pids, SharedOK, AgentsOK, ProperRows(catalog), AgentStatus(a), CloseStep(a)
    PROVE  ProperRows(catalog') /\ AgentStatus(a)'
<1>0. rst[a] \in RstEntry /\ ProperEntry(rst[a]) /\ catalog \in Rows /\ ProperRows(info[a])
  BY AgentSelf DEF AgentStatus, SharedOK
<1>1. CASE FinalizeDataObject(a)
  BY <1>0, <1>1, FinalEntryProper, PublishProper, StatusDone DEF FinalizeDataObject
<1>2. CASE FinalizeNotPublished(a)
  <2> DEFINE e == SetStatus(FinalEntry(a), l1[a].target, "stale")
  <2>1. pc[a] = "closing" /\ l1[a].target \in Replicas
    BY <1>2, AgentSelf DEF FinalizeNotPublished
  <2>2. e \in RstEntry /\ ProperRows(e.after)
    BY <2>1, FinalEntryProper, SetStatusType, SetStaleProper, StatusesAreStored
  <2> QED
    BY <1>2, <2>2, PublishedProper, StatusDone DEF FinalizeNotPublished
<1>3. CASE FinalizeFailedOperation(a) \/ ExitFinalizes(a)
  <2>1. ProperRows(catalog')
    BY <1>0, <1>3, UnlockOutcomesProper DEF FinalizeFailedOperation, ExitFinalizes
  <2> QED
    BY <1>3, <2>1, StatusDone DEF FinalizeFailedOperation, ExitFinalizes
<1>4. CASE ReplicaCloseReleases(a) \/ FinalizeThrows(a)
  BY <1>4, StatusDone DEF ReplicaCloseReleases, FinalizeThrows
<1>5. CASE ReplicaCloseUpdatesOnError(a)
  <2>1. ProperRows(catalog')
    BY <1>0, <1>5, PublishProper DEF ReplicaCloseUpdatesOnError, ProperEntry
  <2>2. /\ pc[a] = "failing" /\ pc'[a] = "broken" /\ rst'[a] = NoEntry /\ l1'[a] = l1[a]
        /\ info'[a] = info[a] /\ l1[a].target \in Replicas
    BY <1>5, AgentSelf DEF ReplicaCloseUpdatesOnError, AgentsOK
  <2> QED
    BY <1>0, <2>1, <2>2, StatusDropped DEF AgentStatus, HoldPC, CreatePC
<1> QED
  BY <1>1, <1>2, <1>3, <1>4, <1>5 DEF CloseStep

LEMMA EndKeepsStatus ==
    ASSUME NEW a \in Pids, SharedOK, AgentsOK, ProperRows(catalog), AgentStatus(a),
           ExitWithoutOpenFile(a) \/ Crash(a) \/ Reap(a)
    PROVE  ProperRows(catalog') /\ AgentStatus(a)'
<1>1. CASE ExitWithoutOpenFile(a)
  BY <1>1, StatusDone DEF ExitWithoutOpenFile
<1>2. CASE Crash(a)
  <2>1. /\ pc'[a] = "crashed" /\ l1'[a].mode = "read" /\ rst'[a] = NoEntry /\ info'[a] = NoRows
        /\ catalog' = catalog
    BY <1>2 DEF Crash, AgentsOK, NoDesc, Desc
  <2> QED
    BY <2>1, StatusDropped, NoEntryProper DEF HoldPC, CreatePC
<1>3. CASE Reap(a)
  <2>1. /\ pc'[a] = "reaped" /\ l1'[a] = l1[a] /\ rst'[a] = rst[a] /\ info'[a] = info[a]
        /\ catalog' = catalog
    BY <1>3 DEF Reap, AgentsOK
  <2> QED
    BY <2>1, StatusKept DEF HoldPC, CreatePC, AgentStatus
<1> QED
  BY <1>1, <1>2, <1>3

LEMMA InitStatus == Init => StatusInv
<1> SUFFICES ASSUME Init PROVE StatusInv
  OBVIOUS
<1>1. ProperRows(catalog)
  <2>1. \A r \in Replicas : catalog[r] \in {NoRow} \cup {MkRow(s, "none") : s \in AtRestStatus}
    BY DEF Init
  <2> QED
    BY <2>1, GivenBackProper DEF ProperRows, ProperRow, AtRestStatus, GivenBack
<1>2. ASSUME NEW a \in Pids PROVE AgentStatus(a)
  <2>1. pc[a] = "idle" /\ l1[a].mode = "read" /\ rst[a] = NoEntry /\ info[a] = NoRows
    BY DEF Init, NoDesc, Desc
  <2>2. \A r \in Replicas : NoEntry.before[r] # "write_locked"
    BY DEF NoEntry
  <2> QED
    BY <2>1, <2>2, NoEntryProper DEF AgentStatus, CreatePC, HoldPC
<1> QED
  BY <1>1, <1>2 DEF StatusInv

LEMMA StepStatus ==
    ASSUME IInv, StatusInv, StatusesRecorded, [Next]_vars
    PROVE  StatusInv'
<1>1. SharedOK /\ AgentsOK
  BY InvParts
<1>2. CASE UNCHANGED vars
  BY <1>2 DEF vars, StatusInv, AgentStatus, Joined
<1>3. ASSUME NEW a \in Pids, AgentStep(a) PROVE StatusInv'
  <2>1. ProperRows(catalog) /\ AgentStatus(a)
    BY DEF StatusInv
  <2>2. ProperRows(catalog') /\ AgentStatus(a)'
    BY <1>1, <1>3, <2>1, RequestKeepsStatus, OpenStepKeepsStatus, CreateStepKeepsStatus,
       LeaveKeepsStatus, CloseStepKeepsStatus, EndKeepsStatus DEF AgentStep
  <2>3. ASSUME NEW b \in Pids \ {a} PROVE AgentStatus(b)'
    <3>1. pc'[b] = pc[b] /\ l1'[b] = l1[b] /\ rst'[b] = rst[b] /\ info'[b] = info[b]
      BY <1>1, <1>3, StepKeepsOthers DEF OthersKeep
    <3>2. AgentStatus(b)
      BY DEF StatusInv
    <3> QED
      BY <3>1, <3>2 DEF AgentStatus, Joined
  <2> QED
    BY <2>2, <2>3 DEF StatusInv
<1> QED
  BY <1>2, <1>3 DEF Next, AgentStep

\* Whatever else clients do, fails or races: if replica_close is used by the
\* agents that locked the object and no creation leaves its table entry behind,
\* every write-locked row of the catalog has recorded the status that unlocking
\* will give back.
THEOREM StatusesAreRemembered == StatusesRecorded => (Spec => []LockedRowsRememberStatus)
<1> SUFFICES ASSUME StatusesRecorded PROVE Spec => []LockedRowsRememberStatus
  OBVIOUS
<1>1. Init => IInv /\ StatusInv
  BY InitInv, InitStatus
<1>2. (IInv /\ StatusInv) /\ [Next]_vars => (IInv /\ StatusInv)'
  BY StepInv, StepStatus
<1>3. StatusInv => LockedRowsRememberStatus
  BY SMT DEF StatusInv, LockedRowsRememberStatus, ProperRows, ProperRow, NoRow
<1> QED
  BY <1>1, <1>2, <1>3, PTL DEF Spec
-----------------------------------------------------------------------------
(* Who is listed in the replica access table.                              *)

\* What a step of an agent does to the table.
TableMove(a) ==
    \/ g_map' \in {g_map, ErasedFor(a), EraseAllOfPid(g_map, a)}
    \/ \E t \in Tokens \ DOMAIN g_map : g_map' = Insert(g_map, t, l1[a].target, a)
    \/ /\ TokenIsValid(a) /\ g_map[l1[a].token].agent_pids[a] < MaxOpens
       /\ g_map' = PushPid(g_map, l1[a].token, a)

LEMMA StepMovesTable ==
    ASSUME NEW a \in Pids, AgentStep(a)
    PROVE  TableMove(a)
<1>1. CASE Request(a)
  BY <1>1 DEF Request, Resolve, Write, TableMove
<1>2. CASE OpenStep(a)
  BY <1>2 DEF OpenStep, OpenDenied, ReadGranted, LockObject, JoinObject, OpenReplica, TruncateReplica,
              OpenFails, ChooseRatUpdate, CreateRatEntry, AppendToRatEntry, RatUpdateFails, TableMove
<1>3. CASE CreateStep(a)
  BY <1>3 DEF CreateStep, CreateDenied, LockForCreate, RegisterReplica, RegistrationFails,
              CreatePhysicalFile, CreatePhysicalFileFails, CleanUpUnlocks, CleanUpUnregisters,
              CreateRatFails, TableMove
<1>4. CASE Leave(a)
  BY <1>4 DEF Leave, FinishWriting, CloseRead, Close, ReplicaCloseSilently, ReplicaClose,
              ReplicaCloseSizeOnly, ReplicaCloseNotPublished, ReplicaCloseSizeNotPublished,
              ReplicaCloseFails, ReplicaCloseFailsSilently, CloseBroken, Exit, TableMove
<1>5. CASE CloseStep(a)
  BY <1>5 DEF CloseStep, FinalizeDataObject, FinalizeNotPublished, FinalizeThrows,
              FinalizeFailedOperation, ReplicaCloseUpdatesOnError, ReplicaCloseReleases,
              ExitFinalizes, TableMove
<1>6. CASE ExitWithoutOpenFile(a) \/ Crash(a) \/ Reap(a)
  BY <1>6 DEF ExitWithoutOpenFile, Crash, Reap, TableMove
<1> QED
  BY <1>1, <1>2, <1>3, <1>4, <1>5, <1>6 DEF AgentStep

LEMMA ErasedForCount ==
    ASSUME SharedOK, NEW a \in Pids, NEW t, NEW q \in Pids
    PROVE  /\ q # a \/ t # l1[a].token => Count(ErasedFor(a), t, q) = Count(g_map, t, q)
           /\ Count(g_map, l1[a].token, a) \in {0, 1} => Count(ErasedFor(a), l1[a].token, a) = 0
<1> DEFINE u == l1[a].token
<1>1. g_map \in Table /\ Count(g_map, u, a) \in Nat
  BY CountType DEF SharedOK
<1>2. CASE u \in DOMAIN g_map /\ g_map[u].agent_pids[a] > 0
  <2>1. ErasedFor(a) = ErasePid(g_map, u, a)
    BY <1>2 DEF ErasedFor
  <2>2. /\ Count(ErasedFor(a), t, q) = IF t = u /\ q = a THEN Count(g_map, u, a) - 1 ELSE Count(g_map, t, q)
        /\ Count(ErasedFor(a), u, a) = Count(g_map, u, a) - 1
    BY <1>1, <1>2, <2>1, EraseCount, SMT
  <2>3. Count(g_map, u, a) > 0
    BY <1>2 DEF Count
  <2> QED
    BY <1>1, <2>2, <2>3, SMT
<1>3. CASE ~ (u \in DOMAIN g_map /\ g_map[u].agent_pids[a] > 0)
  <2>1. ErasedFor(a) = g_map /\ ~ (Count(g_map, u, a) > 0)
    BY <1>3, SMT DEF ErasedFor, Count
  <2> QED
    BY <1>1, <2>1, SMT
<1> QED
  BY <1>2, <1>3

\* A step of an agent leaves the other agents as they are in the table, and a
\* token its replica.
LEMMA OthersStayListed ==
    ASSUME SharedOK, NEW a \in Pids, TableMove(a), NEW b \in Pids \ {a}, NEW t
    PROVE  /\ Count(g_map', t, b) = Count(g_map, t, b)
           /\ t \in DOMAIN g_map /\ t \in DOMAIN g_map' => g_map'[t].replica = g_map[t].replica
<1>0. g_map \in Table
  BY DEF SharedOK
<1>1. CASE g_map' = g_map
  BY <1>1
<1>2. CASE g_map' = ErasedFor(a)
  <2>1. Count(g_map', t, b) = Count(g_map, t, b)
    BY <1>2, ErasedForCount
  <2>2. t \in DOMAIN g_map' => g_map'[t].replica = g_map[t].replica
    BY <1>0, <1>2, ErasePidTable DEF ErasedFor
  <2> QED
    BY <2>1, <2>2
<1>3. CASE g_map' = EraseAllOfPid(g_map, a)
  BY <1>0, <1>3, EraseAllCount, EraseAllOfPidTable, SMT
<1>4. ASSUME NEW u \in Tokens \ DOMAIN g_map, g_map' = Insert(g_map, u, l1[a].target, a)
      PROVE  /\ Count(g_map', t, b) = Count(g_map, t, b)
             /\ t \in DOMAIN g_map => g_map'[t].replica = g_map[t].replica
  <2>1. Count(g_map', t, b) = Count(g_map, t, b)
    BY <1>0, <1>4, InsertCount, SMT
  <2>2. t \in DOMAIN g_map => g_map'[t].replica = g_map[t].replica
    BY <1>4 DEF Insert
  <2> QED
    BY <2>1, <2>2
<1>5. CASE /\ TokenIsValid(a) /\ g_map[l1[a].token].agent_pids[a] < MaxOpens
           /\ g_map' = PushPid(g_map, l1[a].token, a)
  <2>1. l1[a].token \in DOMAIN g_map
    BY <1>5 DEF TokenIsValid, ContainsToken
  <2> QED
    BY <1>0, <1>5, <2>1, PushCount, PushPidTable, SMT
<1> QED
  BY <1>1, <1>2, <1>3, <1>4, <1>5 DEF TableMove

ListedPC == {"open", "finished", "failing", "released", "broken"}

\* An agent that has a replica open for writing is in the table under the token
\* of its descriptor; an agent without a request has an empty descriptor.
Listed(a) ==
    /\ pc[a] \in {"idle", "crashed", "reaped"} => l1[a] = NoDesc
    /\ pc[a] \in ListedPC =>
        /\ l1[a].mode # "read" => l1[a].token # NoToken
        /\ l1[a].token # NoToken =>
            Count(g_map, l1[a].token, a) > 0 /\ ContainsToken(g_map, l1[a].token, l1[a].target)

ListedInv == \A a \in Pids : Listed(a)

LEMMA ListedDone ==
    ASSUME NEW a \in Pids, AgentsOK, Done(a)
    PROVE  Listed(a)'
BY DEF AgentsOK, Done, Listed, ListedPC

LEMMA ListedElsewhere ==
    ASSUME NEW a \in Pids, AgentsOK, NEW p \in PC \ (ListedPC \cup {"idle", "crashed", "reaped"}),
           pc' = [pc EXCEPT ![a] = p]
    PROVE  Listed(a)'
<1>1. pc'[a] = p
  BY DEF AgentsOK
<1> QED
  BY <1>1 DEF Listed

LEMMA ListedStays ==
    ASSUME NEW a \in Pids, AgentsOK, Listed(a), g_map' = g_map,
           pc[a] \in ListedPC, NEW p \in ListedPC, pc' = [pc EXCEPT ![a] = p] \/ (pc' = pc /\ pc[a] = p),
           l1'[a].mode = l1[a].mode, l1'[a].target = l1[a].target, l1'[a].token = l1[a].token
    PROVE  Listed(a)'
BY DEF AgentsOK, Listed, ListedPC

LEMMA StepListed ==
    ASSUME NEW a \in Pids, SharedOK, AgentsOK, Listed(a), AgentStep(a)
    PROVE  Listed(a)'
<1> USE DEF PC, ListedPC
<1>0. g_map \in Table /\ DOMAIN g_map \subseteq Tokens
  BY TableMembership DEF SharedOK
<1>1. CASE Request(a)
  <2>1. CASE Write(a)
    <3>1. /\ l1'[a].mode = l1[a].mode /\ l1'[a].target = l1[a].target
          /\ l1'[a].token = l1[a].token /\ g_map' = g_map /\ pc' = pc /\ pc[a] = "open"
      BY <2>1 DEF Write, AgentsOK, Written, Desc
    <3> QED
      BY <3>1, ListedStays
  <2> QED
    BY <1>1, <2>1, ListedElsewhere DEF Request, Resolve
<1>2. CASE OpenStep(a)
  <2>1. CASE OpenDenied(a)
    BY <2>1 DEF OpenDenied, AgentsOK, Listed
  <2>2. CASE ReadGranted(a) \/ JoinObject(a)
    BY <2>2, ListedElsewhere DEF ReadGranted, JoinObject
  <2>3. CASE LockObject(a)
    BY <2>3, ListedElsewhere, ListedDone DEF LockObject
  <2>4. CASE OpenReplica(a)
    <3>1. CASE l1[a].mode = "read" /\ info[a][l1[a].target].status # "intermediate"
      <4>1. pc'[a] = "open" /\ l1'[a].mode = "read" /\ l1'[a].token = NoToken
        BY <2>4, <3>1, SMT DEF OpenReplica, AgentsOK, WithToken, Desc
      <4> QED
        BY <4>1 DEF Listed
    <3>2. CASE ~ (l1[a].mode = "read" /\ info[a][l1[a].target].status # "intermediate")
      BY <2>4, <3>2, ListedElsewhere DEF OpenReplica
    <3> QED
      BY <3>1, <3>2
  <2>5. CASE TruncateReplica(a)
    BY <2>5, ListedElsewhere, ListedDone DEF TruncateReplica
  <2>6. CASE OpenFails(a) \/ RatUpdateFails(a)
    BY <2>6, ListedDone DEF OpenFails, RatUpdateFails
  <2>7. CASE ChooseRatUpdate(a)
    BY <2>7, ListedElsewhere DEF ChooseRatUpdate
  <2>8. CASE CreateRatEntry(a)
    <3>1. PICK t \in Tokens \ DOMAIN g_map :
            g_map' = Insert(g_map, t, l1[a].target, a) /\ l1' = [l1 EXCEPT ![a] = WithToken(l1[a], t)]
      BY <2>8 DEF CreateRatEntry
    <3>2. pc'[a] = "open" /\ l1'[a].token = t /\ l1'[a].target = l1[a].target
      BY <2>8, <3>1 DEF CreateRatEntry, AgentsOK, WithToken, Desc
    <3>3. Count(g_map', t, a) = 1
      BY <1>0, <3>1, InsertCount, SMT
    <3>4. ContainsToken(g_map', t, l1[a].target)
      BY <3>1 DEF Insert, ContainsToken
    <3> QED
      BY <3>2, <3>3, <3>4, DistinctAssumption, SMT DEF Listed
  <2>9. CASE AppendToRatEntry(a)
    <3>1. /\ pc'[a] = "open" /\ l1'[a] = l1[a] /\ l1[a].token \in DOMAIN g_map
          /\ g_map[l1[a].token].replica = l1[a].target
          /\ g_map[l1[a].token].agent_pids[a] < MaxOpens
          /\ g_map' = PushPid(g_map, l1[a].token, a)
      BY <2>9 DEF AppendToRatEntry, AgentsOK, TokenIsValid, ContainsToken
    <3>2. Count(g_map', l1[a].token, a) > 0 /\ ContainsToken(g_map', l1[a].token, l1[a].target)
      BY <1>0, <3>1, PushPidTable DEF Count, ContainsToken
    <3> QED
      BY <1>0, <3>1, <3>2, DistinctAssumption DEF Listed
  <2> QED
    BY <1>2, <2>1, <2>2, <2>3, <2>4, <2>5, <2>6, <2>7, <2>8, <2>9 DEF OpenStep
<1>3. CASE CreateStep(a)
  <2>1. CASE CreateDenied(a)
    BY <2>1 DEF CreateDenied, AgentsOK, Listed
  <2>2. CASE LockForCreate(a)
    <3>1. CASE pc' = [pc EXCEPT ![a] = "creating"]
      BY <3>1, ListedElsewhere
    <3>2. CASE pc' = [pc EXCEPT ![a] = "idle"] /\ l1' = [l1 EXCEPT ![a] = NoDesc]
      BY <3>2 DEF AgentsOK, Listed
    <3> QED
      BY <2>2, <3>1, <3>2 DEF LockForCreate
  <2>3. CASE RegisterReplica(a) \/ CreatePhysicalFile(a) \/ CreatePhysicalFileFails(a)
             \/ CleanUpUnlocks(a) \/ CreateRatFails(a)
    BY <2>3, ListedElsewhere DEF RegisterReplica, CreatePhysicalFile, CreatePhysicalFileFails,
                                 CleanUpUnlocks, CreateRatFails
  <2>4. CASE RegistrationFails(a) \/ CleanUpUnregisters(a)
    BY <2>4, ListedDone DEF RegistrationFails, CleanUpUnregisters
  <2> QED
    BY <1>3, <2>1, <2>2, <2>3, <2>4 DEF CreateStep
<1>4. CASE Leave(a)
  <2>1. CASE CloseRead(a) \/ CloseBroken(a)
    BY <2>1, ListedDone DEF CloseRead, CloseBroken
  <2>2. CASE Close(a) \/ Exit(a)
    BY <2>2, ListedElsewhere DEF Close, Exit
  <2>3. CASE FinishWriting(a) \/ ReplicaCloseSilently(a) \/ ReplicaClose(a) \/ ReplicaCloseSizeOnly(a)
    BY <2>3, ListedStays DEF FinishWriting, ReplicaCloseSilently, ReplicaClose, ReplicaCloseSizeOnly
  <2>4. CASE ReplicaCloseNotPublished(a) \/ ReplicaCloseSizeNotPublished(a)
             \/ ReplicaCloseFailsSilently(a)
    BY <2>4, ListedStays DEF ReplicaCloseNotPublished, ReplicaCloseSizeNotPublished,
                             ReplicaCloseFailsSilently
  <2>5. CASE ReplicaCloseFails(a)
    BY <2>5, ListedStays, ListedDone DEF ReplicaCloseFails
  <2> QED
    BY <1>4, <2>1, <2>2, <2>3, <2>4, <2>5 DEF Leave
<1>5. CASE CloseStep(a)
  BY <1>5, ListedDone, ListedStays DEF CloseStep, FinalizeDataObject, FinalizeNotPublished,
        FinalizeThrows, FinalizeFailedOperation, ReplicaCloseUpdatesOnError,
        ReplicaCloseReleases, ExitFinalizes
<1>6. CASE ExitWithoutOpenFile(a)
  BY <1>6, ListedDone DEF ExitWithoutOpenFile
<1>7. CASE Crash(a) \/ Reap(a)
  BY <1>7 DEF Crash, Reap, AgentsOK, Listed
<1> QED
  BY <1>1, <1>2, <1>3, <1>4, <1>5, <1>6, <1>7 DEF AgentStep

LEMMA InitListed == Init => ListedInv
BY DEF Init, ListedInv, Listed, ListedPC

LEMMA StepKeepsListed ==
    ASSUME IInv, ListedInv, [Next]_vars
    PROVE  ListedInv'
<1>1. SharedOK /\ AgentsOK
  BY InvParts
<1>2. CASE UNCHANGED vars
  BY <1>2 DEF vars, ListedInv, Listed
<1>3. ASSUME NEW a \in Pids, AgentStep(a) PROVE ListedInv'
  <2>1. Listed(a)'
    BY <1>1, <1>3, StepListed DEF ListedInv
  <2>2. ASSUME NEW b \in Pids \ {a} PROVE Listed(b)'
    <3>1. pc'[b] = pc[b] /\ l1'[b] = l1[b]
      BY <1>1, <1>3, StepKeepsOthers DEF OthersKeep
    <3>2. Count(g_map', l1[b].token, b) = Count(g_map, l1[b].token, b)
      BY <1>1, <1>3, StepMovesTable, OthersStayListed
    <3>3. l1[b].token \in DOMAIN g_map /\ l1[b].token \in DOMAIN g_map'
          => g_map'[l1[b].token].replica = g_map[l1[b].token].replica
      BY <1>1, <1>3, StepMovesTable, OthersStayListed
    <3>4. Listed(b)
      BY DEF ListedInv
    <3>5. Count(g_map', l1[b].token, b) > 0 => l1[b].token \in DOMAIN g_map'
      BY SMT DEF Count
    <3> QED
      BY <3>1, <3>2, <3>3, <3>4, <3>5 DEF Listed, ContainsToken
  <2> QED
    BY <2>1, <2>2 DEF ListedInv
<1> QED
  BY <1>2, <1>3 DEF Next, AgentStep

-----------------------------------------------------------------------------
\* What the table must not keep: the token of a reader, which rsDataObjClose of
\* a read does not give back, the PID of a killed agent, or an agent whose
\* descriptor replica_close frees without leaving the table.
EveryoneLeaves ==
    /\ "read_token" \notin Clients
    /\ "crash" \notin Faults
    /\ "storage" \in Faults => ~ ClosesByReplica

\* Readers stay away from the table.
Reader(a) ==
    l1[a].mode = "read" =>
        /\ l1[a].token = NoToken
        /\ pc[a] \notin CreatePC \cup {"opened", "rat_create", "rat_update", "closing", "failing"}
        /\ pc[a] = "granted" => info[a][l1[a].target].status # "intermediate"

\* Nobody is in the table twice, or without an open replica.
Unlisted(a) ==
    \A t \in Tokens :
        /\ Count(g_map, t, a) \in {0, 1}
        /\ Count(g_map, t, a) = 1 => pc[a] \in ListedPC /\ l1[a].mode # "read" /\ l1[a].token = t

UnlistedInv == \A a \in Pids : Reader(a) /\ Unlisted(a)

LEMMA StepReader ==
    ASSUME NEW a \in Pids, SharedOK, AgentsOK, Listed(a), Reader(a), AgentStep(a), EveryoneLeaves
    PROVE  Reader(a)'
<1>0. NoToken \notin DOMAIN g_map
  BY TableMembership, DistinctAssumption DEF SharedOK
<1>1. CASE l1'[a] = NoDesc /\ pc'[a] \in {"idle", "crashed", "reaped"}
  BY <1>1, SMT DEF Reader, NoDesc, Desc, CreatePC
<1>2. CASE l1'[a].mode # "read"
  BY <1>2 DEF Reader
<1>3. ASSUME NEW r \in Replicas, NEW m \in {"read", "write", "create"},
             NEW t \in Tokens \cup {NoToken}, Resolve(a, r, m, t)
      PROVE  Reader(a)'
  <2>1. /\ pc'[a] = "resolved" /\ l1'[a].mode = m /\ l1'[a].token = t
        /\ m = "read" => t = NoToken
    BY <1>3 DEF Resolve, AgentsOK, Desc, EveryoneLeaves
  <2> QED
    BY <2>1 DEF Reader, CreatePC
<1>4. CASE ReadGranted(a)
  <2>1. /\ pc'[a] = "granted" /\ l1'[a] = l1[a] /\ info'[a] = info[a] /\ l1[a].mode = "read"
    BY <1>4 DEF ReadGranted, AgentsOK
  <2>2. info[a][l1[a].target].status # "intermediate"
    BY <1>0, <1>4, <2>1 DEF ReadGranted, TryLockReplica, TokenIsValid, ContainsToken, Reader
  <2> QED
    BY <2>1, <2>2 DEF Reader, CreatePC
<1>5. CASE OpenReplica(a) /\ l1[a].mode = "read"
  <2>1. pc'[a] = "open" /\ l1'[a].mode = "read" /\ l1'[a].token = NoToken
    BY <1>5, SMT DEF OpenReplica, AgentsOK, WithToken, Desc, Reader
  <2> QED
    BY <2>1 DEF Reader, CreatePC
<1>6. CASE Done(a)
  BY <1>1, <1>6 DEF Done, AgentsOK
<1>7. CASE Exit(a)
  <2>1. pc'[a] = "exiting" /\ l1'[a] = l1[a]
    BY <1>7 DEF Exit, AgentsOK
  <2> QED
    BY <2>1 DEF Reader, CreatePC
<1>8. CASE Request(a)
  <2>1. CASE Write(a)
    BY <1>2, <2>1 DEF Write, AgentsOK, Written, Desc
  <2> QED
    BY <1>3, <1>8, <2>1 DEF Request
<1>9. CASE OpenStep(a)
  <2>1. CASE OpenDenied(a)
    BY <1>1, <2>1 DEF OpenDenied, AgentsOK
  <2>2. CASE LockObject(a) \/ JoinObject(a) \/ TruncateReplica(a)
    BY <1>2, <1>6, <2>2 DEF LockObject, JoinObject, TruncateReplica
  <2>3. CASE OpenReplica(a) /\ l1[a].mode # "read"
    BY <1>2, <2>3 DEF OpenReplica
  <2>4. CASE OpenFails(a) \/ RatUpdateFails(a)
    BY <1>6, <2>4 DEF OpenFails, RatUpdateFails
  <2>5. CASE ChooseRatUpdate(a) \/ AppendToRatEntry(a)
    <3>1. l1[a].mode # "read" /\ l1' = l1
      BY <2>5 DEF ChooseRatUpdate, AppendToRatEntry, Reader
    <3> QED
      BY <1>2, <3>1
  <2>6. CASE CreateRatEntry(a)
    <3>1. l1[a].mode # "read" /\ l1'[a].mode = l1[a].mode
      BY <2>6, SMT DEF CreateRatEntry, Reader, AgentsOK, WithToken, Desc
    <3> QED
      BY <1>2, <3>1
  <2> QED
    BY <1>4, <1>5, <1>9, <2>1, <2>2, <2>3, <2>4, <2>5, <2>6 DEF OpenStep
<1>10. CASE CreateStep(a)
  <2>1. CASE CreateDenied(a)
    BY <1>1, <2>1 DEF CreateDenied, AgentsOK
  <2>2. CASE LockForCreate(a)
    <3>1. CASE l1' = l1
      BY <1>2, <2>2, <3>1 DEF LockForCreate
    <3>2. CASE pc' = [pc EXCEPT ![a] = "idle"] /\ l1' = [l1 EXCEPT ![a] = NoDesc]
      BY <1>1, <3>2 DEF AgentsOK
    <3> QED
      BY <2>2, <3>1, <3>2 DEF LockForCreate
  <2>3. CASE RegistrationFails(a) \/ CleanUpUnregisters(a)
    BY <1>6, <2>3 DEF RegistrationFails, CleanUpUnregisters
  <2>4. CASE RegisterReplica(a) \/ CreatePhysicalFile(a) \/ CreatePhysicalFileFails(a)
             \/ CleanUpUnlocks(a) \/ CreateRatFails(a)
    <3>1. l1' = l1 /\ pc[a] \in CreatePC \cup {"rat_create"}
      BY <2>4 DEF RegisterReplica, CreatePhysicalFile, CreatePhysicalFileFails, CleanUpUnlocks,
                  CreateRatFails, CreatePC
    <3> QED
      BY <1>2, <3>1 DEF Reader
  <2> QED
    BY <1>10, <2>1, <2>2, <2>3, <2>4 DEF CreateStep
<1>11. CASE Leave(a)
  BY <1>2, <1>6, <1>7, <1>11 DEF Leave, FinishWriting, CloseRead, Close, ReplicaCloseSilently, ReplicaClose,
              ReplicaCloseSizeOnly, ReplicaCloseNotPublished, ReplicaCloseSizeNotPublished,
              ReplicaCloseFails, ReplicaCloseFailsSilently, CloseBroken
<1>12. CASE CloseStep(a) \/ ExitWithoutOpenFile(a)
  <2>1. CASE ReplicaCloseUpdatesOnError(a)
    BY <1>2, <2>1 DEF ReplicaCloseUpdatesOnError, Reader
  <2> QED
    BY <1>6, <1>12, <2>1 DEF CloseStep, FinalizeDataObject, FinalizeNotPublished, FinalizeThrows,
          FinalizeFailedOperation, ReplicaCloseReleases, ExitFinalizes, ExitWithoutOpenFile
<1>13. CASE Crash(a) \/ Reap(a)
  BY <1>1, <1>13 DEF Crash, Reap, AgentsOK, Listed
<1> QED
  BY <1>8, <1>9, <1>10, <1>11, <1>12, <1>13 DEF AgentStep

\* The agent is in the table nowhere, before or after.
LEMMA NowhereListed ==
    ASSUME NEW a \in Pids, Unlisted(a), g_map' = g_map,
           pc[a] \notin ListedPC \/ l1[a].mode = "read"
    PROVE  Unlisted(a)'
BY DEF Unlisted

LEMMA LeavesTable ==
    ASSUME NEW a \in Pids, SharedOK, AgentsOK, Unlisted(a),
           g_map' \in {ErasedFor(a), EraseAllOfPid(g_map, a)}
    PROVE  Unlisted(a)'
<1> SUFFICES ASSUME NEW t \in Tokens PROVE Count(g_map', t, a) = 0
  BY SMT DEF Unlisted
<1>1. g_map \in Table /\ Count(g_map, t, a) \in {0, 1}
  BY DEF SharedOK, Unlisted
<1>2. CASE g_map' = EraseAllOfPid(g_map, a)
  BY <1>1, <1>2, EraseAllCount
<1>3. CASE g_map' = ErasedFor(a) /\ t = l1[a].token
  BY <1>1, <1>3, ErasedForCount
<1>4. CASE g_map' = ErasedFor(a) /\ t # l1[a].token
  <2>1. Count(g_map, t, a) = 0
    BY <1>1, <1>4 DEF Unlisted
  <2> QED
    BY <1>4, <2>1, ErasedForCount
<1> QED
  BY <1>2, <1>3, <1>4

LEMMA StepUnlisted ==
    ASSUME NEW a \in Pids, SharedOK, AgentsOK, Reader(a), Unlisted(a), AgentStep(a), EveryoneLeaves
    PROVE  Unlisted(a)'
<1> USE DEF ListedPC
<1>0. g_map \in Table /\ DOMAIN g_map \subseteq Tokens
  BY TableMembership DEF SharedOK
<1>1. ASSUME g_map' = g_map, pc[a] \in ListedPC, pc'[a] \in ListedPC,
             l1'[a].mode = l1[a].mode, l1'[a].token = l1[a].token
      PROVE  Unlisted(a)'
  BY <1>1 DEF Unlisted
<1>2. CASE Request(a)
  <2>1. CASE Write(a)
    <3>1. /\ g_map' = g_map /\ pc[a] = "open" /\ pc' = pc
          /\ l1'[a].mode = l1[a].mode /\ l1'[a].token = l1[a].token
      BY <2>1 DEF Write, AgentsOK, Written, Desc
    <3> QED
      BY <1>1, <3>1
  <2> QED
    BY <1>2, <2>1, NowhereListed DEF Request, Resolve
<1>3. CASE OpenStep(a)
  <2>1. CASE CreateRatEntry(a)
    <3>1. PICK t \in Tokens \ DOMAIN g_map :
            g_map' = Insert(g_map, t, l1[a].target, a) /\ l1' = [l1 EXCEPT ![a] = WithToken(l1[a], t)]
      BY <2>1 DEF CreateRatEntry
    <3>2. /\ pc[a] = "rat_create" /\ pc'[a] = "open" /\ l1'[a].token = t
          /\ l1'[a].mode = l1[a].mode /\ l1[a].mode # "read"
      BY <2>1, <3>1 DEF CreateRatEntry, AgentsOK, WithToken, Desc, Reader
    <3>3. \A u \in Tokens : Count(g_map', u, a) = IF u = t THEN 1 ELSE Count(g_map, u, a)
      BY <1>0, <3>1, InsertCount, SMT
    <3>4. \A u \in Tokens : Count(g_map, u, a) = 0
      BY <3>2 DEF Unlisted
    <3> QED
      BY <3>2, <3>3, <3>4 DEF Unlisted
  <2>2. CASE AppendToRatEntry(a)
    <3>1. /\ pc[a] = "rat_update" /\ pc'[a] = "open" /\ l1'[a] = l1[a] /\ l1[a].mode # "read"
          /\ l1[a].token \in DOMAIN g_map /\ g_map' = PushPid(g_map, l1[a].token, a)
      BY <2>2 DEF AppendToRatEntry, AgentsOK, TokenIsValid, ContainsToken, Reader
    <3>2. \A u \in Tokens : Count(g_map', u, a) =
            IF u = l1[a].token THEN Count(g_map, l1[a].token, a) + 1 ELSE Count(g_map, u, a)
      BY <1>0, <3>1, PushCount, SMT
    <3>3. \A u \in Tokens : Count(g_map, u, a) = 0
      BY <3>1 DEF Unlisted
    <3> QED
      BY <1>0, <3>1, <3>2, <3>3, SMT DEF Unlisted
  <2>3. CASE OpenDenied(a) \/ ReadGranted(a) \/ LockObject(a) \/ JoinObject(a) \/ OpenReplica(a)
    BY <2>3, NowhereListed DEF OpenDenied, ReadGranted, LockObject, JoinObject, OpenReplica
  <2>4. CASE TruncateReplica(a) \/ OpenFails(a) \/ ChooseRatUpdate(a) \/ RatUpdateFails(a)
    BY <2>4, NowhereListed DEF TruncateReplica, OpenFails, ChooseRatUpdate, RatUpdateFails
  <2> QED
    BY <1>3, <2>1, <2>2, <2>3, <2>4 DEF OpenStep
<1>4. CASE CreateStep(a)
  BY <1>4, NowhereListed DEF CreateStep, CreateDenied, LockForCreate, RegisterReplica,
        RegistrationFails, CreatePhysicalFile, CreatePhysicalFileFails, CleanUpUnlocks,
        CleanUpUnregisters, CreateRatFails
<1>5. CASE Leave(a)
  <2>1. CASE CloseRead(a)
    BY <2>1, NowhereListed DEF CloseRead
  <2>2. CASE Close(a) \/ CloseBroken(a)
    BY <2>2, LeavesTable DEF Close, CloseBroken
  <2>3. CASE Exit(a)
    BY <2>3, LeavesTable, NowhereListed DEF Exit
  <2>4. CASE FinishWriting(a) \/ ReplicaCloseSilently(a) \/ ReplicaClose(a) \/ ReplicaCloseSizeOnly(a)
             \/ ReplicaCloseNotPublished(a) \/ ReplicaCloseSizeNotPublished(a)
             \/ ReplicaCloseFailsSilently(a)
    <3>1. g_map' = g_map /\ pc[a] \in ListedPC /\ pc'[a] \in ListedPC /\ l1' = l1
      BY <2>4 DEF FinishWriting, ReplicaCloseSilently, ReplicaClose, ReplicaCloseSizeOnly,
                  ReplicaCloseNotPublished, ReplicaCloseSizeNotPublished,
                  ReplicaCloseFailsSilently, AgentsOK
    <3> QED
      BY <1>1, <3>1
  <2>5. ~ ReplicaCloseFails(a)
    BY DEF ReplicaCloseFails, EveryoneLeaves, ClosesByReplica
  <2> QED
    BY <1>5, <2>1, <2>2, <2>3, <2>4, <2>5 DEF Leave
<1>6. CASE CloseStep(a)
  <2>1. CASE FinalizeDataObject(a) \/ FinalizeNotPublished(a) \/ FinalizeThrows(a)
             \/ FinalizeFailedOperation(a)
    BY <2>1, NowhereListed DEF FinalizeDataObject, FinalizeNotPublished, FinalizeThrows,
                               FinalizeFailedOperation
  <2>3. CASE ReplicaCloseUpdatesOnError(a)
    BY <1>1, <2>3 DEF ReplicaCloseUpdatesOnError, AgentsOK
  <2>2. CASE ReplicaCloseReleases(a) \/ ExitFinalizes(a)
    BY <2>2, LeavesTable DEF ReplicaCloseReleases, ExitFinalizes
  <2> QED
    BY <1>6, <2>1, <2>2, <2>3 DEF CloseStep
<1>7. CASE ExitWithoutOpenFile(a)
  BY <1>7, LeavesTable DEF ExitWithoutOpenFile
<1>8. CASE Crash(a) \/ Reap(a)
  BY <1>8, NowhereListed DEF Crash, Reap, EveryoneLeaves
<1> QED
  BY <1>2, <1>3, <1>4, <1>5, <1>6, <1>7, <1>8 DEF AgentStep

LEMMA StepKeepsUnlisted ==
    ASSUME IInv, ListedInv, UnlistedInv, EveryoneLeaves, [Next]_vars
    PROVE  UnlistedInv'
<1>1. SharedOK /\ AgentsOK
  BY InvParts
<1>2. CASE UNCHANGED vars
  BY <1>2 DEF vars, UnlistedInv, Reader, Unlisted
<1>3. ASSUME NEW a \in Pids, AgentStep(a) PROVE UnlistedInv'
  <2>1. Reader(a)' /\ Unlisted(a)'
    BY <1>1, <1>3, StepReader, StepUnlisted DEF UnlistedInv, ListedInv
  <2>2. ASSUME NEW b \in Pids \ {a} PROVE Reader(b)' /\ Unlisted(b)'
    <3>1. pc'[b] = pc[b] /\ l1'[b] = l1[b] /\ info'[b] = info[b]
      BY <1>1, <1>3, StepKeepsOthers DEF OthersKeep
    <3>2. \A t \in Tokens : Count(g_map', t, b) = Count(g_map, t, b)
      BY <1>1, <1>3, StepMovesTable, OthersStayListed
    <3>3. Reader(b) /\ Unlisted(b)
      BY DEF UnlistedInv
    <3>4. Reader(b)'
      BY <3>1, <3>3 DEF Reader
    <3>5. Unlisted(b)'
      BY <3>1, <3>2, <3>3 DEF Unlisted
    <3> QED
      BY <3>4, <3>5
  <2> QED
    BY <2>1, <2>2 DEF UnlistedInv
<1> QED
  BY <1>2, <1>3 DEF Next, AgentStep

LEMMA InitUnlisted == Init => UnlistedInv
BY SMT DEF Init, UnlistedInv, Reader, Unlisted, Count, NoDesc, Desc, CreatePC

\* Together they are what the table is to list.
LEMMA ExactTable == ListedInv /\ UnlistedInv => TableMatchesDescriptors
<1> SUFFICES ASSUME ListedInv, UnlistedInv, NEW a \in Pids, NEW t \in Tokens
             PROVE  (t \in DOMAIN g_map /\ g_map[t].agent_pids[a] > 0) <=>
                    /\ pc[a] \in {"open", "finished", "failing", "released", "broken"}
                    /\ l1[a].mode # "read" /\ l1[a].token = t
  BY DEF TableMatchesDescriptors
<1>1. (t \in DOMAIN g_map /\ g_map[t].agent_pids[a] > 0) <=> Count(g_map, t, a) > 0
  BY SMT DEF Count
<1>2. Count(g_map, t, a) \in {0, 1} /\ t # NoToken
  BY DistinctAssumption DEF UnlistedInv, Unlisted
<1>3. Count(g_map, t, a) = 1 => pc[a] \in ListedPC /\ l1[a].mode # "read" /\ l1[a].token = t
  BY DEF UnlistedInv, Unlisted
<1>4. pc[a] \in ListedPC /\ l1[a].mode # "read" /\ l1[a].token = t => Count(g_map, t, a) > 0
  BY <1>2 DEF ListedInv, Listed
<1> QED
  BY <1>1, <1>2, <1>3, <1>4, SMT DEF ListedPC

\* Whatever else clients do, fails or races: if no agent is killed, nobody reads
\* with a token and no descriptor is freed by a failing replica_close, the
\* replica access table lists exactly the agents that have the replica open for
\* writing, each once, under the token in its descriptor.
THEOREM TableIsExact == EveryoneLeaves => (Spec => []TableMatchesDescriptors)
<1> SUFFICES ASSUME EveryoneLeaves PROVE Spec => []TableMatchesDescriptors
  OBVIOUS
<1>1. Init => IInv /\ ListedInv /\ UnlistedInv
  BY InitInv, InitListed, InitUnlisted
<1>2. (IInv /\ ListedInv /\ UnlistedInv) /\ [Next]_vars => (IInv /\ ListedInv /\ UnlistedInv)'
  BY StepInv, StepKeepsListed, StepKeepsUnlisted
<1> QED
  BY <1>1, <1>2, ExactTable, PTL DEF Spec

-----------------------------------------------------------------------------
(* Who holds the lock of a data object.  If opens of the object do not     *)
(* overlap between their catalog query and their lock (OrderlyOpens), an   *)
(* agent that may modify a replica is either the one that locked the       *)
(* object, or one that joined it with its token, and while somebody has    *)
(* joined, nobody changes the catalog.                                     *)

\* What the lock needs of clients and of the environment: no open of the object
\* in another open's window between catalog query and lock; streams are shared
\* the way the parallel transfer engine does; and none of the errors after which
\* an agent that locked nothing unlocks the object (a secondary stream that is
\* lost or fails to open), a replica_close publishes after it has unlocked, or a
\* failed creation leaves a table entry or an unlocked object behind.
OrderlyOpens ==
    /\ Clients \cap {"overlap", "undisciplined"} = {}
    /\ Faults \cap {"create_file", "lost_stream"} = {}
    /\ "create" \in Clients => "lock" \notin Faults
    /\ ClosesByReplica => "republish" \notin Faults
    /\ "join" \in Clients =>
        /\ "open_file" \notin Faults
        /\ "truncate" \notin Clients \/ "publish" \notin Faults

HolderPC == {"granted", "opened", "rat_create", "rat_update", "open", "closing", "exiting"}

\* The agent that locked the object.
Holder(a) ==
    \/ l1[a].mode = "write" /\ pc[a] \in HolderPC /\ ~ Joined(a)
    \/ /\ l1[a].mode = "create"
       /\ \/ pc[a] \in HolderPC \cup {"registered"}
          \/ pc[a] = "creating" /\ rst[a] # NoEntry

JoinerPC == {"granted", "opened", "rat_update", "open"}

\* An agent that shares the replica, or is about to, with the token of another.
Joiner(a) ==
    /\ l1[a].mode = "write"
    /\ \/ pc[a] = "resolved" /\ l1[a].token # NoToken
       \/ pc[a] \in JoinerPC /\ Joined(a)

LockedFor(r) ==
    \A q \in Present(catalog) :
        catalog[q].status = IF q = r THEN "intermediate" ELSE "write_locked"

\* No table entry is found by a request, and creations do not need to be undone.
NoLeftover(a) ==
    /\ pc[a] \notin {"cleaning", "unregistering", "failing"}
    /\ l1[a].mode = "create" => pc[a] \notin {"granted", "opened", "rat_update", "finished"}
    /\ (l1[a].mode = "read" /\ pc[a] # "idle") \/ pc[a] \in {"resolved", "released", "broken", "crashed", "reaped"}
       => rst[a] = NoEntry

CleanStart(a) == pc[a] = "idle" => rst[a] = NoEntry

\* The one holder knows the catalog: its table entry is what the catalog says.
HolderInv(a) ==
    Holder(a) =>
        /\ rst[a].after = catalog /\ LockedFor(l1[a].target)
        /\ IF pc[a] = "creating" THEN Present(catalog) # {} /\ l1[a].target \notin Present(catalog)
                                 ELSE l1[a].target \in Present(catalog)
        /\ l1[a].mode = "write" =>
            /\ rst[a].before[l1[a].target] \in AtRestStatus
            /\ catalog[l1[a].target].original = rst[a].before[l1[a].target]
        /\ \A b \in Pids : Holder(b) => a = b

\* The agent will lock the object with what it has read.
Lockable(a) ==
    /\ pc[a] = "resolved"
    /\ \/ l1[a].mode = "write" /\ info[a][l1[a].target].status \notin LockStatus
       \/ l1[a].mode = "create" /\ Present(info[a]) # {} /\ TryLockObject(info[a])

\* What was read is still true when it is relied on.
ResolvedInv(a) ==
    /\ pc[a] = "resolved" =>
        /\ l1[a].mode # "create" => l1[a].target \in Present(info[a])
        /\ l1[a].mode = "create" => l1[a].target \notin Present(info[a])
        /\ l1[a].mode = "create" => l1[a].token = NoToken
    /\ Lockable(a) => info[a] = catalog /\ \A b \in Pids : ~ Holder(b)

\* The token is in the table for the replica, because of an agent that holds the
\* lock or that was killed.
TokenIsHeld(a) ==
    /\ TokenIsValid(a)
    /\ \E q \in Pids :
        /\ Count(g_map, l1[a].token, q) > 0
        /\ pc[q] \in {"crashed", "reaped"} \/ (Holder(q) /\ pc[q] = "open")

JoinedPlaces(a) ==
    /\ Joined(a) => pc[a] \in JoinerPC \cup {"finished"} /\ l1[a].token # NoToken
    /\ pc[a] = "finished" => Joined(a)

\* While somebody joins, the object is locked for the replica, as read, and the
\* holder has the replica open.
JoinerInv(a) ==
    Joiner(a) =>
        /\ "join" \in Clients
        /\ LockedFor(l1[a].target) /\ l1[a].target \in Present(catalog)
        /\ IF pc[a] = "resolved" THEN info[a] = catalog ELSE rst[a].after = catalog
        /\ TokenIsHeld(a)
        /\ \A h \in Pids : Holder(h) =>
            pc[h] = "open" /\ l1[h].token = l1[a].token /\ l1[h].target = l1[a].target

Registered(a) ==
    /\ pc[a] \notin {"idle", "crashed", "reaped", "creating"}
    /\ pc[a] = "resolved" => l1[a].mode # "create"
    => l1[a].target \in Present(catalog)

OwnInv(a) ==
    NoLeftover(a) /\ HolderInv(a) /\ ResolvedInv(a) /\ JoinedPlaces(a) /\ JoinerInv(a) /\ Registered(a)

OneOpening == \A a, b \in Pids : Opening(a) /\ Opening(b) => a = b

RatPresent == \A t \in DOMAIN g_map : g_map[t].replica \in Present(catalog)

\* Nobody is in the way of a new replica until it is in the access table.
NewReplica(a) ==
    l1[a].mode = "create" /\ pc[a] \in {"registered", "rat_create"} =>
        /\ ~ ContainsReplica(g_map, l1[a].target)
        /\ \A b \in Pids \ {a} : l1[b].target = l1[a].target =>
            \/ pc[b] = "creating"
            \/ /\ pc[b] = "resolved"
               /\ l1[b].mode = "create" \/ info[b][l1[b].target].status = "intermediate"

LockInv == OneOpening /\ RatPresent /\ \A a \in Pids : OwnInv(a) /\ NewReplica(a)

\* The invariants of the other modules, which this one rests on.
BaseInv == SharedOK /\ AgentsOK /\ StatusInv /\ ListedInv

-----------------------------------------------------------------------------
(* What a step does to the agents that do not take it.                     *)

\* The step of agent a does not disturb what agent b relies on.
Undisturbed(a, b) ==
    /\ Holder(b) \/ Lockable(b) \/ Joiner(b) => catalog' = catalog
    /\ Holder(b) \/ Lockable(b) => ~ Holder(a)'
    /\ Joiner(b) =>
        /\ TokenIsHeld(b)'
        /\ Holder(a)' => /\ pc'[a] = "open" /\ l1'[a].token = l1[b].token
                         /\ l1'[a].target = l1[b].target

LEMMA RolesOfOthers ==
    ASSUME NEW a \in Pids, OthersKeep(a), NEW b \in Pids \ {a}
    PROVE  /\ Holder(b)' <=> Holder(b)
           /\ Joiner(b)' <=> Joiner(b)
           /\ Lockable(b)' <=> Lockable(b)
           /\ Joined(b)' <=> Joined(b)
BY SMT DEF OthersKeep, Holder, Joiner, Lockable, Joined, TryLockObject, Present

LEMMA OthersKeepInv ==
    ASSUME NEW a \in Pids, OthersKeep(a), NEW b \in Pids \ {a}, OwnInv(b), Undisturbed(a, b),
           Present(catalog) \subseteq Present(catalog')
    PROVE  OwnInv(b)'
<1>0. pc'[b] = pc[b] /\ l1'[b] = l1[b] /\ rst'[b] = rst[b] /\ info'[b] = info[b]
  BY DEF OthersKeep
<1>1. \A c \in Pids \ {a} : Holder(c)' <=> Holder(c)
  BY RolesOfOthers
<1>2. /\ Joiner(b)' <=> Joiner(b)
      /\ Lockable(b)' <=> Lockable(b)
      /\ Joined(b)' <=> Joined(b)
  BY RolesOfOthers
<1>3. NoLeftover(b)' /\ JoinedPlaces(b)' /\ Registered(b)'
  BY <1>0, <1>2 DEF OwnInv, NoLeftover, JoinedPlaces, Registered
<1>4. HolderInv(b)'
  <2> SUFFICES ASSUME Holder(b)' PROVE HolderInv(b)'
    BY DEF HolderInv
  <2>1. catalog' = catalog /\ ~ Holder(a)' /\ Holder(b)
    BY <1>1 DEF Undisturbed
  <2>2. \A c \in Pids : Holder(c)' => b = c
    BY <1>1, <2>1 DEF OwnInv, HolderInv
  <2> QED
    BY <1>0, <2>1, <2>2 DEF OwnInv, HolderInv, LockedFor
<1>5. ResolvedInv(b)'
  <2>1. Lockable(b)' => info'[b] = catalog' /\ \A c \in Pids : ~ Holder(c)'
    BY <1>0, <1>1, <1>2 DEF OwnInv, ResolvedInv, Undisturbed
  <2> QED
    BY <1>0, <2>1 DEF OwnInv, ResolvedInv, Present
<1>6. JoinerInv(b)'
  <2> SUFFICES ASSUME Joiner(b)' PROVE JoinerInv(b)'
    BY DEF JoinerInv
  <2>1. Joiner(b) /\ catalog' = catalog /\ TokenIsHeld(b)'
    BY <1>2 DEF Undisturbed
  <2>2. \A h \in Pids : Holder(h)' =>
            pc'[h] = "open" /\ l1'[h].token = l1[b].token /\ l1'[h].target = l1[b].target
    BY <1>1, <2>1 DEF OwnInv, JoinerInv, Undisturbed, OthersKeep
  <2> QED
    BY <1>0, <2>1, <2>2, SMT DEF OwnInv, JoinerInv, LockedFor
<1> QED
  BY <1>3, <1>4, <1>5, <1>6 DEF OwnInv

\* A token stays held unless its holder goes.
LEMMA TokenStaysHeld ==
    ASSUME NEW a \in Pids, SharedOK, OthersKeep(a), TableMove(a), NEW b \in Pids,
           l1'[b].token = l1[b].token, l1'[b].target = l1[b].target, TokenIsHeld(b),
           pc[a] \in {"crashed", "reaped"} \/ (Holder(a) /\ pc[a] = "open") =>
               /\ g_map' = g_map
               /\ pc'[a] \in {"crashed", "reaped"} \/ (Holder(a)' /\ pc'[a] = "open")
    PROVE  TokenIsHeld(b)'
<1> DEFINE t == l1[b].token
<1>1. PICK q \in Pids : /\ Count(g_map, t, q) > 0
                        /\ pc[q] \in {"crashed", "reaped"} \/ (Holder(q) /\ pc[q] = "open")
  BY DEF TokenIsHeld
<1>2. t \in DOMAIN g_map /\ g_map[t].replica = l1[b].target
  BY DEF TokenIsHeld, TokenIsValid, ContainsToken
<1>3. CASE q = a
  BY <1>1, <1>2, <1>3 DEF TokenIsHeld, TokenIsValid, ContainsToken
<1>4. CASE q # a
  <2>1. Count(g_map', t, q) > 0
    BY <1>1, <1>4, OthersStayListed
  <2>2. t \in DOMAIN g_map'
    BY <2>1, SMT DEF Count
  <2>3. g_map'[t].replica = l1[b].target
    BY <1>2, <1>4, <2>2, OthersStayListed
  <2>4. pc'[q] \in {"crashed", "reaped"} \/ (Holder(q)' /\ pc'[q] = "open")
    BY <1>1, <1>4, RolesOfOthers DEF OthersKeep
  <2> QED
    BY <2>1, <2>2, <2>3, <2>4 DEF TokenIsHeld, TokenIsValid, ContainsToken
<1> QED
  BY <1>3, <1>4

\* The four ways in which a step leaves the others alone.  First, an agent that
\* does not hold the lock leaves the catalog as it is.
LEMMA Bystander ==
    ASSUME NEW a \in Pids, SharedOK, OthersKeep(a), TableMove(a), ~ Holder(a), ~ Holder(a)',
           catalog' = catalog,
           pc[a] \in {"crashed", "reaped"} => g_map' = g_map /\ pc'[a] \in {"crashed", "reaped"},
           NEW b \in Pids \ {a}, OwnInv(b)
    PROVE  Undisturbed(a, b)
<1>1. Joiner(b) => TokenIsHeld(b)
  BY DEF OwnInv, JoinerInv
<1>2. l1'[b].token = l1[b].token /\ l1'[b].target = l1[b].target
  BY DEF OthersKeep
<1>3. Joiner(b) => TokenIsHeld(b)'
  BY <1>1, <1>2, TokenStaysHeld
<1> QED
  BY <1>3 DEF Undisturbed

\* Second, the holder, when nobody has joined it, may do anything.
LEMMA HolderAlone ==
    ASSUME NEW a \in Pids, Holder(a), OwnInv(a), pc[a] # "open" \/ MayFinalize(a),
           "undisciplined" \notin Clients, NEW b \in Pids \ {a}, OwnInv(b)
    PROVE  ~ Holder(b) /\ ~ Lockable(b) /\ ~ Joiner(b) /\ Undisturbed(a, b)
<1>1. ~ Holder(b)
  BY DEF OwnInv, HolderInv
<1>2. ~ Lockable(b)
  BY DEF OwnInv, ResolvedInv
<1>3. ~ Joiner(b)
  <2> SUFFICES ASSUME Joiner(b) PROVE FALSE
    OBVIOUS
  <2>1. pc[a] = "open" /\ l1[a].token = l1[b].token
    BY DEF OwnInv, JoinerInv
  <2>2. pc[b] \in {"finished", "released"}
    BY <2>1 DEF MayFinalize
  <2> QED
    BY <2>2 DEF Joiner, JoinerPC
<1> QED
  BY <1>1, <1>2, <1>3 DEF Undisturbed

\* Third, the holder keeps the replica open, or is killed.
LEMMA HolderStays ==
    ASSUME NEW a \in Pids, SharedOK, OthersKeep(a), TableMove(a), Holder(a), OwnInv(a),
           catalog' = catalog, g_map' = g_map,
           \/ pc'[a] \in {"crashed", "reaped"} /\ ~ Holder(a)'
           \/ /\ Holder(a)' /\ pc'[a] = "open"
              /\ l1'[a].token = l1[a].token /\ l1'[a].target = l1[a].target,
           NEW b \in Pids \ {a}, OwnInv(b)
    PROVE  Undisturbed(a, b)
<1>1. ~ Holder(b)
  BY DEF OwnInv, HolderInv
<1>2. ~ Lockable(b)
  BY DEF OwnInv, ResolvedInv
<1>3. l1'[b].token = l1[b].token /\ l1'[b].target = l1[b].target
  BY DEF OthersKeep
<1>4. Joiner(b) => TokenIsHeld(b)'
  BY <1>3, TokenStaysHeld DEF OwnInv, JoinerInv
<1>5. Joiner(b) => l1[a].token = l1[b].token /\ l1[a].target = l1[b].target
  BY DEF OwnInv, JoinerInv
<1> QED
  BY <1>1, <1>2, <1>4, <1>5 DEF Undisturbed

\* Fourth, an agent locks the object that it has found unlocked.
LEMMA LockableAlone ==
    ASSUME NEW a \in Pids, Lockable(a), OwnInv(a), OneOpening, NEW b \in Pids \ {a}, OwnInv(b)
    PROVE  ~ Holder(b) /\ ~ Lockable(b) /\ ~ Joiner(b) /\ Undisturbed(a, b)
<1>1. ~ Holder(b) /\ info[a] = catalog
  BY DEF OwnInv, ResolvedInv
<1>2. ~ Lockable(b)
  BY DEF Lockable, OneOpening, Opening
<1>3. ~ Joiner(b)
  <2> SUFFICES ASSUME Joiner(b) PROVE FALSE
    OBVIOUS
  <2>1. \A q \in Present(catalog) : catalog[q].status \in LockStatus
    BY DEF OwnInv, JoinerInv, LockedFor, LockStatus
  <2>2. CASE l1[a].mode = "write"
    <3>1. l1[a].target \in Present(catalog) /\ catalog[l1[a].target].status \notin LockStatus
      BY <1>1, <2>2 DEF OwnInv, ResolvedInv, Lockable
    <3> QED
      BY <2>1, <3>1
  <2>3. CASE l1[a].mode = "create"
    <3>1. Present(catalog) # {} /\ \A q \in Replicas : catalog[q].status \notin LockStatus
      BY <1>1, <2>3 DEF Lockable, TryLockObject
    <3> QED
      BY <2>1, <3>1 DEF Present
  <2> QED
    BY <2>2, <2>3 DEF Lockable
<1> QED
  BY <1>1, <1>2, <1>3 DEF Undisturbed

\* Nobody relies on an object without replicas.
LEMMA NothingToHold ==
    ASSUME NEW a, NEW b \in Pids, OwnInv(b), Present(catalog) = {}
    PROVE  ~ Holder(b) /\ ~ Lockable(b) /\ ~ Joiner(b) /\ Undisturbed(a, b)
<1>1. ~ Holder(b) /\ ~ Joiner(b)
  BY DEF OwnInv, HolderInv, JoinerInv
<1>2. ~ Lockable(b)
  BY DEF OwnInv, ResolvedInv, Lockable
<1> QED
  BY <1>1, <1>2 DEF Undisturbed

-----------------------------------------------------------------------------
(* What a step does to the agent that takes it.                            *)

\* The agent gives up what it had.
LEMMA OwnOut ==
    ASSUME NEW a \in Pids, rst'[a] = NoEntry \/ pc'[a] = "idle",
           \/ pc'[a] \in {"idle", "crashed", "reaped"} /\ l1'[a] = NoDesc
           \/ pc'[a] \in {"released", "broken"} /\ l1'[a].target \in Present(catalog')
    PROVE  OwnInv(a)' /\ ~ Holder(a)'
<1>1. ~ Holder(a)' /\ ~ Joiner(a)' /\ ~ Lockable(a)' /\ pc'[a] # "resolved" /\ pc'[a] # "finished"
  BY DEF Holder, Joiner, Lockable, HolderPC, JoinerPC
<1>2. ~ Joined(a)'
  BY SMT DEF Joined, NoEntry, NoDesc, Desc, Present
<1>3. NoLeftover(a)' /\ Registered(a)'
  BY DEF NoLeftover, Registered
<1> QED
  BY <1>1, <1>2, <1>3 DEF OwnInv, HolderInv, JoinerInv, ResolvedInv, JoinedPlaces

\* A reader never has an entry.
LEMMA OwnReader ==
    ASSUME NEW a \in Pids, rst'[a] = NoEntry, l1'[a].mode = "read",
           pc'[a] \in {"granted", "opened", "rat_create", "rat_update", "open", "exiting"},
           l1'[a].target \in Present(catalog')
    PROVE  OwnInv(a)' /\ ~ Holder(a)'
<1>1. /\ ~ Holder(a)' /\ ~ Joiner(a)' /\ ~ Lockable(a)' /\ ~ Joined(a)'
      /\ pc'[a] # "resolved" /\ pc'[a] # "finished"
  BY DEF Holder, Joiner, Lockable, Joined
<1>2. NoLeftover(a)' /\ Registered(a)'
  BY DEF NoLeftover, Registered
<1> QED
  BY <1>1, <1>2 DEF OwnInv, HolderInv, JoinerInv, ResolvedInv, JoinedPlaces

\* The holder goes on.
LEMMA OwnHolder ==
    ASSUME NEW a \in Pids, Holder(a), OwnInv(a), OthersKeep(a), catalog' = catalog,
           rst'[a] = rst[a], l1'[a].mode = l1[a].mode, l1'[a].target = l1[a].target,
           pc[a] # "creating", pc'[a] \in HolderPC,
           l1[a].mode = "create" => pc'[a] \notin {"granted", "opened", "rat_update"}
    PROVE  OwnInv(a)' /\ Holder(a)'
<1>1. Holder(a)' /\ ~ Joined(a)' /\ ~ Joiner(a)' /\ ~ Lockable(a)'
  BY DEF Holder, Joined, Joiner, HolderPC, Lockable
<1>2. \A b \in Pids : Holder(b)' => a = b
  BY RolesOfOthers DEF OwnInv, HolderInv
<1>3. HolderInv(a)'
  BY <1>1, <1>2 DEF OwnInv, HolderInv, LockedFor, HolderPC
<1>4. NoLeftover(a)' /\ Registered(a)'
  BY <1>3 DEF OwnInv, HolderInv, NoLeftover, Registered, HolderPC, Holder
<1>5. ResolvedInv(a)' /\ JoinedPlaces(a)' /\ JoinerInv(a)'
  BY <1>1 DEF ResolvedInv, JoinedPlaces, JoinerInv, HolderPC
<1> QED
  BY <1>1, <1>3, <1>4, <1>5 DEF OwnInv

\* An agent that has joined goes on.
LEMMA OwnJoiner ==
    ASSUME NEW a \in Pids, SharedOK, Joiner(a), OwnInv(a), OthersKeep(a), TableMove(a),
           catalog' = catalog, rst'[a] = rst[a], l1'[a].mode = l1[a].mode,
           l1'[a].target = l1[a].target, l1'[a].token = l1[a].token,
           pc[a] # "resolved", pc'[a] \in JoinerPC \cup {"finished"}
    PROVE  OwnInv(a)' /\ ~ Holder(a)' /\ ~ Holder(a)
<1>1. /\ ~ Holder(a)' /\ ~ Holder(a) /\ Joined(a)' /\ Joined(a) /\ ~ Lockable(a)'
      /\ pc[a] \notin {"crashed", "reaped"} /\ l1[a].mode = "write"
  BY DEF Holder, Joined, Joiner, HolderPC, JoinerPC, Lockable
<1>2. TokenIsHeld(a)
  BY DEF OwnInv, JoinerInv
<1>3. TokenIsHeld(a)'
  BY <1>1, <1>2, TokenStaysHeld
<1>4. JoinerInv(a)'
  <2>1. \A h \in Pids : Holder(h)' =>
            pc'[h] = "open" /\ l1'[h].token = l1[a].token /\ l1'[h].target = l1[a].target
    BY <1>1, RolesOfOthers DEF OwnInv, JoinerInv, OthersKeep
  <2> QED
    BY <1>3, <2>1 DEF OwnInv, JoinerInv, LockedFor, JoinerPC
<1>5. NoLeftover(a)' /\ Registered(a)'
  BY <1>1 DEF OwnInv, JoinerInv, NoLeftover, Registered, JoinerPC
<1>6. ResolvedInv(a)' /\ JoinedPlaces(a)' /\ HolderInv(a)'
  BY <1>1 DEF OwnInv, ResolvedInv, JoinedPlaces, HolderInv, JoinerPC
<1> QED
  BY <1>1, <1>4, <1>5, <1>6 DEF OwnInv

\* A writer with an open replica holds the lock or has joined.
LEMMA WriterRoles ==
    ASSUME NEW a \in Pids, OwnInv(a), AgentsOK, AgentStatus(a)
    PROVE  /\ pc[a] \in HolderPC /\ l1[a].mode # "read" => Holder(a) \/ Joiner(a)
           /\ pc[a] \in {"rat_create", "closing", "exiting"} /\ l1[a].mode # "read" => Holder(a)
           /\ pc[a] \in HolderPC /\ l1[a].mode # "read" /\ ~ Joined(a) => Holder(a)
           /\ pc[a] = "registered" => Holder(a)
           /\ pc[a] \notin HolderPC \cup {"registered", "creating"} => ~ Holder(a)
           /\ l1[a].mode = "read" => ~ Holder(a) /\ ~ Joiner(a)
           /\ l1[a].mode = "read" /\ pc[a] # "idle" => rst[a] = NoEntry
<1>1. l1[a].mode \in {"read", "write", "create"}
  BY AgentSelf, DescFields
<1>2. pc[a] = "registered" => l1[a].mode = "create"
  BY DEF AgentStatus, CreatePC
<1> QED
  BY <1>1, <1>2 DEF OwnInv, JoinedPlaces, NoLeftover, Holder, Joiner, HolderPC, JoinerPC

LEMMA PublishPresent ==
    ASSUME SharedOK, NEW e
    PROVE  /\ Present(Publish(catalog, e)) = Present(catalog)
           /\ \A c \in Published(e) : Present(c) = Present(catalog)
<1>1. Present(Publish(catalog, e)) = Present(catalog)
  BY DEF Publish, Present
<1> QED
  BY <1>1 DEF Published

LEMMA UnlockPresent ==
    ASSUME SharedOK, NEW e, NEW r, NEW s, NEW o, NEW c \in UnlockOutcomes(e, r, s, o)
    PROVE  Present(c) = Present(catalog)
BY PublishPresent DEF UnlockOutcomes

\* An entry that is what the catalog says changes nothing.
LEMMA PublishSame ==
    ASSUME SharedOK, NEW e, e.after = catalog
    PROVE  Publish(catalog, e) = catalog
BY DEF SharedOK, Rows, Publish

\* What a step has to do to keep the lock invariant.
KeepsLocks(a) ==
    /\ OwnInv(a)' /\ Present(catalog) \subseteq Present(catalog')
    /\ \A b \in Pids \ {a} : Undisturbed(a, b)

\* The holder ends without anybody having joined it.
LEMMA HolderLeaves ==
    ASSUME NEW a \in Pids, \A b \in Pids : OwnInv(b), Holder(a), pc[a] # "open" \/ MayFinalize(a),
           "undisciplined" \notin Clients, Present(catalog') = Present(catalog),
           rst'[a] = NoEntry \/ pc'[a] = "idle",
           \/ pc'[a] \in {"idle", "crashed", "reaped"} /\ l1'[a] = NoDesc
           \/ pc'[a] \in {"released", "broken"} /\ l1'[a] = l1[a] /\ pc[a] # "creating"
    PROVE  KeepsLocks(a)
<1>1. pc[a] # "creating" => l1[a].target \in Present(catalog)
  BY DEF OwnInv, HolderInv
<1>2. OwnInv(a)'
  BY <1>1, OwnOut
<1> QED
  BY <1>2, HolderAlone DEF KeepsLocks

\* The holder goes on without anybody having joined it.
LEMMA HolderProceeds ==
    ASSUME NEW a \in Pids, \A b \in Pids : OwnInv(b), Holder(a), pc[a] # "open" \/ MayFinalize(a),
           "undisciplined" \notin Clients, OthersKeep(a), catalog' = catalog,
           rst'[a] = rst[a], l1'[a].mode = l1[a].mode, l1'[a].target = l1[a].target,
           pc[a] # "creating", pc'[a] \in HolderPC,
           l1[a].mode = "create" => pc'[a] \notin {"granted", "opened", "rat_update"}
    PROVE  KeepsLocks(a)
BY OwnHolder, HolderAlone DEF KeepsLocks

\* An agent that has joined goes on.
LEMMA JoinerProceeds ==
    ASSUME NEW a \in Pids, SharedOK, \A b \in Pids : OwnInv(b), Joiner(a), OthersKeep(a), TableMove(a),
           catalog' = catalog, rst'[a] = rst[a], l1'[a].mode = l1[a].mode,
           l1'[a].target = l1[a].target, l1'[a].token = l1[a].token,
           pc[a] # "resolved", pc'[a] \in JoinerPC \cup {"finished"}
    PROVE  KeepsLocks(a)
<1>1. OwnInv(a)' /\ ~ Holder(a)' /\ ~ Holder(a)
  BY OwnJoiner
<1>2. pc[a] \notin {"crashed", "reaped"}
  BY DEF Joiner, JoinerPC
<1> QED
  BY <1>1, <1>2, Bystander DEF KeepsLocks

\* An agent that does not hold the lock gives up what it had.
LEMMA OtherLeaves ==
    ASSUME NEW a \in Pids, SharedOK, \A b \in Pids : OwnInv(b), OthersKeep(a), TableMove(a),
           ~ Holder(a), catalog' = catalog, rst'[a] = NoEntry,
           \/ pc'[a] \in {"idle", "crashed", "reaped"} /\ l1'[a] = NoDesc
           \/ pc'[a] \in {"released", "broken"} /\ l1'[a].target \in Present(catalog),
           pc[a] \in {"crashed", "reaped"} => g_map' = g_map /\ pc'[a] \in {"crashed", "reaped"}
    PROVE  KeepsLocks(a)
<1>1. OwnInv(a)' /\ ~ Holder(a)'
  BY OwnOut
<1> QED
  BY <1>1, Bystander DEF KeepsLocks

LEMMA ReaderProceeds ==
    ASSUME NEW a \in Pids, SharedOK, \A b \in Pids : OwnInv(b), OthersKeep(a), TableMove(a),
           catalog' = catalog, rst'[a] = rst[a], l1[a].mode = "read", l1'[a].mode = "read",
           l1'[a].target = l1[a].target,
           pc[a] \notin {"idle", "creating", "crashed", "reaped"},
           pc'[a] \in {"granted", "opened", "rat_create", "rat_update", "open", "exiting"}
    PROVE  KeepsLocks(a)
<1>1. rst[a] = NoEntry /\ l1[a].target \in Present(catalog) /\ ~ Holder(a)
  BY DEF OwnInv, NoLeftover, Registered, Holder
<1>2. OwnInv(a)' /\ ~ Holder(a)'
  BY <1>1, OwnReader
<1> QED
  BY <1>1, <1>2, Bystander DEF KeepsLocks

-----------------------------------------------------------------------------
(* Requests and opens.                                                     *)

LEMMA ResolveKeepsLocks ==
    ASSUME NEW a \in Pids, BaseInv, \A b \in Pids : OwnInv(b), OthersKeep(a), TableMove(a),
           NEW r \in Replicas, NEW m \in {"read", "write", "create"},
           NEW t \in Tokens \cup {NoToken}, Resolve(a, r, m, t), OrderlyOpens, CleanStart(a)
    PROVE  KeepsLocks(a)
<1>1. /\ pc[a] = "idle" /\ pc'[a] = "resolved" /\ rst'[a] = rst[a] /\ info'[a] = catalog
      /\ l1'[a].target = r /\ l1'[a].mode = m /\ l1'[a].token = t
      /\ catalog' = catalog /\ g_map' = g_map
  BY DEF Resolve, BaseInv, AgentsOK, Desc
<1>2. /\ m = "create" => r \notin Present(catalog) /\ t = NoToken
      /\ m # "create" => r \in Present(catalog)
  BY DEF Resolve
<1>3. rst[a] = NoEntry /\ ~ Holder(a)
  BY <1>1 DEF CleanStart, Holder, HolderPC
<1>4. ~ Holder(a)' /\ ~ Joined(a)'
  BY <1>1, <1>3, SMT DEF Holder, HolderPC, Joined, NoEntry
<1>5. NoLeftover(a)' /\ JoinedPlaces(a)' /\ Registered(a)' /\ HolderInv(a)'
  BY <1>1, <1>2, <1>3, <1>4 DEF NoLeftover, JoinedPlaces, Registered, HolderInv
<1>6. ResolvedInv(a)'
  <2>1. ASSUME Lockable(a)', NEW h \in Pids, Holder(h)' PROVE FALSE
    <3>1. Holder(h)
      BY <1>4, <2>1, RolesOfOthers
    <3>2. /\ \A q \in Present(catalog) : catalog[q].status \in LockStatus
          /\ Present(catalog) # {}
      BY <3>1 DEF OwnInv, HolderInv, LockedFor, LockStatus
    <3>3. \/ m = "write" /\ catalog[r].status \notin LockStatus
          \/ m = "create" /\ \A q \in Replicas : catalog[q].status \notin LockStatus
      BY <1>1, <2>1 DEF Lockable, TryLockObject
    <3> QED
      BY <1>2, <3>2, <3>3 DEF Present
  <2> QED
    BY <1>1, <1>2, <2>1 DEF ResolvedInv
<1>7. JoinerInv(a)'
  <2> SUFFICES ASSUME Joiner(a)' PROVE JoinerInv(a)'
    BY DEF JoinerInv
  <2>1. m = "write" /\ t # NoToken
    BY <1>1 DEF Joiner, JoinerPC
  <2>2. "join" \in Clients /\ MayJoin(r, t)
    BY <2>1 DEF Resolve
  <2>3. PICK h \in Pids : /\ pc[h] = "open" /\ l1[h].target = r /\ l1[h].token = t
                          /\ l1[h].mode # "read" /\ ~ Joined(h)
    BY <2>2 DEF MayJoin, OrderlyOpens
  <2>4. Holder(h) /\ h # a
    BY <1>1, <2>3, WriterRoles DEF BaseInv, StatusInv, HolderPC
  <2>5. LockedFor(r) /\ r \in Present(catalog) /\ \A b \in Pids : Holder(b) => h = b
    BY <2>3, <2>4 DEF OwnInv, HolderInv
  <2>6. Count(g_map, t, h) > 0 /\ ContainsToken(g_map, t, r)
    BY <2>1, <2>3 DEF BaseInv, ListedInv, Listed, ListedPC
  <2>7. Holder(h)' /\ pc'[h] = "open"
    BY <2>3, <2>4, RolesOfOthers DEF OthersKeep
  <2>8. TokenIsHeld(a)'
    BY <1>1, <2>6, <2>7 DEF TokenIsHeld, TokenIsValid
  <2>9. \A b \in Pids : Holder(b)' => b = h
    BY <1>4, <2>5, RolesOfOthers
  <2>10. LockedFor(r)' /\ r \in Present(catalog')
    BY <1>1, <2>5 DEF LockedFor
  <2>11. pc'[h] = "open" /\ l1'[h].token = t /\ l1'[h].target = r
    BY <2>3, <2>4, <2>7 DEF OthersKeep
  <2> QED
    BY <1>1, <2>2, <2>8, <2>9, <2>10, <2>11 DEF JoinerInv
<1> QED
  BY <1>1, <1>3, <1>4, <1>5, <1>6, <1>7, Bystander DEF KeepsLocks, OwnInv, BaseInv

LEMMA WriteKeepsLocks ==
    ASSUME NEW a \in Pids, BaseInv, \A b \in Pids : OwnInv(b), OthersKeep(a), TableMove(a), Write(a)
    PROVE  KeepsLocks(a)
<1>0. SharedOK /\ AgentsOK /\ AgentStatus(a)
  BY DEF BaseInv, StatusInv
<1> USE <1>0
<1>1. /\ pc[a] = "open" /\ pc'[a] = "open" /\ rst'[a] = rst[a] /\ catalog' = catalog /\ g_map' = g_map
      /\ l1[a].mode # "read" /\ l1'[a].target = l1[a].target /\ l1'[a].mode = l1[a].mode
      /\ l1'[a].token = l1[a].token
  BY DEF Write, AgentsOK, Written, Desc
<1>2. CASE Holder(a)
  <2>1. OwnInv(a)' /\ Holder(a)'
    BY <1>1, <1>2, OwnHolder DEF HolderPC
  <2> QED
    BY <1>1, <1>2, <2>1, HolderStays DEF KeepsLocks
<1>3. CASE Joiner(a)
  BY <1>1, <1>3, JoinerProceeds DEF JoinerPC
<1> QED
  BY <1>1, <1>2, <1>3, WriterRoles DEF HolderPC

\* The entry of an agent that locks an unlocked object becomes the catalog.
LEMMA LockIsPublished ==
    ASSUME NEW rows \in Rows, ProperRows(rows), NEW target
    PROVE  LET e == RstInsert(NoEntry, rows)
               l == LockTarget(e, target) IN
           /\ e \in RstEntry /\ ProperEntry(e) /\ Recordable(e) =>
                /\ Publish(rows, l) = l.after /\ Publish(rows, LockAll(e)) = LockAll(e).after
                /\ Present(l.after) = Present(rows) /\ Present(LockAll(e).after) = Present(rows)
                /\ l.before = e.before
                /\ \A q \in Present(rows) :
                    /\ l.after[q].status = IF q = target THEN "intermediate" ELSE "write_locked"
                    /\ LockAll(e).after[q].status = "write_locked"
                    /\ rows[q].status \in AtRestStatus => l.after[q].original = rows[q].status
           /\ e.after = rows /\ \A q \in Replicas : e.before[q] = rows[q].status
<1> DEFINE e == RstInsert(NoEntry, rows)
           l == LockTarget(e, target)
           k == LockAll(e)
<1>1. e.after = rows /\ \A q \in Replicas : e.before[q] = rows[q].status
  BY DEF RstInsert, RstContains
<1>2. ASSUME e \in RstEntry, ProperEntry(e), Recordable(e)
      PROVE  /\ Publish(rows, l) = l.after /\ Publish(rows, k) = k.after
             /\ Present(l.after) = Present(rows) /\ Present(k.after) = Present(rows)
             /\ l.before = e.before
             /\ \A q \in Present(rows) :
                 /\ l.after[q].status = IF q = target THEN "intermediate" ELSE "write_locked"
                 /\ k.after[q].status = "write_locked"
                 /\ rows[q].status \in AtRestStatus => l.after[q].original = rows[q].status
  <2> HIDE DEF e
  <2>1. /\ l \in RstEntry /\ k \in RstEntry /\ l.before = e.before
        /\ Present(l.after) = Present(rows) /\ Present(k.after) = Present(rows)
    BY <1>1, <1>2, LockType, LockProper
  <2>2. l.after \in Rows /\ k.after \in Rows
    BY <2>1, EntryFields
  <2>3. ASSUME NEW q \in Replicas, q \notin Present(rows)
        PROVE  rows[q] = NoRow /\ l.after[q] = NoRow /\ k.after[q] = NoRow
    BY <1>1, <1>2, <2>3, LockedRow, SMT
  <2>4. ASSUME NEW q \in Present(rows)
        PROVE  /\ l.after[q].status = IF q = target THEN "intermediate" ELSE "write_locked"
               /\ k.after[q].status = "write_locked"
               /\ rows[q].status \in AtRestStatus => l.after[q].original = rows[q].status
    <3> DEFINE o == IF rows[q].original # "none" THEN rows[q].original ELSE e.before[q]
    <3>1. q \in Replicas
      BY DEF Present
    <3>2. /\ l.after[q] = MkRow(IF q = target THEN "intermediate" ELSE "write_locked", o)
          /\ k.after[q] = MkRow("write_locked", o)
      BY <1>1, <1>2, <2>4, <3>1, LockedRow
    <3>3. rows[q].status \in AtRestStatus => o = rows[q].status
      BY <1>1, <2>4, <3>1, SMT DEF ProperRows, ProperRow, Present, NoRow
    <3> HIDE DEF o
    <3> QED
      BY <3>2, <3>3, SMT DEF MkRow
  <2> HIDE DEF l, k
  <2>5. Publish(rows, l) = l.after
    BY <2>1, <2>2, <2>3 DEF Publish, Rows
  <2>6. Publish(rows, k) = k.after
    BY <2>1, <2>2, <2>3 DEF Publish, Rows
  <2> QED
    BY <2>1, <2>4, <2>5, <2>6
<1> QED
  BY <1>1, <1>2

LEMMA LockObjectKeepsLocks ==
    ASSUME NEW a \in Pids, BaseInv, \A b \in Pids : OwnInv(b), OneOpening, OthersKeep(a), TableMove(a),
           LockObject(a)
    PROVE  KeepsLocks(a)
<1> DEFINE r == l1[a].target
           e == RstInsert(rst[a], info[a])
<1>0. SharedOK /\ AgentsOK /\ AgentStatus(a) /\ ProperRows(catalog) /\ catalog \in Rows
  BY DEF BaseInv, StatusInv, SharedOK
<1> USE <1>0
<1>1. /\ pc[a] = "resolved" /\ l1[a].mode = "write" /\ info[a][r].status \notin LockStatus
  BY DEF LockObject, TryLockReplica, LockStatus
<1>2. Lockable(a) /\ ~ Holder(a)
  BY <1>1 DEF Lockable, Holder, HolderPC
<1>3. info[a] = catalog /\ rst[a] = NoEntry /\ r \in Present(catalog) /\ r \in Replicas
  BY <1>1, <1>2 DEF OwnInv, ResolvedInv, NoLeftover, Present
<1>4. CASE Done(a) /\ catalog' = catalog
  <2>1. pc'[a] = "idle" /\ l1'[a] = NoDesc /\ rst'[a] = NoEntry
    BY <1>4 DEF Done, AgentsOK
  <2> QED
    BY <1>1, <1>2, <1>4, <2>1, OtherLeaves
<1>5. CASE /\ catalog' = Publish(catalog, LockTarget(e, r))
           /\ rst' = [rst EXCEPT ![a] = LockTarget(e, r)] /\ pc' = [pc EXCEPT ![a] = "granted"]
           /\ l1' = l1 /\ info' = info
  <2> DEFINE l == LockTarget(e, r)
  <2>1. e \in RstEntry /\ ProperEntry(e) /\ Recordable(e)
    BY <1>1, ResolvedRecordable
  <2>2. e.before[r] = catalog[r].status /\ catalog[r].status \in AtRestStatus
    <3>1. e.before[r] = catalog[r].status
      BY <1>3, LockIsPublished, SMT
    <3> QED
      BY <1>1, <1>3, <3>1, SMT DEF ProperRows, ProperRow, Present, NoRow, Status
  <2>3. /\ Publish(catalog, l) = l.after /\ Present(l.after) = Present(catalog)
        /\ l.before = e.before
        /\ \A q \in Present(catalog) :
            l.after[q].status = IF q = r THEN "intermediate" ELSE "write_locked"
        /\ l.after[r].original = catalog[r].status
    BY <1>3, <2>1, <2>2, LockIsPublished, SMT
  <2> HIDE DEF e, l
  <2>4. pc'[a] = "granted" /\ rst'[a] = l /\ l1'[a] = l1[a] /\ catalog' = l.after
    BY <1>5, <2>3 DEF AgentsOK, l
  <2>5. ~ Joined(a)' /\ Holder(a)' /\ ~ Joiner(a)' /\ ~ Lockable(a)'
    BY <1>1, <2>2, <2>3, <2>4 DEF Joined, Holder, Joiner, HolderPC, Lockable, AtRestStatus
  <2>6. \A b \in Pids : Holder(b)' => a = b
    BY <1>2, LockableAlone, RolesOfOthers
  <2>7. HolderInv(a)'
    <3>1. LockedFor(r)' /\ r \in Present(catalog')
      BY <1>3, <2>3, <2>4 DEF LockedFor
    <3> QED
      BY <1>1, <2>2, <2>3, <2>4, <2>6, <3>1 DEF HolderInv
  <2>8. NoLeftover(a)' /\ Registered(a)'
    BY <1>1, <1>3, <2>3, <2>4 DEF NoLeftover, Registered
  <2>9. ResolvedInv(a)' /\ JoinedPlaces(a)' /\ JoinerInv(a)'
    BY <2>4, <2>5 DEF ResolvedInv, JoinedPlaces, JoinerInv
  <2> QED
    BY <1>2, <2>3, <2>4, <2>7, <2>8, <2>9, LockableAlone DEF KeepsLocks, OwnInv
<1> QED
  BY <1>4, <1>5 DEF LockObject

LEMMA JoinObjectKeepsLocks ==
    ASSUME NEW a \in Pids, BaseInv, \A b \in Pids : OwnInv(b), OthersKeep(a), TableMove(a),
           JoinObject(a)
    PROVE  KeepsLocks(a)
<1> DEFINE r == l1[a].target
           e == RstInsert(rst[a], info[a])
<1>0. SharedOK /\ AgentsOK
  BY DEF BaseInv
<1>1. /\ pc[a] = "resolved" /\ l1[a].mode = "write" /\ info[a][r].status = "intermediate"
      /\ TokenIsValid(a) /\ catalog' = catalog /\ g_map' = g_map
      /\ pc'[a] = "granted" /\ l1'[a] = l1[a] /\ rst'[a] = e
  BY <1>0 DEF JoinObject, AgentsOK
<1>2. l1[a].token # NoToken
  BY <1>0, <1>1, TableMembership, DistinctAssumption DEF SharedOK, TokenIsValid, ContainsToken
<1>3. Joiner(a) /\ rst[a] = NoEntry /\ ~ Holder(a)
  BY <1>1, <1>2 DEF Joiner, OwnInv, NoLeftover, Holder, HolderPC
<1>4. /\ info[a] = catalog /\ LockedFor(r) /\ r \in Present(catalog) /\ TokenIsHeld(a)
      /\ "join" \in Clients
  BY <1>1, <1>3 DEF OwnInv, JoinerInv
<1>5. e.after = catalog /\ e.before[r] = "intermediate"
  BY <1>1, <1>3, <1>4 DEF RstInsert, RstContains, Present
<1>6. Joined(a)' /\ ~ Holder(a)' /\ ~ Lockable(a)'
  BY <1>1, <1>5 DEF Joined, Holder, Lockable
<1>7. TokenIsHeld(a)'
  BY <1>0, <1>1, <1>3, <1>4, TokenStaysHeld
<1>8. \A h \in Pids : Holder(h)' =>
          pc'[h] = "open" /\ l1'[h].token = l1[a].token /\ l1'[h].target = r
  BY <1>3, <1>6, RolesOfOthers, SMT DEF OwnInv, JoinerInv, OthersKeep
<1>9. JoinerInv(a)'
  BY <1>1, <1>4, <1>5, <1>7, <1>8 DEF JoinerInv, LockedFor
<1>10. NoLeftover(a)' /\ Registered(a)' /\ ResolvedInv(a)' /\ JoinedPlaces(a)' /\ HolderInv(a)'
  BY <1>1, <1>2, <1>4, <1>6 DEF NoLeftover, Registered, ResolvedInv, JoinedPlaces, HolderInv, JoinerPC
<1> QED
  BY <1>0, <1>1, <1>3, <1>6, <1>9, <1>10, Bystander DEF KeepsLocks, OwnInv

LEMMA OpenStepKeepsLocks ==
    ASSUME NEW a \in Pids, BaseInv, LockInv, OthersKeep(a), TableMove(a), OpenStep(a), OrderlyOpens
    PROVE  KeepsLocks(a)
<1>0. /\ SharedOK /\ AgentsOK /\ AgentStatus(a) /\ OneOpening /\ NewReplica(a)
      /\ "undisciplined" \notin Clients
      /\ l1[a].mode \in {"read", "write", "create"}
  BY AgentSelf, DescFields DEF BaseInv, StatusInv, LockInv, OrderlyOpens
<1>i. \A b \in Pids : OwnInv(b)
  BY DEF LockInv
<1>d. Done(a) => pc'[a] = "idle" /\ l1'[a] = NoDesc /\ rst'[a] = NoEntry
  BY <1>0 DEF Done, AgentsOK
<1>j. Joiner(a) => TokenIsValid(a)
  BY <1>i DEF OwnInv, JoinerInv, TokenIsHeld
<1> USE <1>0, <1>i, <1>d, <1>j
<1>1. CASE OpenDenied(a)
  <2>1. /\ pc[a] = "resolved" /\ pc'[a] = "idle" /\ l1'[a] = NoDesc /\ rst'[a] = rst[a]
        /\ catalog' = catalog
    BY <1>1 DEF OpenDenied, AgentsOK
  <2>2. rst[a] = NoEntry /\ ~ Holder(a)
    BY <2>1 DEF OwnInv, NoLeftover, Holder, HolderPC
  <2> QED
    BY <2>1, <2>2, OtherLeaves
<1>2. CASE ReadGranted(a)
  <2>1. /\ pc[a] = "resolved" /\ pc'[a] = "granted" /\ l1'[a] = l1[a] /\ rst'[a] = rst[a]
        /\ l1[a].mode = "read" /\ catalog' = catalog
    BY <1>2 DEF ReadGranted, AgentsOK
  <2> QED
    BY <2>1, ReaderProceeds
<1>3. CASE LockObject(a)
  BY <1>3, LockObjectKeepsLocks
<1>4. CASE JoinObject(a)
  BY <1>4, JoinObjectKeepsLocks
<1>5. CASE OpenReplica(a)
  <2>1. /\ pc[a] = "granted" /\ catalog' = catalog /\ rst'[a] = rst[a]
        /\ l1'[a].mode = l1[a].mode /\ l1'[a].target = l1[a].target
        /\ IF l1[a].mode = "read" THEN pc'[a] \in {"open", "opened"}
           ELSE pc'[a] = "opened" /\ l1'[a] = l1[a]
    BY <1>5, SMT DEF OpenReplica, AgentsOK, WithToken, Desc
  <2>2. CASE l1[a].mode = "read"
    BY <2>1, <2>2, ReaderProceeds
  <2>3. CASE Holder(a)
    <3>1. l1[a].mode = "write"
      BY <2>1, <2>3 DEF OwnInv, NoLeftover, Holder
    <3> QED
      BY <2>1, <2>3, <3>1, HolderProceeds DEF HolderPC
  <2>4. CASE Joiner(a)
    <3>1. l1[a].mode = "write"
      BY <2>4 DEF Joiner
    <3> QED
      BY <2>1, <2>4, <3>1, JoinerProceeds DEF JoinerPC
  <2> QED
    BY <2>1, <2>2, <2>3, <2>4, WriterRoles DEF HolderPC
<1>6. CASE TruncateReplica(a)
  <2>1. pc[a] = "granted" /\ l1[a].mode = "write" /\ "truncate" \in Clients
    BY <1>6 DEF TruncateReplica
  <2>2. Holder(a) \/ Joiner(a)
    BY <2>1, WriterRoles DEF HolderPC
  <2>3. CASE catalog' = Publish(catalog, rst[a]) /\ pc' = [pc EXCEPT ![a] = "opened"] /\ rst' = rst /\ l1' = l1
    <3>1. rst[a].after = catalog
      BY <2>1, <2>2 DEF OwnInv, HolderInv, JoinerInv
    <3>2. catalog' = catalog
      BY <2>3, <3>1, PublishSame
    <3>3. pc'[a] = "opened" /\ rst'[a] = rst[a] /\ l1'[a] = l1[a]
      BY <2>3 DEF AgentsOK
    <3>4. CASE Holder(a)
      BY <2>1, <3>2, <3>3, <3>4, HolderProceeds DEF HolderPC
    <3>5. CASE Joiner(a)
      BY <2>1, <3>2, <3>3, <3>5, JoinerProceeds DEF JoinerPC
    <3> QED
      BY <2>2, <3>4, <3>5
  <2>4. CASE /\ "publish" \in Faults /\ Done(a)
             /\ catalog' \in UnlockOutcomes(rst[a], l1[a].target, "restore", "restore")
    <3>1. ~ Joiner(a)
      BY <2>1, <2>4 DEF OwnInv, JoinerInv, OrderlyOpens
    <3>2. Present(catalog') = Present(catalog)
      BY <2>4, UnlockPresent
    <3> QED
      BY <2>1, <2>2, <2>4, <3>1, <3>2, HolderLeaves
  <2> QED
    BY <1>6, <2>3, <2>4 DEF TruncateReplica
<1>7. CASE OpenFails(a)
  <2>1. /\ pc[a] = "granted" /\ "open_file" \in Faults /\ Done(a)
        /\ l1[a].mode # "write" => catalog' = catalog
        /\ l1[a].mode = "write" => catalog' \in UnlockOutcomes(rst[a], l1[a].target, "restore", "restore")
    BY <1>7 DEF OpenFails
  <2>2. CASE l1[a].mode = "read"
    <3>1. ~ Holder(a)
      BY <2>2 DEF Holder
    <3> QED
      BY <2>1, <2>2, <3>1, OtherLeaves
  <2>3. CASE Holder(a)
    <3>1. Present(catalog') = Present(catalog)
      BY <2>1, UnlockPresent
    <3> QED
      BY <2>1, <2>3, <3>1, HolderLeaves
  <2>4. ~ Joiner(a)
    BY <2>1 DEF OwnInv, JoinerInv, OrderlyOpens
  <2> QED
    BY <2>1, <2>2, <2>3, <2>4, WriterRoles DEF HolderPC
<1>8. CASE ChooseRatUpdate(a)
  <2>1. /\ pc[a] = "opened" /\ catalog' = catalog /\ rst'[a] = rst[a] /\ l1'[a] = l1[a]
        /\ pc'[a] = IF ContainsReplica(g_map, l1[a].target) THEN "rat_update" ELSE "rat_create"
    BY <1>8 DEF ChooseRatUpdate, AgentsOK
  <2>2. CASE l1[a].mode = "read"
    BY <2>1, <2>2, ReaderProceeds
  <2>3. CASE Holder(a)
    <3>1. l1[a].mode # "create"
      BY <2>1 DEF OwnInv, NoLeftover
    <3> QED
      BY <2>1, <2>3, <3>1, HolderProceeds DEF HolderPC
  <2>4. CASE Joiner(a)
    <3>1. pc'[a] = "rat_update"
      BY <2>1, <2>4 DEF TokenIsValid, ContainsToken, ContainsReplica
    <3> QED
      BY <2>1, <2>4, <3>1, JoinerProceeds DEF JoinerPC
  <2> QED
    BY <2>1, <2>2, <2>3, <2>4, WriterRoles DEF HolderPC
<1>9. CASE CreateRatEntry(a)
  <2>1. /\ pc[a] = "rat_create" /\ pc'[a] = "open" /\ catalog' = catalog /\ rst'[a] = rst[a]
        /\ l1'[a].mode = l1[a].mode /\ l1'[a].target = l1[a].target
    BY <1>9, SMT DEF CreateRatEntry, AgentsOK, WithToken, Desc
  <2>2. CASE l1[a].mode = "read"
    BY <2>1, <2>2, ReaderProceeds
  <2>3. CASE Holder(a)
    BY <2>1, <2>3, HolderProceeds DEF HolderPC
  <2> QED
    BY <2>1, <2>2, <2>3, WriterRoles
<1>10. CASE AppendToRatEntry(a)
  <2>1. /\ pc[a] = "rat_update" /\ pc'[a] = "open" /\ catalog' = catalog /\ rst'[a] = rst[a]
        /\ l1'[a] = l1[a]
    BY <1>10 DEF AppendToRatEntry, AgentsOK
  <2>2. CASE l1[a].mode = "read"
    BY <2>1, <2>2, ReaderProceeds
  <2>3. CASE Holder(a)
    BY <2>1, <2>3, HolderProceeds DEF HolderPC
  <2>4. CASE Joiner(a)
    BY <2>1, <2>4, JoinerProceeds DEF JoinerPC
  <2> QED
    BY <2>1, <2>2, <2>3, <2>4, WriterRoles DEF HolderPC
<1>11. CASE RatUpdateFails(a)
  <2>1. /\ pc[a] = "rat_create" \/ (pc[a] = "rat_update" /\ ~ TokenIsValid(a))
        /\ Done(a) /\ l1[a].mode # "create"
        /\ l1[a].mode # "write" => catalog' = catalog
        /\ l1[a].mode = "write" => catalog' \in UnlockOutcomes(rst[a], l1[a].target, "restore", "restore")
    BY <1>11 DEF RatUpdateFails
  <2>2. CASE l1[a].mode = "read"
    <3>1. ~ Holder(a)
      BY <2>2 DEF Holder
    <3> QED
      BY <2>1, <2>2, <3>1, OtherLeaves
  <2>3. CASE Holder(a)
    <3>1. Present(catalog') = Present(catalog)
      BY <2>1, <2>3, UnlockPresent DEF Holder
    <3> QED
      BY <2>1, <2>3, <3>1, HolderLeaves
  <2>4. ~ Joiner(a)
    BY <2>1 DEF Joiner, JoinerPC
  <2> QED
    BY <2>1, <2>2, <2>3, <2>4, WriterRoles DEF HolderPC
<1> QED
  BY <1>1, <1>2, <1>3, <1>4, <1>5, <1>6, <1>7, <1>8, <1>9, <1>10, <1>11 DEF OpenStep

-----------------------------------------------------------------------------
(* Creation.                                                               *)

LEMMA LockForCreateKeepsLocks ==
    ASSUME NEW a \in Pids, BaseInv, LockInv, OthersKeep(a), TableMove(a), LockForCreate(a),
           OrderlyOpens
    PROVE  KeepsLocks(a)
<1> DEFINE r == l1[a].target
           i == RstInsert(rst[a], info[a])
           e == LockAll(i)
<1>0. SharedOK /\ AgentsOK /\ AgentStatus(a) /\ ProperRows(catalog) /\ catalog \in Rows /\ OneOpening
  BY DEF BaseInv, StatusInv, SharedOK, LockInv
<1>i. \A b \in Pids : OwnInv(b)
  BY DEF LockInv
<1> USE <1>0, <1>i
<1>1. pc[a] = "resolved" /\ l1[a].mode = "create" /\ TryLockObject(info[a])
  BY DEF LockForCreate
<1>2. rst[a] = NoEntry /\ ~ Holder(a) /\ r \notin Present(info[a])
  BY <1>1 DEF OwnInv, NoLeftover, ResolvedInv, Holder, HolderPC
<1>3. "lock" \notin Faults
  BY <1>1 DEF AgentStatus, OrderlyOpens
<1>4. CASE pc' = [pc EXCEPT ![a] = "creating"] /\ catalog' = catalog /\ rst' = rst /\ l1' = l1
  <2>1. pc'[a] = "creating" /\ rst'[a] = NoEntry /\ l1'[a] = l1[a]
    BY <1>2, <1>4 DEF AgentsOK
  <2>2. ~ Holder(a)' /\ ~ Joiner(a)' /\ ~ Joined(a)' /\ ~ Lockable(a)'
    BY <1>1, <2>1 DEF Holder, Joiner, Joined, HolderPC, Lockable
  <2>3. OwnInv(a)'
    BY <1>1, <2>1, <2>2 DEF OwnInv, NoLeftover, HolderInv, ResolvedInv, JoinedPlaces, JoinerInv, Registered
  <2> QED
    BY <1>1, <1>2, <1>4, <2>2, <2>3, Bystander DEF KeepsLocks
<1>5. CASE /\ Present(info[a]) # {} /\ catalog' = Publish(catalog, e) /\ rst' = [rst EXCEPT ![a] = e]
           /\ pc' = [pc EXCEPT ![a] = "creating"] /\ l1' = l1
  <2>1. Lockable(a) /\ info[a] = catalog
    BY <1>1, <1>5 DEF Lockable, OwnInv, ResolvedInv
  <2>2. i \in RstEntry /\ ProperEntry(i) /\ Recordable(i)
    BY <1>1, ResolvedRecordable
  <2>3. /\ Publish(catalog, e) = e.after /\ Present(e.after) = Present(catalog)
        /\ \A q \in Present(catalog) : e.after[q].status = "write_locked"
    BY <1>2, <2>1, <2>2, LockIsPublished
  <2> HIDE DEF e, i
  <2>4. pc'[a] = "creating" /\ rst'[a] = e /\ l1'[a] = l1[a] /\ catalog' = e.after
    BY <1>5, <2>3 DEF AgentsOK
  <2>5. e # NoEntry
    BY <1>5, <2>1, <2>3, SMT DEF NoEntry, NoRows, NoRow, Present
  <2>6. Holder(a)' /\ ~ Joiner(a)' /\ ~ Joined(a)' /\ ~ Lockable(a)'
    BY <1>1, <2>4, <2>5 DEF Holder, Joiner, Joined, Lockable
  <2>7. \A b \in Pids : Holder(b)' => a = b
    BY <2>1, LockableAlone, RolesOfOthers
  <2>8. HolderInv(a)'
    <3>1. r \notin Present(catalog') /\ Present(catalog') # {}
      BY <1>2, <1>5, <2>1, <2>3, <2>4
    <3>2. LockedFor(r)'
      BY <2>3, <2>4, <3>1 DEF LockedFor
    <3> QED
      BY <1>1, <2>4, <2>7, <3>1, <3>2 DEF HolderInv
  <2>9. NoLeftover(a)' /\ ResolvedInv(a)' /\ JoinedPlaces(a)' /\ JoinerInv(a)' /\ Registered(a)'
    BY <1>1, <2>4, <2>6 DEF NoLeftover, ResolvedInv, JoinedPlaces, JoinerInv, Registered
  <2> QED
    BY <2>1, <2>3, <2>4, <2>8, <2>9, LockableAlone DEF KeepsLocks, OwnInv
<1> QED
  BY <1>3, <1>4, <1>5 DEF LockForCreate

LEMMA RegisterKeepsLocks ==
    ASSUME NEW a \in Pids, BaseInv, LockInv, OthersKeep(a), TableMove(a), RegisterReplica(a),
           OrderlyOpens
    PROVE  KeepsLocks(a)
<1> DEFINE r == l1[a].target
           e == RstInsertReplica(rst[a], r, NewRow)
<1>0. SharedOK /\ AgentsOK /\ AgentStatus(a) /\ ProperRows(catalog) /\ catalog \in Rows
  BY DEF BaseInv, StatusInv, SharedOK
<1>i. \A b \in Pids : OwnInv(b)
  BY DEF LockInv
<1> USE <1>0, <1>i
<1>1. /\ pc[a] = "creating" /\ r \in Replicas /\ l1[a].mode = "create"
      /\ r \notin Present(catalog) /\ (rst[a] # NoEntry <=> Present(catalog) # {})
      /\ catalog' = [catalog EXCEPT ![r] = NewRow]
  BY AgentSelf DEF RegisterReplica, Registrable, RstContains, AgentStatus, CreatePC
<1>2. pc'[a] = "registered" /\ rst'[a] = e /\ l1'[a] = l1[a]
  BY DEF RegisterReplica, AgentsOK
<1>3. NewRow.status = "intermediate"
  BY DEF NewRow, MkRow
<1>4. /\ \A q \in Replicas : catalog'[q] = IF q = r THEN NewRow ELSE catalog[q]
      /\ Present(catalog') = Present(catalog) \cup {r}
  BY <1>1, <1>3 DEF Rows, Present
<1>5. \A b \in Pids \ {a} : ~ Holder(b) /\ ~ Lockable(b) /\ ~ Joiner(b) /\ Undisturbed(a, b)
  <2>1. CASE Present(catalog) = {}
    BY <2>1, NothingToHold
  <2>2. CASE Present(catalog) # {}
    <3>1. Holder(a)
      BY <1>1, <2>2 DEF Holder
    <3> QED
      BY <1>1, <3>1, HolderAlone DEF OrderlyOpens
  <2> QED
    BY <2>1, <2>2
<1>6. rst[a].after = catalog /\ \A q \in Present(catalog) : catalog[q].status = "write_locked"
  <2>1. CASE Present(catalog) = {}
    <3>1. rst[a].after = NoRows
      BY <1>1, <2>1, SMT DEF NoEntry
    <3>2. \A q \in Replicas : catalog[q] = NoRow
      BY <2>1 DEF ProperRows, ProperRow, Present, Status, AtRestStatus, LockStatus
    <3> QED
      BY <2>1, <3>1, <3>2 DEF Rows, NoRows
  <2>2. CASE Present(catalog) # {}
    <3>1. Holder(a)
      BY <1>1, <2>2 DEF Holder
    <3> QED
      BY <1>1, <3>1 DEF OwnInv, HolderInv, LockedFor
  <2> QED
    BY <2>1, <2>2
<1>7. e.after = catalog'
  BY <1>1, <1>6 DEF RstInsertReplica
<1> HIDE DEF e
<1>8. Holder(a)' /\ ~ Joiner(a)' /\ ~ Joined(a)' /\ ~ Lockable(a)'
  BY <1>1, <1>2 DEF Holder, Joiner, Joined, Lockable
<1>9. \A b \in Pids : Holder(b)' => a = b
  BY <1>5, RolesOfOthers
<1>10. HolderInv(a)'
  <2>1. ASSUME NEW q \in Present(catalog')
        PROVE  catalog'[q].status = IF q = r THEN "intermediate" ELSE "write_locked"
    <3>1. q \in Replicas
      BY DEF Present
    <3> QED
      BY <1>3, <1>4, <1>6, <3>1
  <2>2. LockedFor(l1[a].target)' /\ r \in Present(catalog')
    BY <1>2, <1>4, <2>1 DEF LockedFor
  <2> QED
    BY <1>1, <1>2, <1>7, <1>9, <2>2 DEF HolderInv
<1>11. NoLeftover(a)' /\ ResolvedInv(a)' /\ JoinedPlaces(a)' /\ JoinerInv(a)' /\ Registered(a)'
  <2>1. NoLeftover(a)' /\ Registered(a)'
    <3>1. pc'[a] = "registered" /\ l1'[a].mode = "create"
      BY <1>1, <1>2
    <3>2. r \in Present(catalog')
      BY <1>4
    <3> QED
      BY <1>2, <3>1, <3>2 DEF NoLeftover, Registered
  <2>2. ResolvedInv(a)' /\ JoinedPlaces(a)' /\ JoinerInv(a)'
    BY <1>2, <1>8 DEF ResolvedInv, JoinedPlaces, JoinerInv
  <2> QED
    BY <2>1, <2>2
<1> QED
  BY <1>4, <1>5, <1>10, <1>11 DEF KeepsLocks, OwnInv

LEMMA CreateStepKeepsLocks ==
    ASSUME NEW a \in Pids, BaseInv, LockInv, OthersKeep(a), TableMove(a), CreateStep(a), OrderlyOpens
    PROVE  KeepsLocks(a)
<1>0. /\ SharedOK /\ AgentsOK /\ AgentStatus(a) /\ NewReplica(a) /\ "undisciplined" \notin Clients
  BY DEF BaseInv, StatusInv, LockInv, OrderlyOpens
<1>i. \A b \in Pids : OwnInv(b)
  BY DEF LockInv
<1> USE <1>0, <1>i
<1>1. CASE CreateDenied(a)
  <2>1. /\ pc[a] = "resolved" /\ pc'[a] = "idle" /\ l1'[a] = NoDesc /\ rst'[a] = rst[a]
        /\ catalog' = catalog
    BY <1>1 DEF CreateDenied, AgentsOK
  <2>2. rst[a] = NoEntry /\ ~ Holder(a)
    BY <2>1 DEF OwnInv, NoLeftover, Holder, HolderPC
  <2> QED
    BY <2>1, <2>2, OtherLeaves
<1>2. CASE LockForCreate(a)
  BY <1>2, LockForCreateKeepsLocks
<1>3. CASE RegisterReplica(a)
  BY <1>3, RegisterKeepsLocks
<1>4. CASE RegistrationFails(a)
  <2>1. /\ pc[a] = "creating" /\ l1[a].mode = "create" /\ catalog' \in Published(UnlockAll(rst[a]))
        /\ pc'[a] = "idle" /\ l1'[a] = NoDesc /\ rst'[a] = NoEntry
    BY <1>4 DEF RegistrationFails, Done, AgentsOK, AgentStatus, CreatePC
  <2>2. CASE rst[a] = NoEntry
    <3>1. ~ Holder(a)
      BY <2>1, <2>2 DEF Holder, HolderPC
    <3>2. Present(UnlockAll(NoEntry).after) = {}
      BY DEF UnlockAll, RstWithAfter, NoEntry, NoRows, NoRow, Present
    <3>3. Publish(catalog, UnlockAll(NoEntry)) = catalog
      BY <3>2 DEF Publish, SharedOK, Rows
    <3>4. catalog' = catalog
      BY <2>1, <2>2, <3>3 DEF Published
    <3> QED
      BY <2>1, <3>1, <3>4, OtherLeaves
  <2>3. CASE rst[a] # NoEntry
    <3>1. Holder(a)
      BY <2>1, <2>3 DEF Holder
    <3>2. Present(catalog') = Present(catalog)
      BY <2>1, PublishPresent
    <3> QED
      BY <2>1, <3>1, <3>2, HolderLeaves
  <2> QED
    BY <2>2, <2>3
<1>5. CASE CreatePhysicalFile(a)
  <2>1. /\ pc[a] = "registered" /\ pc'[a] = "rat_create" /\ catalog' = catalog
        /\ rst'[a] = rst[a] /\ l1'[a] = l1[a]
    BY <1>5 DEF CreatePhysicalFile, AgentsOK
  <2>2. Holder(a)
    BY <2>1, WriterRoles
  <2> QED
    BY <2>1, <2>2, HolderProceeds DEF HolderPC
<1>6. ~ CreatePhysicalFileFails(a)
  BY DEF CreatePhysicalFileFails, OrderlyOpens
<1>7. ~ CleanUpUnlocks(a) /\ ~ CleanUpUnregisters(a)
  BY DEF CleanUpUnlocks, CleanUpUnregisters, OwnInv, NoLeftover
<1>8. ~ CreateRatFails(a)
  BY DEF CreateRatFails, NewReplica
<1> QED
  BY <1>1, <1>2, <1>3, <1>4, <1>5, <1>6, <1>7, <1>8 DEF CreateStep

-----------------------------------------------------------------------------
(* Closing, and the end of an agent.                                       *)

LEMMA LeaveKeepsLocks ==
    ASSUME NEW a \in Pids, BaseInv, LockInv, OthersKeep(a), TableMove(a), Leave(a), OrderlyOpens
    PROVE  KeepsLocks(a)
<1>0. /\ SharedOK /\ AgentsOK /\ AgentStatus(a) /\ "undisciplined" \notin Clients
      /\ l1[a].mode \in {"read", "write", "create"}
  BY AgentSelf, DescFields DEF BaseInv, StatusInv, OrderlyOpens
<1>i. \A b \in Pids : OwnInv(b)
  BY DEF LockInv
<1>d. Done(a) => pc'[a] = "idle" /\ l1'[a] = NoDesc /\ rst'[a] = NoEntry
  BY <1>0 DEF Done, AgentsOK
<1>f. pc[a] = "open" /\ l1[a].mode # "read" /\ MayFinalize(a) => Holder(a)
  BY <1>0, <1>i, WriterRoles DEF MayFinalize, HolderPC
<1> USE <1>0, <1>i, <1>d, <1>f
<1>1. CASE FinishWriting(a)
  <2>1. /\ pc[a] = "open" /\ pc'[a] = "finished" /\ l1[a].mode = "write" /\ Joined(a)
        /\ catalog' = catalog /\ rst'[a] = rst[a] /\ l1'[a] = l1[a]
    BY <1>1 DEF FinishWriting, AgentsOK
  <2>2. Joiner(a)
    BY <2>1 DEF Joiner, JoinerPC
  <2> QED
    BY <2>1, <2>2, JoinerProceeds
<1>2. CASE CloseRead(a)
  <2>1. pc[a] = "open" /\ l1[a].mode = "read" /\ Done(a) /\ catalog' = catalog
    BY <1>2 DEF CloseRead
  <2>2. ~ Holder(a)
    BY <2>1 DEF Holder
  <2> QED
    BY <2>1, <2>2, OtherLeaves
<1>3. CASE Close(a)
  <2>1. /\ pc[a] = "open" /\ l1[a].mode # "read" /\ MayFinalize(a) /\ pc'[a] = "closing"
        /\ catalog' = catalog /\ rst'[a] = rst[a] /\ l1'[a] = l1[a]
    BY <1>3 DEF Close, AgentsOK
  <2> QED
    BY <2>1, HolderProceeds DEF HolderPC
<1>4. CASE ReplicaCloseSilently(a) \/ (ReplicaCloseFailsSilently(a) /\ pc[a] = "finished")
  <2>1. /\ pc[a] = "finished" /\ pc'[a] \in {"released", "broken"} /\ rst'[a] = NoEntry
        /\ l1'[a] = l1[a] /\ catalog' = catalog
    BY <1>4 DEF ReplicaCloseSilently, ReplicaCloseFailsSilently, AgentsOK
  <2>2. ~ Holder(a) /\ l1[a].target \in Present(catalog)
    BY <2>1 DEF Holder, HolderPC, OwnInv, Registered
  <2> QED
    BY <2>1, <2>2, OtherLeaves
<1>10. ~ ReplicaCloseNotPublished(a)
  BY DEF ReplicaCloseNotPublished, OrderlyOpens, ClosesByReplica
<1>5. CASE ReplicaClose(a) \/ ReplicaCloseSizeOnly(a) \/ ReplicaCloseSizeNotPublished(a)
  <2>1. /\ pc[a] = "open" /\ l1[a].mode # "read" /\ MayFinalize(a)
        /\ pc'[a] \in {"released", "broken"} /\ rst'[a] = NoEntry /\ l1'[a] = l1[a]
    BY <1>5 DEF ReplicaClose, ReplicaCloseSizeOnly, ReplicaCloseSizeNotPublished, AgentsOK
  <2>2. Present(catalog') = Present(catalog)
    BY <1>5, PublishPresent, SMT DEF ReplicaClose, ReplicaCloseSizeOnly,
                                     ReplicaCloseSizeNotPublished, FailedReplicaClose
  <2> QED
    BY <2>1, <2>2, HolderLeaves
<1>6. CASE ReplicaCloseFails(a)
  <2>1. /\ pc[a] = "open" /\ l1[a].mode # "read" /\ MayFinalize(a) /\ rst'[a] = NoEntry
        /\ (pc'[a] = "idle" /\ l1'[a] = NoDesc) \/ (pc'[a] = "broken" /\ l1'[a] = l1[a])
    BY <1>6 DEF ReplicaCloseFails, AgentsOK
  <2>2. Present(catalog') = Present(catalog)
    BY <1>6, UnlockPresent, SMT DEF ReplicaCloseFails
  <2> QED
    BY <2>1, <2>2, HolderLeaves
<1>7. CASE ReplicaCloseFailsSilently(a) /\ pc[a] # "finished"
  <2>1. /\ pc[a] = "open" /\ l1[a].mode # "read" /\ MayFinalize(a) /\ rst'[a] = NoEntry
        /\ pc'[a] = "broken" /\ l1'[a] = l1[a] /\ catalog' = catalog
    BY <1>7 DEF ReplicaCloseFailsSilently, AgentsOK
  <2> QED
    BY <2>1, HolderLeaves
<1>8. CASE CloseBroken(a)
  <2>1. pc[a] = "broken" /\ Done(a) /\ catalog' = catalog
    BY <1>8 DEF CloseBroken
  <2>2. ~ Holder(a)
    BY <2>1 DEF Holder, HolderPC
  <2> QED
    BY <2>1, <2>2, OtherLeaves
<1>9. CASE Exit(a)
  <2>1. /\ pc[a] \in {"open", "finished"} /\ (l1[a].mode = "read" \/ MayFinalize(a))
        /\ pc'[a] = "exiting" /\ catalog' = catalog /\ rst'[a] = rst[a] /\ l1'[a] = l1[a]
    BY <1>9 DEF Exit, AgentsOK, OrderlyOpens
  <2>2. CASE l1[a].mode = "read"
    BY <2>1, <2>2, ReaderProceeds
  <2>3. CASE l1[a].mode # "read"
    <3>1. pc[a] = "open"
      BY <2>1, <2>3 DEF MayFinalize, OwnInv, JoinedPlaces
    <3> QED
      BY <2>1, <2>3, <3>1, HolderProceeds DEF HolderPC
  <2> QED
    BY <2>2, <2>3
<1> QED
  BY <1>1, <1>2, <1>3, <1>4, <1>5, <1>6, <1>7, <1>8, <1>9, <1>10 DEF Leave

LEMMA CloseStepKeepsLocks ==
    ASSUME NEW a \in Pids, BaseInv, LockInv, OthersKeep(a), TableMove(a), OrderlyOpens,
           CloseStep(a) \/ ExitWithoutOpenFile(a)
    PROVE  KeepsLocks(a)
<1>0. /\ SharedOK /\ AgentsOK /\ AgentStatus(a) /\ "undisciplined" \notin Clients
      /\ l1[a].mode \in {"read", "write", "create"}
  BY AgentSelf, DescFields DEF BaseInv, StatusInv, OrderlyOpens
<1>i. \A b \in Pids : OwnInv(b)
  BY DEF LockInv
<1>e. ~ ReplicaCloseUpdatesOnError(a)
  BY <1>i DEF ReplicaCloseUpdatesOnError, OwnInv, NoLeftover
<1>d. pc'[a] = "idle" /\ l1'[a] = NoDesc /\ rst'[a] = NoEntry
  BY <1>0, <1>e DEF CloseStep, FinalizeDataObject, FinalizeNotPublished, FinalizeThrows,
              FinalizeFailedOperation, ReplicaCloseReleases, ExitFinalizes,
              ExitWithoutOpenFile, Done, AgentsOK
<1> USE <1>0, <1>i, <1>d
<1>1. CASE FinalizeDataObject(a) \/ FinalizeNotPublished(a) \/ FinalizeThrows(a)
           \/ FinalizeFailedOperation(a)
  <2>1. pc[a] = "closing"
    BY <1>1 DEF FinalizeDataObject, FinalizeNotPublished, FinalizeThrows, FinalizeFailedOperation
  <2>2. Holder(a)
    BY <2>1, WriterRoles DEF AgentStatus
  <2>3. Present(catalog') = Present(catalog)
    BY <1>1, PublishPresent, UnlockPresent, SMT
       DEF FinalizeDataObject, FinalizeNotPublished, FinalizeThrows, FinalizeFailedOperation
  <2> QED
    BY <2>1, <2>2, <2>3, HolderLeaves
<1>2. CASE ReplicaCloseReleases(a) \/ ExitWithoutOpenFile(a)
  <2>1. pc[a] \in {"released", "idle", "broken"} /\ catalog' = catalog
    BY <1>2 DEF ReplicaCloseReleases, ExitWithoutOpenFile
  <2>2. ~ Holder(a)
    BY <2>1 DEF Holder, HolderPC
  <2> QED
    BY <2>1, <2>2, OtherLeaves
<1>3. CASE ExitFinalizes(a)
  <2>1. /\ pc[a] = "exiting" /\ (l1[a].mode = "read" => catalog' = catalog)
        /\ l1[a].mode # "read" => catalog' \in UnlockOutcomes(rst[a], l1[a].target, "stale", "restore")
    BY <1>3 DEF ExitFinalizes
  <2>2. CASE l1[a].mode = "read"
    <3>1. ~ Holder(a)
      BY <2>2 DEF Holder
    <3> QED
      BY <2>1, <2>2, <3>1, OtherLeaves
  <2>3. CASE l1[a].mode # "read"
    <3>1. Holder(a) /\ pc[a] = "exiting"
      BY <2>1, <2>3, WriterRoles
    <3>2. Present(catalog') = Present(catalog)
      BY <2>1, <2>3, UnlockPresent
    <3> QED
      BY <3>1, <3>2, HolderLeaves
  <2> QED
    BY <2>2, <2>3
<1> QED
  BY <1>e, <1>1, <1>2, <1>3 DEF CloseStep

LEMMA EndKeepsLocks ==
    ASSUME NEW a \in Pids, BaseInv, LockInv, OthersKeep(a), TableMove(a), OrderlyOpens,
           Crash(a) \/ Reap(a)
    PROVE  KeepsLocks(a)
<1>0. SharedOK /\ AgentsOK /\ "undisciplined" \notin Clients
  BY DEF BaseInv, OrderlyOpens
<1>i. \A b \in Pids : OwnInv(b)
  BY DEF LockInv
<1> USE <1>0, <1>i
<1>1. pc'[a] \in {"crashed", "reaped"} /\ catalog' = catalog /\ g_map' = g_map
  BY DEF Crash, Reap, AgentsOK
<1>2. l1'[a] = NoDesc /\ rst'[a] = NoEntry
  <2>1. CASE Crash(a)
    BY <2>1 DEF Crash, AgentsOK
  <2>2. CASE Reap(a)
    BY <2>2 DEF Reap, BaseInv, ListedInv, Listed, OwnInv, NoLeftover
  <2> QED
    BY <2>1, <2>2
<1>3. CASE Holder(a)
  <2>1. OwnInv(a)' /\ ~ Holder(a)'
    BY <1>1, <1>2, OwnOut
  <2> QED
    BY <1>1, <1>3, <2>1, HolderStays DEF KeepsLocks
<1>4. CASE ~ Holder(a)
  BY <1>1, <1>2, <1>4, OtherLeaves
<1> QED
  BY <1>3, <1>4

-----------------------------------------------------------------------------
(* Opens one at a time, and new replicas.                                  *)

\* An open starts when no other is between its query and its lock.
LEMMA OpeningStarts ==
    ASSUME NEW a \in Pids, AgentsOK, AgentStep(a), "overlap" \notin Clients, Opening(a)'
    PROVE  Opening(a) \/ \A b \in Pids : ~ Opening(b)
<1>1. CASE Request(a)
  <2>1. ASSUME NEW r, NEW m, NEW t, Resolve(a, r, m, t) PROVE \A b \in Pids : ~ Opening(b)
    BY <2>1 DEF Resolve
  <2>2. CASE Write(a)
    BY <2>2 DEF Write, Opening
  <2> QED
    BY <1>1, <2>1, <2>2 DEF Request
<1>2. CASE OpenStep(a)
  <2>1. CASE LockObject(a) \/ JoinObject(a) \/ ReadGranted(a) \/ OpenDenied(a)
    BY <2>1 DEF LockObject, JoinObject, ReadGranted, OpenDenied, Opening
  <2>2. CASE OpenReplica(a) \/ TruncateReplica(a) \/ ChooseRatUpdate(a)
    BY <2>2 DEF OpenReplica, TruncateReplica, ChooseRatUpdate, Opening, AgentsOK, Done, WithToken, Desc
  <2>3. CASE OpenFails(a) \/ CreateRatEntry(a) \/ AppendToRatEntry(a) \/ RatUpdateFails(a)
    BY <2>3 DEF OpenFails, CreateRatEntry, AppendToRatEntry, RatUpdateFails, Opening, AgentsOK, Done
  <2> QED
    BY <1>2, <2>1, <2>2, <2>3 DEF OpenStep
<1>3. CASE CreateStep(a)
  BY <1>3 DEF CreateStep, CreateDenied, LockForCreate, RegisterReplica, RegistrationFails,
              CreatePhysicalFile, CreatePhysicalFileFails, CleanUpUnlocks, CleanUpUnregisters,
              CreateRatFails, Opening, AgentsOK, Done
<1>4. CASE Leave(a)
  BY <1>4 DEF Leave, FinishWriting, CloseRead, Close, ReplicaCloseSilently, ReplicaClose,
              ReplicaCloseSizeOnly, ReplicaCloseNotPublished, ReplicaCloseSizeNotPublished,
              ReplicaCloseFails, ReplicaCloseFailsSilently, CloseBroken, Exit, Opening, AgentsOK, Done
<1>5. CASE CloseStep(a)
  BY <1>5 DEF CloseStep, FinalizeDataObject, FinalizeNotPublished, FinalizeThrows,
              FinalizeFailedOperation, ReplicaCloseUpdatesOnError, ReplicaCloseReleases,
              ExitFinalizes, Opening, AgentsOK, Done
<1>6. CASE ExitWithoutOpenFile(a) \/ Crash(a) \/ Reap(a)
  BY <1>6 DEF ExitWithoutOpenFile, Crash, Reap, Opening, AgentsOK, Done
<1> QED
  BY <1>1, <1>2, <1>3, <1>4, <1>5, <1>6 DEF AgentStep

\* The table gets a replica by CreateRatEntry only.
LEMMA TableGrows ==
    ASSUME NEW a \in Pids, SharedOK, AgentStep(a), NEW r, ContainsReplica(g_map', r)
    PROVE  \/ ContainsReplica(g_map, r)
           \/ pc[a] = "rat_create" /\ l1[a].target = r
<1>0. g_map \in Table
  BY DEF SharedOK
<1>1. CASE CreateRatEntry(a)
  BY <1>1, SMT DEF CreateRatEntry, Insert, ContainsReplica
<1>2. CASE g_map' = g_map
  BY <1>2
<1>3. CASE g_map' = ErasedFor(a)
  BY <1>0, <1>3, ErasePidTable DEF ErasedFor, ContainsReplica
<1>4. CASE g_map' = EraseAllOfPid(g_map, a)
  BY <1>0, <1>4, EraseAllOfPidTable DEF ContainsReplica
<1>5. CASE AppendToRatEntry(a)
  BY <1>5 DEF AppendToRatEntry, PushPid, WithPids, ContainsReplica
<1> HIDE DEF ContainsReplica
<1>6. CASE Request(a) \/ ExitWithoutOpenFile(a) \/ Crash(a) \/ Reap(a)
  <2>1. ASSUME NEW q, NEW m, NEW t, Resolve(a, q, m, t) PROVE g_map' = g_map
    BY <2>1 DEF Resolve
  <2>2. Request(a) => g_map' = g_map
    BY <2>1 DEF Request, Write
  <2> QED
    BY <1>2, <1>4, <1>6, <2>2 DEF ExitWithoutOpenFile, Crash, Reap
<1>7. CASE OpenStep(a)
  BY <1>1, <1>2, <1>5, <1>7 DEF OpenStep, OpenDenied, ReadGranted, LockObject, JoinObject, OpenReplica,
     TruncateReplica, OpenFails, ChooseRatUpdate, RatUpdateFails
<1>8. CASE CreateStep(a)
  BY <1>2, <1>8 DEF CreateStep, CreateDenied, LockForCreate, RegisterReplica, RegistrationFails,
              CreatePhysicalFile, CreatePhysicalFileFails, CleanUpUnlocks, CleanUpUnregisters,
              CreateRatFails
<1>9. CASE Leave(a)
  BY <1>2, <1>3, <1>9 DEF Leave, FinishWriting, CloseRead, Close, ReplicaCloseSilently, ReplicaClose,
              ReplicaCloseSizeOnly, ReplicaCloseNotPublished, ReplicaCloseSizeNotPublished,
              ReplicaCloseFails, ReplicaCloseFailsSilently, CloseBroken, Exit
<1>10. CASE CloseStep(a)
  BY <1>2, <1>3, <1>4, <1>10 DEF CloseStep, FinalizeDataObject, FinalizeNotPublished, FinalizeThrows,
     FinalizeFailedOperation, ReplicaCloseUpdatesOnError, ReplicaCloseReleases, ExitFinalizes
<1> QED
  BY <1>6, <1>7, <1>8, <1>9, <1>10 DEF AgentStep

\* Where a step leads that creates a replica, and from where.
LEMMA NewReplicaSteps ==
    ASSUME NEW a \in Pids, AgentsOK, AgentStep(a)
    PROVE  /\ pc'[a] \in {"registered", "rat_create"} =>
                RegisterReplica(a) \/ CreatePhysicalFile(a) \/ ChooseRatUpdate(a)
           /\ pc[a] \in {"resolved", "creating"} =>
                \/ ReadGranted(a) \/ LockObject(a) \/ JoinObject(a) \/ LockForCreate(a)
                \/ RegisterReplica(a) \/ l1'[a] = NoDesc
           /\ \/ l1'[a].target \in {l1[a].target, NoReplica}
              \/ \E r \in Replicas, m \in {"read", "write", "create"}, t \in Tokens \cup {NoToken} :
                    Resolve(a, r, m, t)
<1>0. NoDesc.target = NoReplica
  BY DEF NoDesc, Desc
<1>d. Done(a) => pc'[a] = "idle" /\ l1'[a] = NoDesc
  BY DEF Done, AgentsOK
<1> USE <1>0, <1>d
<1>1. CASE Request(a)
  BY <1>1, SMT DEF Request, Resolve, Write, Written, Desc, AgentsOK
<1>2. CASE OpenStep(a)
  <2>1. CASE LockObject(a) \/ JoinObject(a) \/ ReadGranted(a) \/ OpenDenied(a)
    BY <2>1 DEF LockObject, JoinObject, ReadGranted, OpenDenied, AgentsOK
  <2>2. CASE OpenReplica(a) \/ TruncateReplica(a) \/ ChooseRatUpdate(a)
    BY <2>2, SMT DEF OpenReplica, TruncateReplica, ChooseRatUpdate, AgentsOK, WithToken, Desc
  <2>3. CASE OpenFails(a) \/ CreateRatEntry(a) \/ AppendToRatEntry(a) \/ RatUpdateFails(a)
    BY <2>3, SMT DEF OpenFails, CreateRatEntry, AppendToRatEntry, RatUpdateFails, AgentsOK, WithToken, Desc
  <2> QED
    BY <1>2, <2>1, <2>2, <2>3 DEF OpenStep
<1>3. CASE CreateStep(a)
  <2>1. CASE CreateDenied(a) \/ LockForCreate(a) \/ RegisterReplica(a) \/ RegistrationFails(a)
    BY <2>1 DEF CreateDenied, LockForCreate, RegisterReplica, RegistrationFails, AgentsOK
  <2>2. CASE CreatePhysicalFile(a) \/ CreatePhysicalFileFails(a) \/ CleanUpUnlocks(a)
             \/ CleanUpUnregisters(a) \/ CreateRatFails(a)
    BY <2>2 DEF CreatePhysicalFile, CreatePhysicalFileFails, CleanUpUnlocks, CleanUpUnregisters,
                CreateRatFails, AgentsOK
  <2> QED
    BY <1>3, <2>1, <2>2 DEF CreateStep
<1>4. CASE Leave(a)
  BY <1>4 DEF Leave, FinishWriting, CloseRead, Close, ReplicaCloseSilently, ReplicaClose,
              ReplicaCloseSizeOnly, ReplicaCloseNotPublished, ReplicaCloseSizeNotPublished,
              ReplicaCloseFails, ReplicaCloseFailsSilently, CloseBroken, Exit, AgentsOK
<1>5. CASE CloseStep(a)
  BY <1>5 DEF CloseStep, FinalizeDataObject, FinalizeNotPublished, FinalizeThrows,
              FinalizeFailedOperation, ReplicaCloseUpdatesOnError, ReplicaCloseReleases,
              ExitFinalizes, AgentsOK
<1>6. CASE ExitWithoutOpenFile(a) \/ Crash(a) \/ Reap(a)
  BY <1>6 DEF ExitWithoutOpenFile, Crash, Reap, AgentsOK
<1> QED
  BY <1>1, <1>2, <1>3, <1>4, <1>5, <1>6 DEF AgentStep

\* An agent registers a replica that nobody knows of.
LEMMA NewReplicaAppears ==
    ASSUME NEW a \in Pids, BaseInv, LockInv, AgentStep(a), OthersKeep(a)
    PROVE  NewReplica(a)'
<1> SUFFICES ASSUME l1'[a].mode = "create", pc'[a] \in {"registered", "rat_create"}
             PROVE  NewReplica(a)'
  BY DEF NewReplica
<1>0. SharedOK /\ AgentsOK /\ AgentStatus(a) /\ RatPresent /\ NewReplica(a) /\ OwnInv(a)
  BY DEF BaseInv, StatusInv, LockInv
<1>1. \A b \in Pids \ {a} : pc'[b] = pc[b] /\ l1'[b] = l1[b] /\ info'[b] = info[b]
  BY DEF OthersKeep
<1>2. CASE RegisterReplica(a)
  <2>1. /\ pc'[a] = "registered" /\ l1'[a] = l1[a] /\ g_map' = g_map
        /\ l1[a].target \notin Present(catalog) /\ l1[a].target \in Replicas
    BY <1>0, <1>2, AgentSelf DEF RegisterReplica, Registrable, AgentsOK
  <2>2. ~ ContainsReplica(g_map, l1[a].target)
    BY <1>0, <2>1 DEF RatPresent, ContainsReplica
  <2>3. ASSUME NEW b \in Pids \ {a}, l1[b].target = l1[a].target
        PROVE  pc[b] = "creating" \/ (pc[b] = "resolved" /\ l1[b].mode = "create")
    <3>1. Registered(b) /\ Listed(b)
      BY DEF LockInv, OwnInv, BaseInv, ListedInv
    <3>2. pc[b] \notin {"idle", "crashed", "reaped"}
      BY <2>1, <2>3, <3>1, DistinctAssumption, SMT DEF Listed, NoDesc, Desc
    <3> QED
      BY <2>1, <2>3, <3>1, <3>2 DEF Registered
  <2> QED
    BY <1>1, <2>1, <2>2, <2>3 DEF NewReplica
<1>3. CASE CreatePhysicalFile(a)
  <2>1. pc[a] = "registered" /\ l1'[a] = l1[a] /\ g_map' = g_map
    BY <1>3 DEF CreatePhysicalFile, AgentsOK
  <2>2. l1[a].mode = "create"
    BY <2>1
  <2> QED
    BY <1>0, <1>1, <2>1, <2>2 DEF NewReplica
<1>4. CASE ChooseRatUpdate(a)
  <2>1. pc[a] = "opened" /\ l1'[a] = l1[a]
    BY <1>4 DEF ChooseRatUpdate
  <2> QED
    BY <1>0, <2>1 DEF OwnInv, NoLeftover
<1> QED
  BY <1>0, <1>2, <1>3, <1>4, NewReplicaSteps

\* Nobody gets in the way of the new replica of another agent.
LEMMA NewReplicaStays ==
    ASSUME NEW a \in Pids, BaseInv, LockInv, AgentStep(a), OthersKeep(a), NEW b \in Pids \ {a}
    PROVE  NewReplica(b)'
<1> DEFINE r == l1[b].target
<1>1. \A c \in Pids \ {a} : pc'[c] = pc[c] /\ l1'[c] = l1[c] /\ info'[c] = info[c]
  BY DEF OthersKeep
<1> SUFFICES ASSUME l1[b].mode = "create", pc[b] \in {"registered", "rat_create"}
             PROVE  NewReplica(b)'
  BY <1>1 DEF NewReplica
<1>0. SharedOK /\ AgentsOK /\ NewReplica(b) /\ OwnInv(b) /\ OwnInv(a)
  BY DEF BaseInv, StatusInv, LockInv
<1>2. /\ ~ ContainsReplica(g_map, r)
      /\ \A c \in Pids \ {b} : l1[c].target = r =>
            \/ pc[c] = "creating"
            \/ /\ pc[c] = "resolved"
               /\ l1[c].mode = "create" \/ info[c][r].status = "intermediate"
  BY <1>0 DEF NewReplica
<1>3. r \in Present(catalog) /\ catalog[r].status = "intermediate" /\ r \in Replicas
  BY <1>0 DEF OwnInv, HolderInv, Holder, HolderPC, LockedFor, Present
<1>4. ~ ContainsReplica(g_map', r)
  BY <1>0, <1>2, TableGrows
<1>5. ASSUME l1'[a].target = r
      PROVE  \/ pc'[a] = "creating"
             \/ /\ pc'[a] = "resolved"
                /\ l1'[a].mode = "create" \/ info'[a][r].status = "intermediate"
  <2>1. l1'[a] # NoDesc /\ r # NoReplica
    BY <1>3, <1>5, DistinctAssumption, SMT DEF NoDesc, Desc
  <2>2. CASE l1[a].target = r
    <3>1. pc[a] \in {"resolved", "creating"}
      BY <1>2, <2>2
    <3>2. ~ TokenIsValid(a)
      BY <1>2, <2>2 DEF TokenIsValid, ContainsToken, ContainsReplica
    <3>3. pc[a] = "resolved" /\ l1[a].mode # "create" => info[a][r].status = "intermediate"
      BY <1>2, <2>2
    <3>4. ~ ReadGranted(a) /\ ~ LockObject(a) /\ ~ JoinObject(a)
      BY <2>2, <3>2, <3>3 DEF ReadGranted, LockObject, JoinObject, TryLockReplica
    <3>5. ~ RegisterReplica(a)
      BY <1>3, <2>2 DEF RegisterReplica, Registrable
    <3>6. LockForCreate(a)
      BY <1>0, <2>1, <3>1, <3>4, <3>5, NewReplicaSteps
    <3> QED
      BY <1>0, <2>1, <3>6 DEF LockForCreate, AgentsOK
  <2>3. CASE l1[a].target # r
    <3>1. PICK q \in Replicas, m \in {"read", "write", "create"}, t \in Tokens \cup {NoToken} :
              Resolve(a, q, m, t)
      BY <1>0, <1>5, <2>1, <2>3, NewReplicaSteps
    <3>2. pc'[a] = "resolved" /\ info'[a] = catalog
      BY <1>0, <3>1 DEF Resolve, AgentsOK
    <3> QED
      BY <1>3, <3>2
  <2> QED
    BY <2>2, <2>3
<1>6. \A c \in Pids \ {a, b} : l1'[c].target = r =>
          \/ pc'[c] = "creating"
          \/ /\ pc'[c] = "resolved"
             /\ l1'[c].mode = "create" \/ info'[c][r].status = "intermediate"
  BY <1>1, <1>2
<1> QED
  BY <1>1, <1>4, <1>5, <1>6 DEF NewReplica

-----------------------------------------------------------------------------
(* The lock invariant.                                                     *)

LEMMA StepKeepsLocks ==
    ASSUME NEW a \in Pids, BaseInv, LockInv, Request(a) => CleanStart(a), OrderlyOpens, AgentStep(a)
    PROVE  LockInv' /\ KeepsLocks(a)
<1>0. SharedOK /\ AgentsOK /\ OneOpening /\ RatPresent /\ OthersKeep(a) /\ TableMove(a)
      /\ \A b \in Pids : OwnInv(b)
  BY StepKeepsOthers, StepMovesTable DEF BaseInv, LockInv
<1>1. KeepsLocks(a)
  <2>1. CASE Request(a)
    BY <1>0, <2>1, ResolveKeepsLocks, WriteKeepsLocks DEF Request
  <2> QED
    BY <1>0, <2>1, OpenStepKeepsLocks, CreateStepKeepsLocks, LeaveKeepsLocks, CloseStepKeepsLocks,
       EndKeepsLocks DEF AgentStep
<1>2. \A b \in Pids : OwnInv(b)'
  BY <1>0, <1>1, OthersKeepInv DEF KeepsLocks
<1>3. OneOpening'
  <2>1. \A b \in Pids \ {a} : Opening(b)' => Opening(b)
    BY <1>0 DEF OthersKeep, Opening
  <2>2. Opening(a)' => Opening(a) \/ \A b \in Pids : ~ Opening(b)
    BY <1>0, OpeningStarts DEF OrderlyOpens
  <2> QED
    BY <1>0, <2>1, <2>2 DEF OneOpening
<1>4. RatPresent'
  <2> SUFFICES ASSUME NEW t \in DOMAIN g_map' PROVE g_map'[t].replica \in Present(catalog')
    BY DEF RatPresent
  <2>1. ContainsReplica(g_map', g_map'[t].replica)
    BY DEF ContainsReplica
  <2>2. CASE ContainsReplica(g_map, g_map'[t].replica)
    BY <1>0, <1>1, <2>2 DEF ContainsReplica, RatPresent, KeepsLocks
  <2>3. CASE pc[a] = "rat_create" /\ l1[a].target = g_map'[t].replica
    BY <1>0, <1>1, <2>3 DEF OwnInv, Registered, KeepsLocks
  <2> QED
    BY <1>0, <2>1, <2>2, <2>3, TableGrows
<1>5. \A b \in Pids : NewReplica(b)'
  BY <1>0, NewReplicaAppears, NewReplicaStays
<1> QED
  BY <1>1, <1>2, <1>3, <1>4, <1>5 DEF LockInv

\* Nothing that the lock invariant is about changes.
LEMMA LockStutter ==
    ASSUME LockInv, UNCHANGED <<catalog, g_map, rst, pc, l1, info>>
    PROVE  LockInv'
<1>1. \A a \in Pids : /\ (Holder(a)' <=> Holder(a)) /\ (Joiner(a)' <=> Joiner(a))
                      /\ (Lockable(a)' <=> Lockable(a)) /\ (Joined(a)' <=> Joined(a))
                      /\ (Opening(a)' <=> Opening(a))
  BY DEF Holder, Joiner, Lockable, Joined, Opening
<1>2. \A a \in Pids : TokenIsHeld(a)' <=> TokenIsHeld(a)
  BY <1>1 DEF TokenIsHeld, TokenIsValid
<1>3. ASSUME NEW a \in Pids PROVE OwnInv(a)' /\ NewReplica(a)'
  <2>1. OwnInv(a) /\ NewReplica(a)
    BY DEF LockInv
  <2>2. NoLeftover(a)' /\ ResolvedInv(a)' /\ JoinedPlaces(a)' /\ Registered(a)' /\ NewReplica(a)'
    BY <1>1, <2>1 DEF OwnInv, NoLeftover, ResolvedInv, JoinedPlaces, Registered, NewReplica
  <2>3. HolderInv(a)'
    BY <1>1, <2>1 DEF OwnInv, HolderInv, LockedFor
  <2>4. JoinerInv(a)'
    BY <1>1, <1>2, <2>1 DEF OwnInv, JoinerInv, LockedFor
  <2> QED
    BY <2>2, <2>3, <2>4 DEF OwnInv
<1>4. OneOpening' /\ RatPresent'
  BY <1>1 DEF LockInv, OneOpening, RatPresent
<1> QED
  BY <1>3, <1>4 DEF LockInv

LEMMA InitLock == Init => LockInv
<1> SUFFICES ASSUME Init PROVE LockInv
  OBVIOUS
<1>1. \A a \in Pids : /\ pc[a] = "idle" /\ rst[a] = NoEntry /\ l1[a].mode = "read"
                      /\ l1[a].token = NoToken
  BY DEF Init, NoDesc, Desc
<1>2. ASSUME NEW a \in Pids PROVE OwnInv(a) /\ NewReplica(a)
  <2>1. ~ Holder(a) /\ ~ Joiner(a) /\ ~ Joined(a) /\ ~ Lockable(a)
    BY <1>1 DEF Holder, Joiner, Joined, Lockable
  <2> QED
    BY <1>1, <2>1 DEF OwnInv, NoLeftover, HolderInv, ResolvedInv, JoinedPlaces, JoinerInv, Registered,
                      NewReplica
<1>3. OneOpening /\ RatPresent
  BY <1>1, SMT DEF OneOpening, Opening, RatPresent, Init
<1> QED
  BY <1>2, <1>3 DEF LockInv

\* The invariants together.
FullInv == IInv /\ StatusInv /\ ListedInv /\ LockInv /\ IdleAgentHasNoEntry

\* An agent that finishes a request has erased its entry.
LEMMA StepLeavesClean ==
    ASSUME NEW a \in Pids, AgentsOK, AgentStatus(a), OwnInv(a), CleanStart(a), OrderlyOpens, AgentStep(a)
    PROVE  CleanStart(a)'
<1>d. Done(a) => rst'[a] = NoEntry
  BY DEF Done, AgentsOK
<1> USE <1>d
<1>1. CASE Request(a)
  BY <1>1 DEF Request, Resolve, Write, AgentsOK, CleanStart
<1>2. CASE OpenStep(a)
  <2>1. CASE LockObject(a) \/ JoinObject(a) \/ ReadGranted(a) \/ OpenDenied(a)
    BY <2>1 DEF LockObject, JoinObject, ReadGranted, OpenDenied, AgentsOK, OwnInv, NoLeftover, CleanStart
  <2>2. CASE OpenReplica(a) \/ TruncateReplica(a) \/ ChooseRatUpdate(a)
    BY <2>2 DEF OpenReplica, TruncateReplica, ChooseRatUpdate, AgentsOK, CleanStart
  <2>3. CASE OpenFails(a) \/ CreateRatEntry(a) \/ AppendToRatEntry(a) \/ RatUpdateFails(a)
    BY <2>3 DEF OpenFails, CreateRatEntry, AppendToRatEntry, RatUpdateFails, AgentsOK, CleanStart
  <2> QED
    BY <1>2, <2>1, <2>2, <2>3 DEF OpenStep
<1>3. CASE CreateStep(a)
  <2>1. CASE CreateDenied(a) \/ RegisterReplica(a) \/ RegistrationFails(a)
    BY <2>1 DEF CreateDenied, RegisterReplica, RegistrationFails, AgentsOK, OwnInv, NoLeftover, CleanStart
  <2>2. CASE LockForCreate(a)
    <3>1. "lock" \notin Faults
      BY <2>2 DEF LockForCreate, AgentStatus, OrderlyOpens
    <3> QED
      BY <2>2, <3>1 DEF LockForCreate, AgentsOK, CleanStart
  <2>3. CASE CreatePhysicalFile(a) \/ CreatePhysicalFileFails(a) \/ CleanUpUnlocks(a)
             \/ CleanUpUnregisters(a) \/ CreateRatFails(a)
    BY <2>3 DEF CreatePhysicalFile, CreatePhysicalFileFails, CleanUpUnlocks, CleanUpUnregisters,
                CreateRatFails, AgentsOK, CleanStart
  <2> QED
    BY <1>3, <2>1, <2>2, <2>3 DEF CreateStep
<1>4. CASE Leave(a)
  BY <1>4 DEF Leave, FinishWriting, CloseRead, Close, ReplicaCloseSilently, ReplicaClose,
              ReplicaCloseSizeOnly, ReplicaCloseNotPublished, ReplicaCloseSizeNotPublished,
              ReplicaCloseFails, ReplicaCloseFailsSilently, CloseBroken, Exit, AgentsOK, CleanStart
<1>5. CASE CloseStep(a)
  BY <1>5 DEF CloseStep, FinalizeDataObject, FinalizeNotPublished, FinalizeThrows,
              FinalizeFailedOperation, ReplicaCloseUpdatesOnError, ReplicaCloseReleases,
              ExitFinalizes, AgentsOK, CleanStart
<1>6. CASE ExitWithoutOpenFile(a) \/ Crash(a) \/ Reap(a)
  BY <1>6 DEF ExitWithoutOpenFile, Crash, Reap, AgentsOK, CleanStart
<1> QED
  BY <1>1, <1>2, <1>3, <1>4, <1>5, <1>6 DEF AgentStep

LEMMA FullStep ==
    ASSUME OrderlyOpens, FullInv, [Next]_vars
    PROVE  FullInv'
<1>1. StatusesRecorded
  BY DEF OrderlyOpens, StatusesRecorded
<1>2. IInv' /\ StatusInv' /\ ListedInv'
  BY <1>1, StepInv, StepStatus, StepKeepsListed DEF FullInv
<1>3. LockInv' /\ IdleAgentHasNoEntry'
  <2>1. CASE UNCHANGED vars
    BY <2>1, LockStutter DEF vars, FullInv, IdleAgentHasNoEntry
  <2>2. ASSUME NEW a \in Pids, AgentStep(a) PROVE LockInv' /\ IdleAgentHasNoEntry'
    <3>1. BaseInv /\ LockInv /\ AgentsOK /\ AgentStatus(a) /\ OwnInv(a) /\ CleanStart(a)
      BY InvParts DEF FullInv, BaseInv, StatusInv, LockInv, IdleAgentHasNoEntry, CleanStart
    <3>2. CleanStart(a)' /\ OthersKeep(a)
      BY <2>2, <3>1, StepLeavesClean, StepKeepsOthers
    <3>3. IdleAgentHasNoEntry'
      BY <3>2 DEF FullInv, IdleAgentHasNoEntry, CleanStart, OthersKeep
    <3> QED
      BY <2>2, <3>1, <3>3, StepKeepsLocks
  <2> QED
    BY <2>1, <2>2 DEF Next, AgentStep
<1> QED
  BY <1>2, <1>3 DEF FullInv

LEMMA FullInit == Init => FullInv
<1>1. Init => IdleAgentHasNoEntry
  BY DEF Init, IdleAgentHasNoEntry
<1> QED
  BY <1>1, InitInv, InitStatus, InitListed, InitLock DEF FullInv

\* If opens of a data object do not overlap between catalog query and lock, and
\* streams are shared as the parallel transfer engine does and none of them is
\* lost before its primary ends, an agent that may modify a replica finds its
\* replica intermediate and every sibling write-locked from the end of its open
\* to the end of its close.  OrderlyOpens lists the errors that are excluded:
\* the server has no check that would keep a lost secondary stream
\* (close_all_l1_descriptors) from unlocking the object under the primary.
THEOREM LocksAreHeld == OrderlyOpens => (Spec => []WritersHoldTheLock)
<1> SUFFICES ASSUME OrderlyOpens PROVE Spec => []WritersHoldTheLock
  OBVIOUS
<1>1. FullInv /\ [Next]_vars => FullInv'
  BY FullStep
<1>2. FullInv => WritersHoldTheLock
  <2> SUFFICES ASSUME FullInv, NEW a \in Pids, Writing(a) PROVE LockedFor(l1[a].target)
    BY DEF WritersHoldTheLock, LockedFor
  <2>1. OwnInv(a) /\ AgentsOK /\ AgentStatus(a)
    BY InvParts DEF FullInv, LockInv, StatusInv
  <2>2. Holder(a) \/ Joiner(a)
    BY <2>1, WriterRoles DEF Writing, HolderPC
  <2> QED
    BY <2>1, <2>2 DEF OwnInv, HolderInv, JoinerInv
<1> QED
  BY <1>1, <1>2, FullInit, PTL DEF Spec

\* Under the same conditions, no lost secondary stream among them, at most one
\* agent has locked the object; everybody else who modifies it came with the
\* token of that agent (try_lock and the replica access table).
THEOREM OneHolder == OrderlyOpens => (Spec => []OnePrimary)
<1> SUFFICES ASSUME OrderlyOpens PROVE Spec => []OnePrimary
  OBVIOUS
<1>1. FullInv /\ [Next]_vars => FullInv'
  BY FullStep
<1>2. FullInv => OnePrimary
  <2> SUFFICES ASSUME FullInv, NEW a \in Pids, NEW b \in Pids, Writing(a), Writing(b),
                      ~ Joined(a), ~ Joined(b)
               PROVE  a = b
    BY DEF OnePrimary
  <2>1. OwnInv(a) /\ OwnInv(b) /\ AgentsOK /\ AgentStatus(a) /\ AgentStatus(b)
    BY InvParts DEF FullInv, LockInv, StatusInv
  <2>2. Holder(a) /\ Holder(b)
    BY <2>1, WriterRoles DEF Writing, HolderPC
  <2> QED
    BY <2>1, <2>2 DEF OwnInv, HolderInv
<1> QED
  BY <1>1, <1>2, FullInit, PTL DEF Spec

\* Under the same conditions every path through open, create and close erases
\* the replica state table entry of the agent before its next request.
THEOREM EntriesAreErased == OrderlyOpens => (Spec => []IdleAgentHasNoEntry)
<1> SUFFICES ASSUME OrderlyOpens PROVE Spec => []IdleAgentHasNoEntry
  OBVIOUS
<1>1. FullInv /\ [Next]_vars => FullInv'
  BY FullStep
<1>2. FullInv => IdleAgentHasNoEntry
  BY DEF FullInv
<1> QED
  BY <1>1, <1>2, FullInit, PTL DEF Spec
=============================================================================
