------------------------- MODULE ReplicationInvariant ------------------------
(***************************************************************************)
(* Replications among writers: the inductive invariant ReplInv, and that   *)
(* it is kept until a replication ends.  A step is one of DataObjectAccess *)
(* (Works), or leaves the catalog, the tables and the descriptors alone    *)
(* (Rests).                                                                *)
(***************************************************************************)
EXTENDS DataObjectSessionProofs, Replication

\* Zenon proves most leaves; those that need another prover cite it.
USE ZenonT(30)

\* What writers need (the catalog is updated and no close throws before it
\* unlocks, see SessionEnds), and that an entry which a failed replication has
\* left in the replica state table is not found by another request.
OrderlyReplications ==
    /\ OrderlyOpens /\ SessionEnds /\ EveryoneLeaves
    /\ "close" \in Clients /\ "reuse" \notin Mishaps

Places == {"idle", "resolved", "granted", "opened", "rat_create", "open", "closing",
           "creating", "registered"}

\* Where agents are, who has a token, and what an entry left behind may hold.
AgentInv(a) ==
    /\ pc[a] \in Places
    /\ pc[a] # "idle" => l1[a].mode # "read"
    /\ l1[a].token # NoToken => Holder(a)
    /\ Holder(a) => \A r \in Replicas : rst[a].before[r] # "write_locked"

Looking == {"resolving", "checked", "source_open"}
Copying == {"destination", "copied", "copy_failed"}

\* The stage of a replication and the place of its agent.
StageInv(a) ==
    /\ repl[a].stage \in {"none"} \cup Looking \cup Copying
    /\ repl[a].stage \in Looking => pc[a] = "idle" /\ rst[a] = NoEntry
    /\ At(a, "destination") => pc[a] # "closing" /\ (pc[a] = "idle" => rst[a] = NoEntry)
    /\ At(a, "copied") \/ At(a, "copy_failed") => pc[a] \in {"open", "closing"}
    /\ repl[a].stage \in Copying /\ pc[a] # "idle" => l1[a].target = repl[a].dest /\ ~ l1[a].wrote
    /\ ~ At(a, "none") => repl[a].source \in Present(catalog) \ repl[a].todo
    /\ repl[a].todo \subseteq Replicas
    /\ repl[a].stage \in Copying \cup {"source_open"} => repl[a].dest \in repl[a].todo
    /\ At(a, "copy_failed") => repl[a].todo = {repl[a].dest}

\* A copy of a source that has not changed is one.
CopyInv(a) ==
    At(a, "copied") /\ SourceUnchanged(a) => contents[repl[a].dest] = contents[repl[a].source]

\* No token is in the access table without an agent.
TableHeld == \A t \in DOMAIN g_map : \E q \in Pids : Count(g_map, t, q) > 0

ReplInv ==
    /\ BaseInv /\ LockInv /\ WrittenInv /\ QuietInv /\ UnlistedInv /\ TableHeld
    /\ repl = [a \in Pids |-> repl[a]]
    /\ \A a \in Pids : AgentInv(a) /\ StageInv(a) /\ CopyInv(a)

-----------------------------------------------------------------------------
(* What follows from the invariant for one agent.                          *)

LEMMA AgentParts ==
    ASSUME ReplInv, NEW a \in Pids
    PROVE  /\ SharedOK /\ AgentsOK /\ ProperRows(catalog) /\ AgentStatus(a)
           /\ l1[a] \in Descriptor /\ rst[a] \in RstEntry
           /\ OwnInv(a) /\ NewReplica(a) /\ OneOpening /\ WroteInv(a)
           /\ Listed(a) /\ Reader(a) /\ Unlisted(a)
           /\ AgentInv(a) /\ StageInv(a) /\ CopyInv(a)
<1>1. BaseInv /\ LockInv /\ WrittenInv /\ UnlistedInv /\ AgentInv(a) /\ StageInv(a) /\ CopyInv(a)
  BY DEF ReplInv
<1>2. SharedOK /\ AgentsOK /\ ProperRows(catalog) /\ AgentStatus(a) /\ Listed(a)
  BY <1>1 DEF BaseInv, StatusInv, ListedInv
<1>3. OwnInv(a) /\ NewReplica(a) /\ OneOpening /\ WroteInv(a) /\ Reader(a) /\ Unlisted(a)
  BY <1>1 DEF LockInv, WrittenInv, UnlistedInv
<1>4. l1[a] \in Descriptor /\ rst[a] \in RstEntry
  BY <1>2, AgentSelf
<1> QED
  BY <1>1, <1>2, <1>3, <1>4

\* Nobody opens with the token of another agent.
LEMMA NobodyJoins ==
    ASSUME ReplInv, NEW a \in Pids
    PROVE  ~ Joined(a) /\ ~ Joiner(a)
<1>1. OwnInv(a) /\ AgentInv(a)
  BY AgentParts
<1>2. ~ Joined(a)
  <2>1. Joined(a) => Holder(a)
    BY <1>1 DEF OwnInv, JoinedPlaces, AgentInv
  <2> QED
    BY <2>1, NotHolder
<1>3. pc[a] = "resolved" => l1[a].token = NoToken
  BY <1>1, NotHolder DEF AgentInv
<1> QED
  BY <1>2, <1>3 DEF Joiner

\* Whoever is past the lock holds it.
LEMMA PastTheLock ==
    ASSUME ReplInv, NEW a \in Pids,
           pc[a] \in {"granted", "opened", "rat_create", "open", "closing", "registered"}
    PROVE  Holder(a)
<1>1. /\ AgentsOK /\ AgentStatus(a) /\ OwnInv(a) /\ l1[a].mode # "read" /\ ~ Joined(a)
  BY AgentParts, NobodyJoins DEF AgentInv
<1> QED
  BY <1>1, WriterRoles DEF HolderPC

LEMMA OneHolds ==
    ASSUME ReplInv, NEW a \in Pids, NEW b \in Pids, Holder(a), Holder(b)
    PROVE  a = b
BY AgentParts DEF OwnInv, HolderInv

\* While the holder of the lock is not in the access table, nobody is.
LEMMA NobodyListed ==
    ASSUME ReplInv, NEW a \in Pids, Holder(a), pc[a] \notin ListedPC, NEW r
    PROVE  ~ ContainsReplica(g_map, r)
<1> SUFFICES ASSUME NEW t \in DOMAIN g_map PROVE FALSE
  BY DEF ContainsReplica
<1>1. g_map \in Table /\ TableHeld
  BY AgentParts DEF SharedOK, ReplInv
<1>2. PICK q \in Pids : Count(g_map, t, q) > 0
  BY <1>1 DEF TableHeld
<1>3. t \in Tokens
  BY <1>1, TableMembership
<1>4. Count(g_map, t, q) = 1
  <2>1. Count(g_map, t, q) \in {0, 1}
    BY <1>3, AgentParts DEF Unlisted
  <2> QED
    BY <1>2, <2>1, SMT
<1>5. pc[q] \in ListedPC /\ l1[q].mode # "read"
  BY <1>3, <1>4, AgentParts DEF Unlisted
<1>6. Holder(q)
  BY <1>5, AgentParts DEF Listed, AgentInv
<1> QED
  BY <1>5, <1>6, OneHolds

-----------------------------------------------------------------------------
(* Steps of writers, and of replications when they open the destination    *)
(* and close the replicas, are steps of DataObjectAccess.                  *)

Works(a) ==
    \/ WriteRequest(a) \/ WriterStep(a) \/ Disconnect(a)
    \/ OpenDestinationReplica(a) \/ OpenDestinationStep(a) \/ CloseReplicas(a)

\* A replication that closes the destination is a client that closes: nobody
\* else has its token.
LEMMA CloseIsClose ==
    ASSUME ReplInv, OrderlyReplications, NEW a \in Pids, CloseReplicas(a)
    PROVE  Close(a)
<1>1. pc[a] = "open" /\ l1[a].mode # "read" /\ ~ Joined(a) /\ Holder(a)
  BY AgentParts, NobodyJoins, PastTheLock DEF CloseReplicas, AgentInv
<1>2. l1[a].token # NoToken
  BY <1>1, AgentParts DEF Listed, ListedPC
<1>3. \A b \in Pids \ {a} : l1[b].token = NoToken
  BY <1>1, AgentParts, OneHolds DEF AgentInv
<1>4. MayFinalize(a)
  BY <1>1, <1>2, <1>3 DEF MayFinalize
<1> QED
  BY <1>1, <1>4 DEF CloseReplicas, Close, OrderlyReplications

LEMMA WorkIsStep ==
    ASSUME ReplInv, OrderlyReplications, NEW a \in Pids, Works(a)
    PROVE  AgentStep(a) /\ (Request(a) => CleanStart(a))
<1>0. pc \in [Pids -> PC] /\ StageInv(a) /\ "reuse" \notin Mishaps
  BY AgentParts DEF AgentsOK, OrderlyReplications
<1>1. CASE WriteRequest(a)
  <2>1. CASE Write(a)
    BY <2>1 DEF AgentStep, Request, Write, CleanStart
  <2>2. ASSUME NEW r \in Replicas, Free(a), Resolve(a, r, "write", NoToken)
        PROVE  AgentStep(a) /\ CleanStart(a)
    BY <1>0, <2>2 DEF AgentStep, Request, CleanStart, Free
  <2> QED
    BY <1>1, <2>1, <2>2 DEF WriteRequest
<1>2. CASE WriterStep(a)
  <2>1. OpenStep(a) \/ Leave(a) \/ CloseStep(a)
    BY <1>2 DEF WriterStep, OpenStep, Leave, CloseStep
  <2>2. pc[a] # "idle"
    BY <1>2 DEF WriterStep, OpenDenied, LockObject, OpenReplica, OpenFails, ChooseRatUpdate,
                CreateRatEntry, RatUpdateFails, Close, FinalizeDataObject, FinalizeNotPublished,
                FinalizeThrows, FinalizeFailedOperation
  <2> QED
    BY <2>1, <2>2 DEF AgentStep, CleanStart
<1>3. CASE Disconnect(a)
  <2>1. ExitWithoutOpenFile(a) /\ pc'[a] = "idle"
    BY <1>0, <1>3 DEF Disconnect, ExitWithoutOpenFile, Done
  <2>2. ~ Request(a)
    BY <1>0, <2>1 DEF Request, Resolve, Write, ExitWithoutOpenFile
  <2> QED
    BY <2>1, <2>2 DEF AgentStep
<1>4. CASE OpenDestinationReplica(a)
  <2>1. rst[a] = NoEntry /\ repl[a].dest \in Replicas
    BY <1>0, <1>4 DEF OpenDestinationReplica, StageInv, At, Looking
  <2>2. Request(a)
    BY <1>4, <2>1 DEF OpenDestinationReplica, Request
  <2> QED
    BY <2>1, <2>2 DEF AgentStep, CleanStart
<1>5. CASE OpenDestinationStep(a)
  <2>1. OpenStep(a) \/ CreateStep(a)
    BY <1>5 DEF OpenDestinationStep, OpenStep
  <2>2. pc[a] # "idle"
    <3>1. CreateStep(a) => pc[a] # "idle"
      BY DEF CreateStep, CreateDenied, LockForCreate, RegisterReplica, RegistrationFails,
             CreatePhysicalFile, CreatePhysicalFileFails, CleanUpUnlocks, CleanUpUnregisters, CreateRatFails
    <3> QED
      BY <1>5, <3>1 DEF OpenDestinationStep, OpenDenied, LockObject, TruncateReplica, OpenFails,
                ChooseRatUpdate, CreateRatEntry, RatUpdateFails
  <2> QED
    BY <2>1, <2>2 DEF AgentStep, CleanStart
<1>6. CASE CloseReplicas(a)
  <2>1. Close(a) /\ pc[a] # "idle"
    BY <1>6, CloseIsClose DEF CloseReplicas
  <2> QED
    BY <2>1 DEF AgentStep, Leave, CleanStart
<1> QED
  BY <1>1, <1>2, <1>3, <1>4, <1>5, <1>6 DEF Works

\* The tokens in the access table have agents after a step, too: the operations
\* of the table drop the entries that nobody uses any more.
LEMMA TableStaysHeld ==
    ASSUME NEW a \in Pids, SharedOK, TableHeld, TableMove(a)
    PROVE  TableHeld'
<1>0. g_map \in Table
  BY DEF SharedOK
<1>1. CASE g_map' = g_map
  BY <1>1 DEF TableHeld
<1>2. CASE g_map' = EraseAllOfPid(g_map, a)
  <2>1. \A t \in DOMAIN g_map' : \E q \in Pids : g_map'[t].agent_pids[q] > 0
    BY <1>0, <1>2, EraseAllOfPidTable
  <2> QED
    BY <2>1 DEF TableHeld, Count
<1>3. CASE g_map' = ErasedFor(a) /\ g_map' # g_map
  <2> DEFINE u == l1[a].token
  <2>1. u \in DOMAIN g_map /\ g_map[u].agent_pids[a] > 0 /\ g_map' = ErasePid(g_map, u, a)
    BY <1>3 DEF ErasedFor
  <2>2. \A t \in DOMAIN g_map' : \E q \in Pids : g_map'[t].agent_pids[q] > 0
    BY <1>0, <2>1, ErasePidTable
  <2> QED
    BY <2>2 DEF TableHeld, Count
<1>4. ASSUME NEW u \in Tokens \ DOMAIN g_map, g_map' = Insert(g_map, u, l1[a].target, a)
      PROVE  TableHeld'
  <2>1. DOMAIN g_map' = DOMAIN g_map \cup {u}
    BY <1>4 DEF Insert
  <2>2. Count(g_map', u, a) > 0
    <3>1. Count(g_map', u, a) = IF u = u /\ a = a THEN 1 ELSE Count(g_map, u, a)
      BY <1>0, <1>4, InsertCount, SMT
    <3> QED
      BY <3>1, SMT
  <2>3. ASSUME NEW t \in DOMAIN g_map, NEW q \in Pids PROVE Count(g_map', t, q) = Count(g_map, t, q)
    <3>1. Count(g_map', t, q) = IF t = u /\ q = a THEN 1 ELSE Count(g_map, t, q)
      BY <1>0, <1>4, InsertCount, SMT
    <3> QED
      BY <1>4, <3>1
  <2> QED
    BY <2>1, <2>2, <2>3 DEF TableHeld
<1>5. CASE TokenIsValid(a) /\ g_map' = PushPid(g_map, l1[a].token, a)
  <2> DEFINE u == l1[a].token
  <2>1. u \in DOMAIN g_map
    BY <1>5 DEF TokenIsValid, ContainsToken
  <2>2. DOMAIN g_map' = DOMAIN g_map
    BY <1>5 DEF PushPid, WithPids
  <2>3. Count(g_map', u, a) > 0
    <3>1. Count(g_map', u, a) = Count(g_map, u, a) + 1 /\ Count(g_map, u, a) \in Nat
      BY <1>0, <1>5, <2>1, PushCount, CountType
    <3> QED
      BY <3>1, SMT
  <2>4. ASSUME NEW t, t # u, NEW q \in Pids PROVE Count(g_map', t, q) = Count(g_map, t, q)
    <3>1. Count(g_map', t, q) = IF t = u /\ q = a THEN Count(g_map, u, a) + 1 ELSE Count(g_map, t, q)
      BY <1>0, <1>5, <2>1, PushCount, SMT
    <3> QED
      BY <2>4, <3>1
  <2> QED
    BY <2>1, <2>2, <2>3, <2>4 DEF TableHeld
<1> QED
  BY <1>1, <1>2, <1>3, <1>4, <1>5 DEF TableMove

LEMMA WorkKeepsAccess ==
    ASSUME ReplInv, OrderlyReplications, NEW a \in Pids, Works(a)
    PROVE  /\ BaseInv' /\ LockInv' /\ WrittenInv' /\ QuietInv' /\ UnlistedInv' /\ TableHeld'
           /\ OthersKeep(a) /\ KeepsLocks(a) /\ StepKind(a)
<1>0. AgentStep(a) /\ (Request(a) => CleanStart(a))
  BY WorkIsStep
<1>1. OrderlyOpens /\ SessionEnds /\ QuietEnds /\ EveryoneLeaves /\ StatusesRecorded
  BY DEF OrderlyReplications, SessionEnds, StatusesRecorded, ClosesByReplica
<1>2. BaseInv /\ LockInv /\ WrittenInv /\ QuietInv /\ UnlistedInv /\ TableHeld /\ WroteInv(a)
  BY DEF ReplInv, WrittenInv
<1>3. IInv /\ SharedOK /\ AgentsOK /\ StatusInv /\ ListedInv
  BY <1>2, InvParts DEF BaseInv
<1>4. Next
  BY <1>0 DEF Next, AgentStep
<1>5. BaseInv'
  <2>1. IInv' /\ StatusInv' /\ ListedInv'
    BY <1>1, <1>3, <1>4, StepInv, StepStatus, StepKeepsListed
  <2>2. SharedOK' /\ AgentsOK'
    <3>1. (IInv <=> SharedOK /\ AgentsOK)'
      BY InvParts, PTL
    <3> QED
      BY <2>1, <3>1
  <2> QED
    BY <2>1, <2>2 DEF BaseInv
<1>6. UnlistedInv'
  BY <1>1, <1>2, <1>3, <1>4, StepKeepsUnlisted
<1>7. OthersKeep(a) /\ TableMove(a) /\ StepKind(a)
  BY <1>0, <1>1, <1>2, <1>3, StepKeepsOthers, StepMovesTable, StepKinds
<1>8. LockInv' /\ KeepsLocks(a)
  BY <1>0, <1>1, <1>2, StepKeepsLocks
<1>9. QuietInv'
  BY <1>0, <1>1, <1>2, QuietStep
<1>10. WrittenInv'
  <2>1. WroteInv(a)'
    BY <1>0, <1>2, <1>3, WroteSteps
  <2>2. ASSUME NEW b \in Pids \ {a} PROVE WroteInv(b)'
    BY <1>2, <1>7 DEF WrittenInv, WroteInv, OthersKeep
  <2> QED
    BY <2>1, <2>2 DEF WrittenInv
<1>11. TableHeld'
  BY <1>2, <1>3, <1>7, TableStaysHeld
<1> QED
  BY <1>5, <1>6, <1>7, <1>8, <1>9, <1>10, <1>11

-----------------------------------------------------------------------------
(* Where such a step leads.                                                *)

GoesOn(a) ==
    /\ pc'[a] \in Places
    /\ pc'[a] # "idle" => l1'[a].mode # "read"
    /\ l1'[a].token # NoToken => l1[a].token # NoToken \/ pc[a] = "rat_create"
    /\ pc'[a] = "granted" => pc[a] = "resolved"
    /\ At(a, "destination") /\ pc'[a] # "idle" =>
        pc'[a] # "closing" /\ l1'[a].target = l1[a].target /\ l1'[a].wrote = l1[a].wrote

LEMMA IdleGoesOn ==
    ASSUME NEW a, pc'[a] = "idle", l1'[a] = NoDesc
    PROVE  GoesOn(a)
<1>1. NoDesc.token = NoToken
  BY SMT DEF NoDesc, Desc
<1> QED
  BY <1>1 DEF GoesOn, Places

LEMMA DoneGoesOn ==
    ASSUME ReplInv, NEW a \in Pids, Done(a)
    PROVE  GoesOn(a)
BY AgentParts, IdleGoesOn DEF AgentsOK, Done

LEMMA SameGoesOn ==
    ASSUME ReplInv, NEW a \in Pids, pc[a] # "idle", l1'[a] = l1[a],
           pc'[a] \in Places \ {"idle", "granted", "closing"}
    PROVE  GoesOn(a)
BY AgentParts DEF GoesOn, AgentInv

LEMMA OpenGoesOn ==
    ASSUME ReplInv, OrderlyReplications, NEW a \in Pids,
           OpenDenied(a) \/ LockObject(a) \/ OpenReplica(a) \/ TruncateReplica(a) \/ OpenFails(a)
           \/ ChooseRatUpdate(a) \/ CreateRatEntry(a) \/ RatUpdateFails(a)
    PROVE  GoesOn(a)
<1>0. /\ pc \in [Pids -> PC] /\ l1 \in [Pids -> Descriptor] /\ AgentInv(a)
      /\ pc[a] # "idle" => l1[a].mode # "read"
  BY AgentParts DEF AgentsOK, AgentInv
<1>1. CASE OpenDenied(a)
  BY <1>0, <1>1, IdleGoesOn DEF OpenDenied
<1>2. CASE LockObject(a)
  <2>1. CASE Done(a)
    BY <2>1, DoneGoesOn
  <2>2. CASE pc' = [pc EXCEPT ![a] = "granted"] /\ l1' = l1
    BY <1>0, <1>2, <2>2 DEF GoesOn, Places, LockObject
  <2> QED
    BY <1>2, <2>1, <2>2 DEF LockObject
<1>3. CASE OpenReplica(a)
  BY <1>0, <1>3, SameGoesOn DEF OpenReplica, Places
<1>4. CASE TruncateReplica(a)
  <2>1. "publish" \notin Faults
    BY DEF OrderlyReplications, SessionEnds, QuietEnds
  <2> QED
    BY <1>0, <1>4, <2>1, SameGoesOn DEF TruncateReplica, Places
<1>5. CASE OpenFails(a) \/ RatUpdateFails(a)
  BY <1>5, DoneGoesOn DEF OpenFails, RatUpdateFails
<1>6. CASE ChooseRatUpdate(a)
  <2>1. Holder(a) /\ pc[a] = "opened"
    BY <1>6, PastTheLock DEF ChooseRatUpdate
  <2>2. ~ ContainsReplica(g_map, l1[a].target)
    BY <2>1, NobodyListed DEF ListedPC
  <2>3. pc'[a] = "rat_create" /\ l1' = l1
    BY <1>0, <1>6, <2>2 DEF ChooseRatUpdate
  <2> QED
    BY <2>1, <2>3, SameGoesOn DEF Places
<1>7. CASE CreateRatEntry(a)
  <2>1. PICK t : l1' = [l1 EXCEPT ![a] = WithToken(l1[a], t)]
    BY <1>7 DEF CreateRatEntry
  <2>2. l1'[a] = WithToken(l1[a], t) /\ pc[a] = "rat_create" /\ pc'[a] = "open"
    BY <1>0, <1>7, <2>1 DEF CreateRatEntry
  <2>3. l1'[a].mode = l1[a].mode /\ l1'[a].target = l1[a].target /\ l1'[a].wrote = l1[a].wrote
    BY <2>2, SMT DEF WithToken, Desc
  <2> QED
    BY <1>0, <2>2, <2>3 DEF GoesOn, Places
<1> QED
  BY <1>1, <1>2, <1>3, <1>4, <1>5, <1>6, <1>7

LEMMA CreateGoesOn ==
    ASSUME ReplInv, OrderlyReplications, NEW a \in Pids, CreateStep(a)
    PROVE  GoesOn(a)
<1>0. /\ pc \in [Pids -> PC] /\ l1 \in [Pids -> Descriptor] /\ AgentInv(a) /\ NewReplica(a)
      /\ "create_file" \notin Faults
  BY AgentParts DEF AgentsOK, OrderlyReplications, OrderlyOpens
<1>1. CASE CreateDenied(a)
  BY <1>0, <1>1, IdleGoesOn DEF CreateDenied
<1>2. CASE LockForCreate(a)
  <2>1. l1[a].mode = "create" /\ "lock" \notin Faults
    BY <1>2, AgentParts DEF LockForCreate, AgentStatus, OrderlyReplications, OrderlyOpens
  <2> QED
    BY <1>0, <1>2, <2>1, SameGoesOn DEF LockForCreate, Places
<1>3. CASE RegisterReplica(a)
  BY <1>0, <1>3, SameGoesOn DEF RegisterReplica, Places
<1>4. CASE RegistrationFails(a)
  BY <1>4, DoneGoesOn DEF RegistrationFails
<1>5. CASE CreatePhysicalFile(a)
  BY <1>0, <1>5, SameGoesOn DEF CreatePhysicalFile, Places
<1>6. ~ CreatePhysicalFileFails(a) /\ ~ CleanUpUnlocks(a) /\ ~ CleanUpUnregisters(a)
  BY <1>0 DEF CreatePhysicalFileFails, CleanUpUnlocks, CleanUpUnregisters, AgentInv, Places
<1>7. ~ CreateRatFails(a)
  BY <1>0 DEF CreateRatFails, NewReplica
<1> QED
  BY <1>1, <1>2, <1>3, <1>4, <1>5, <1>6, <1>7 DEF CreateStep

LEMMA WorkGoesOn ==
    ASSUME ReplInv, OrderlyReplications, NEW a \in Pids, Works(a)
    PROVE  GoesOn(a)
<1>0. /\ pc \in [Pids -> PC] /\ l1 \in [Pids -> Descriptor]
      /\ pc[a] # "idle" => l1[a].mode # "read"
  BY AgentParts DEF AgentsOK, AgentInv
<1>1. ASSUME NEW r, NEW m \in {"write", "create"}, Resolve(a, r, m, NoToken), ~ At(a, "destination")
      PROVE  GoesOn(a)
  <2>1. l1'[a] = Desc(r, m, NoToken, FALSE) /\ pc'[a] = "resolved"
    BY <1>0, <1>1 DEF Resolve
  <2>2. l1'[a].mode = m /\ l1'[a].token = NoToken
    BY <2>1, SMT DEF Desc
  <2> QED
    BY <1>1, <2>1, <2>2 DEF GoesOn, Places
<1>2. CASE Write(a) /\ ~ At(a, "destination")
  <2>1. l1'[a] = Written(l1[a]) /\ pc'[a] = "open" /\ pc[a] = "open"
    BY <1>0, <1>2 DEF Write
  <2>2. l1'[a].mode = l1[a].mode /\ l1'[a].token = l1[a].token
    BY <2>1, SMT DEF Written, Desc
  <2> QED
    BY <1>0, <1>2, <2>1, <2>2 DEF GoesOn, Places
<1>3. CASE Close(a) /\ ~ At(a, "destination")
  BY <1>0, <1>3 DEF Close, GoesOn, Places
<1>4. CASE \/ FinalizeDataObject(a) \/ FinalizeNotPublished(a) \/ FinalizeThrows(a)
           \/ FinalizeFailedOperation(a) \/ ExitWithoutOpenFile(a)
  BY <1>4, DoneGoesOn DEF FinalizeDataObject, FinalizeNotPublished, FinalizeThrows,
                          FinalizeFailedOperation, ExitWithoutOpenFile
<1>5. CASE WriteRequest(a)
  BY <1>1, <1>2, <1>5 DEF WriteRequest, Free, At
<1>6. CASE WriterStep(a)
  BY <1>3, <1>4, <1>6, OpenGoesOn DEF WriterStep, At
<1>7. CASE OpenDestinationReplica(a)
  BY <1>1, <1>7 DEF OpenDestinationReplica, At
<1>8. CASE OpenDestinationStep(a)
  BY <1>8, OpenGoesOn, CreateGoesOn DEF OpenDestinationStep
<1>9. CASE CloseReplicas(a)
  BY <1>3, <1>9, CloseIsClose DEF CloseReplicas, At
<1> QED
  BY <1>4, <1>5, <1>6, <1>7, <1>8, <1>9 DEF Works, Disconnect

-----------------------------------------------------------------------------
(* Such a step keeps the invariant.                                        *)

LEMMA Replacing ==
    ASSUME repl = [b \in Pids |-> repl[b]], NEW a \in Pids, NEW p, Becomes(a, p)
    PROVE  /\ repl'[a] = p /\ \A b \in Pids \ {a} : repl'[b] = repl[b]
           /\ repl' = [b \in Pids |-> repl'[b]]
BY SMT DEF Becomes

LEMMA NextStage ==
    ASSUME repl = [b \in Pids |-> repl[b]], NEW a \in Pids, NEW st, NEW d, NEW seen, AtStage(a, st, d, seen)
    PROVE  /\ repl'[a].stage = st /\ repl'[a].source = repl[a].source /\ repl'[a].todo = repl[a].todo
           /\ repl'[a].dest = d /\ repl'[a].seen = seen
           /\ \A b \in Pids \ {a} : repl'[b] = repl[b]
           /\ repl' = [b \in Pids |-> repl'[b]]
<1>1. /\ repl'[a] = Replicating(st, repl[a].source, repl[a].status, repl[a].todo, d, seen)
      /\ \A b \in Pids \ {a} : repl'[b] = repl[b]
      /\ repl' = [b \in Pids |-> repl'[b]]
  BY Replacing DEF AtStage
<1> QED
  BY <1>1, SMT DEF Replicating

LEMMA WorkKeepsAgent ==
    ASSUME ReplInv, OrderlyReplications, NEW a \in Pids, Works(a)
    PROVE  AgentInv(a)'
<1>0. /\ GoesOn(a) /\ StepKind(a) /\ OthersKeep(a) /\ AgentInv(a) /\ OwnInv(a) /\ BaseInv /\ LockInv
      /\ QuietInv /\ Listed(a)' /\ OrderlyOpens /\ QuietEnds /\ AgentsOK
  BY WorkGoesOn, WorkKeepsAccess, AgentParts
     DEF OrderlyReplications, SessionEnds, BaseInv, ListedInv, ReplInv
<1>1. CASE Stays(a)
  BY <1>0, <1>1, PastTheLock DEF Stays, GoesOn, Places, AgentInv
<1>2. CASE Locks(a)
  <2>1. \A r \in Present(catalog) : AtRest(catalog[r])
    BY <1>0, <1>2, LockableAtRest DEF Locks
  <2>2. Holder(a)' /\ \A r \in Replicas : rst'[a].before[r] = catalog[r].status
    BY <1>0, <1>2, <2>1, LockedRows DEF AtRest
  <2>3. \A r \in Replicas : catalog[r].status # "write_locked"
    BY <2>1 DEF AtRest, AtRestStatus, Present
  <2> QED
    BY <1>0, <2>2, <2>3 DEF GoesOn, AgentInv
<1>3. CASE RegisterReplica(a)
  <2>1. Holder(a)' /\ (rst[a] # NoEntry => Holder(a))
    BY <1>0, <1>3, RegisteredRows DEF RegisterReplica, Holder
  <2>2. \A r \in Replicas : rst[a].before[r] # "write_locked"
    <3>1. CASE rst[a] = NoEntry
      BY <3>1, SMT DEF NoEntry
    <3> QED
      BY <1>0, <2>1, <3>1 DEF AgentInv
  <2>3. rst'[a].before = [rst[a].before EXCEPT ![l1[a].target] = "intermediate"]
    BY <1>0, <1>3, SMT DEF RegisterReplica, RstInsertReplica, NewRow, MkRow, AgentsOK
  <2>4. rst[a].before \in [Replicas -> Stored]
    BY <1>0, AgentSelf, EntryFields
  <2>5. \A r \in Replicas : rst'[a].before[r] # "write_locked"
    BY <2>2, <2>3, <2>4
  <2> QED
    BY <1>0, <2>1, <2>5 DEF GoesOn, AgentInv
<1>4. CASE Unlocks(a)
  <2>1. pc'[a] = "idle"
    BY <1>0, <1>4 DEF Unlocks, GoesOn, Places
  <2>2. l1'[a] = NoDesc /\ ~ Holder(a)'
    BY <1>0, <2>1 DEF Listed, Holder, HolderPC
  <2>3. NoDesc.token = NoToken
    BY SMT DEF NoDesc, Desc
  <2> QED
    BY <1>0, <2>1, <2>2, <2>3 DEF GoesOn, AgentInv
<1> QED
  BY <1>0, <1>1, <1>2, <1>3, <1>4 DEF StepKind

LEMMA OtherAgents ==
    ASSUME NEW a \in Pids, OthersKeep(a), NEW b \in Pids \ {a}, AgentInv(b)
    PROVE  AgentInv(b)'
BY RolesOfOthers DEF OthersKeep, AgentInv

LEMMA OtherStages ==
    ASSUME NEW a \in Pids, OthersKeep(a), NEW b \in Pids \ {a}, StageInv(b), repl'[b] = repl[b],
           Present(catalog) \subseteq Present(catalog')
    PROVE  StageInv(b)'
BY DEF OthersKeep, StageInv, At

LEMMA WorkKeepsStage ==
    ASSUME ReplInv, OrderlyReplications, NEW a \in Pids, Works(a)
    PROVE  StageInv(a)'
<1>0. /\ GoesOn(a) /\ StageInv(a) /\ AgentStep(a) /\ (Request(a) => CleanStart(a)) /\ AgentsOK
      /\ AgentStatus(a) /\ OwnInv(a) /\ OrderlyOpens /\ Present(catalog) \subseteq Present(catalog')
      /\ repl = [b \in Pids |-> repl[b]]
  BY WorkGoesOn, WorkKeepsAccess, WorkIsStep, AgentParts DEF OrderlyReplications, KeepsLocks, ReplInv
<1>1. CASE At(a, "none") /\ repl' = repl
  BY <1>0, <1>1 DEF StageInv, At, Looking, Copying
<1>2. CASE OpenDestinationReplica(a)
  <2> DEFINE q == repl[a]
             d == repl[a].dest
  <2>1. /\ repl'[a].stage = "destination" /\ repl'[a].source = q.source /\ repl'[a].todo = q.todo
        /\ repl'[a].dest = d
    BY <1>0, <1>2, NextStage DEF OpenDestinationReplica
  <2>2. PICK m : l1' = [l1 EXCEPT ![a] = Desc(d, m, NoToken, FALSE)] /\ pc' = [pc EXCEPT ![a] = "resolved"]
    BY <1>2 DEF OpenDestinationReplica, Resolve
  <2>3. l1'[a].target = d /\ ~ l1'[a].wrote /\ pc'[a] = "resolved"
    BY <1>0, <2>2, SMT DEF Desc, AgentsOK
  <2>4. q.source \in Present(catalog) \ q.todo /\ q.todo \subseteq Replicas /\ d \in q.todo
    BY <1>0, <1>2 DEF OpenDestinationReplica, StageInv, At
  <2> QED
    BY <1>0, <2>1, <2>3, <2>4 DEF StageInv, At, Looking, Copying
<1>3. CASE OpenDestinationStep(a)
  <2>1. At(a, "destination") /\ repl' = repl
    BY <1>3 DEF OpenDestinationStep
  <2>2. CleanStart(a)'
    <3>1. CleanStart(a)
      BY <1>0, <2>1 DEF StageInv, CleanStart
    <3> QED
      BY <1>0, <3>1, StepLeavesClean
  <2>3. pc[a] # "idle"
    <3>1. CreateStep(a) => pc[a] # "idle"
      BY DEF CreateStep, CreateDenied, LockForCreate, RegisterReplica, RegistrationFails,
             CreatePhysicalFile, CreatePhysicalFileFails, CleanUpUnlocks, CleanUpUnregisters, CreateRatFails
    <3> QED
      BY <1>3, <3>1 DEF OpenDestinationStep, OpenDenied, LockObject, TruncateReplica, OpenFails,
                ChooseRatUpdate, CreateRatEntry, RatUpdateFails
  <2>4. pc'[a] # "idle" => pc'[a] # "closing" /\ l1'[a].target = repl[a].dest /\ ~ l1'[a].wrote
    BY <1>0, <2>1, <2>3 DEF StageInv, GoesOn, At, Copying
  <2> QED
    BY <1>0, <2>1, <2>2, <2>4 DEF StageInv, At, Looking, Copying, CleanStart
<1>4. CASE CloseReplicas(a)
  <2>1. pc'[a] = "closing" /\ pc[a] = "open" /\ l1' = l1 /\ repl' = repl /\ (At(a, "copied") \/ At(a, "copy_failed"))
    BY <1>0, <1>4 DEF CloseReplicas, AgentsOK
  <2> QED
    BY <1>0, <2>1 DEF StageInv, At, Looking, Copying
<1> QED
  BY <1>1, <1>2, <1>3, <1>4 DEF Works, WriteRequest, WriterStep, Disconnect, Free

\* Only who holds the lock touches a file, and only that of its replica.
LEMMA WorkTouches ==
    ASSUME ReplInv, OrderlyReplications, NEW a \in Pids, Works(a), contents' # contents
    PROVE  /\ Stays(a) /\ Holder(a) /\ ~ At(a, "copied")
           /\ \A r \in Replicas \ {l1[a].target} : contents'[r] = contents[r]
           /\ \/ Write(a) \/ CreatePhysicalFile(a)
              \/ TruncateReplica(a) /\ At(a, "destination") /\ pc'[a] = "opened"
<1>0. /\ StepKind(a) /\ contents \in [Replicas -> Versions] /\ pc \in [Pids -> PC]
      /\ "publish" \notin Faults /\ WroteInv(a)
  BY WorkKeepsAccess, AgentParts DEF SharedOK, AgentsOK, OrderlyReplications, SessionEnds, QuietEnds
<1>1. ASSUME TruncateReplica(a) PROVE pc'[a] = "opened" /\ At(a, "destination")
  <2>1. pc[a] = "granted" /\ pc'[a] = "opened"
    BY <1>0, <1>1 DEF TruncateReplica
  <2>2. contents' = contents \/ OpenDestinationStep(a)
    BY <2>1 DEF Works, WriteRequest, Resolve, Write, WriterStep, OpenDenied, LockObject, OpenReplica,
                OpenFails, ChooseRatUpdate, CreateRatEntry, RatUpdateFails, Close, FinalizeDataObject,
                FinalizeNotPublished, FinalizeThrows, FinalizeFailedOperation, Disconnect,
                ExitWithoutOpenFile, OpenDestinationReplica,
                CloseReplicas
  <2> QED
    BY <2>1, <2>2 DEF OpenDestinationStep
<1>2. Stays(a) /\ (Write(a) \/ CreatePhysicalFile(a) \/ TruncateReplica(a))
  BY <1>0, <1>1 DEF StepKind, Stays, Locks, RegisterReplica, Unlocks
<1>3. Holder(a)
  BY <1>2, PastTheLock DEF Write, CreatePhysicalFile, TruncateReplica
<1>4. \A r \in Replicas \ {l1[a].target} : contents'[r] = contents[r]
  BY <1>0, <1>2 DEF Write, CreatePhysicalFile, TruncateReplica
<1>5. ~ At(a, "copied")
  BY DEF Works, WriteRequest, WriterStep, Disconnect, OpenDestinationReplica, OpenDestinationStep,
         CloseReplicas, Free, At
<1> QED
  BY <1>1, <1>2, <1>3, <1>4, <1>5

LEMMA WorkKeepsCopies ==
    ASSUME ReplInv, OrderlyReplications, NEW a \in Pids, Works(a), NEW b \in Pids
    PROVE  CopyInv(b)'
<1> SUFFICES ASSUME At(b, "copied")', SourceUnchanged(b)'
             PROVE  contents'[repl'[b].dest] = contents'[repl'[b].source]
  BY DEF CopyInv
<1>0. repl = [c \in Pids |-> repl[c]] /\ StageInv(b) /\ CopyInv(b)
  BY AgentParts DEF ReplInv
<1>1. repl'[b] = repl[b]
  <2>1. CASE OpenDestinationReplica(a)
    <3>0. repl'[a].stage = "destination"
      BY <1>0, <2>1, NextStage DEF OpenDestinationReplica
    <3>1. b # a
      BY <3>0 DEF At
    <3> QED
      BY <1>0, <2>1, <3>1, NextStage DEF OpenDestinationReplica
  <2> QED
    BY <2>1 DEF Works, WriteRequest, WriterStep, Disconnect, OpenDestinationStep, CloseReplicas
<1>2. At(b, "copied")
  BY <1>1 DEF At
<1>3. Holder(b)
  BY <1>0, <1>2, PastTheLock DEF StageInv
<1>4. contents' = contents
  BY <1>2, <1>3, WorkTouches, OneHolds
<1> QED
  BY <1>0, <1>1, <1>2, <1>4 DEF CopyInv, SourceUnchanged

LEMMA WorkKeepsInv ==
    ASSUME ReplInv, OrderlyReplications, NEW a \in Pids, Works(a)
    PROVE  ReplInv'
<1>1. /\ BaseInv' /\ LockInv' /\ WrittenInv' /\ QuietInv' /\ UnlistedInv' /\ TableHeld'
      /\ OthersKeep(a) /\ Present(catalog) \subseteq Present(catalog')
  BY WorkKeepsAccess DEF KeepsLocks
<1>2. repl' = [b \in Pids |-> repl'[b]] /\ \A b \in Pids \ {a} : repl'[b] = repl[b]
  <2>1. repl = [b \in Pids |-> repl[b]]
    BY DEF ReplInv
  <2>2. CASE OpenDestinationReplica(a)
    BY <2>1, <2>2, NextStage DEF OpenDestinationReplica
  <2>3. CASE repl' = repl
    BY <2>1, <2>3
  <2> QED
    BY <2>2, <2>3 DEF Works, WriteRequest, WriterStep, Disconnect, OpenDestinationStep, CloseReplicas
<1>3. ASSUME NEW b \in Pids PROVE AgentInv(b)' /\ StageInv(b)' /\ CopyInv(b)'
  <2>1. CASE b = a
    BY <2>1, WorkKeepsAgent, WorkKeepsStage, WorkKeepsCopies
  <2>2. CASE b # a
    BY <1>1, <1>2, <2>2, AgentParts, OtherAgents, OtherStages, WorkKeepsCopies
  <2> QED
    BY <2>1, <2>2
<1> QED
  BY <1>1, <1>2, <1>3 DEF ReplInv

-----------------------------------------------------------------------------
(* A replication looks the replicas up and copies the data: the catalog,   *)
(* the tables and the descriptors stay as they are.                        *)

Looks(a) ==
    \/ \E s \in Replicas : ResolveSource(a, s)
    \/ UpdateAllExistingReplicas(a) \/ \E d \in Replicas : ReplicateDataObject(a, d)
    \/ OpenSourceReplica(a) \/ DestinationNotOpened(a)

Rests == UNCHANGED <<catalog, g_map, rst, pc, l1, info>>

LEMMA RestKeepsAccess ==
    ASSUME Rests, contents' \in [Replicas -> Versions],
           BaseInv, LockInv, WrittenInv, QuietInv, UnlistedInv, TableHeld
    PROVE  BaseInv' /\ LockInv' /\ WrittenInv' /\ QuietInv' /\ UnlistedInv' /\ TableHeld'
<1>1. LockInv'
  BY LockStutter DEF Rests
<1>2. SharedOK'
  BY DEF Rests, BaseInv, SharedOK, OneTokenPerReplica
<1>3. AgentsOK'
  BY DEF Rests, BaseInv, AgentsOK, HasTarget
<1>4. StatusInv'
  BY DEF Rests, BaseInv, StatusInv, AgentStatus, Joined
<1>5. ListedInv'
  BY DEF Rests, BaseInv, ListedInv, Listed
<1>6. WrittenInv' /\ TableHeld'
  BY DEF Rests, WrittenInv, WroteInv, TableHeld
<1>7. UnlistedInv'
  BY DEF Rests, UnlistedInv, Unlisted, Reader
<1>8. QuietInv'
  <2>1. \A a \in Pids : Holder(a)' <=> Holder(a)
    BY DEF Rests, Holder, Joined
  <2> QED
    BY <2>1 DEF Rests, QuietInv
<1> QED
  BY <1>1, <1>2, <1>3, <1>4, <1>5, <1>6, <1>7, <1>8 DEF BaseInv

\* The replication is done with a destination: it is over, or goes on with the
\* source it has.
LEMMA DestinationLeft ==
    ASSUME repl = [b \in Pids |-> repl[b]], NEW a \in Pids, NEW d, LeaveDestination(a, d),
           StageInv(a), ~ At(a, "none"), pc'[a] = "idle", rst'[a] = NoEntry \/ repl[a].todo = {d},
           Present(catalog) \subseteq Present(catalog')
    PROVE  /\ StageInv(a)' /\ ~ At(a, "copied")'
           /\ \A b \in Pids \ {a} : repl'[b] = repl[b]
           /\ repl' = [b \in Pids |-> repl'[b]]
<1> DEFINE rest == repl[a].todo \ {d}
           more == Replicating("checked", repl[a].source, repl[a].status, rest, NoReplica, {})
<1>1. /\ repl'[a] = IF rest = {} THEN NoReplication ELSE more
      /\ \A b \in Pids \ {a} : repl'[b] = repl[b]
      /\ repl' = [b \in Pids |-> repl'[b]]
  BY Replacing DEF LeaveDestination
<1>2. repl[a].source \in Present(catalog) \ repl[a].todo /\ repl[a].todo \subseteq Replicas
  BY DEF StageInv
<1>3. CASE rest = {}
  <2>1. repl'[a].stage = "none" /\ repl'[a].todo = {}
    BY <1>1, <1>3, SMT DEF NoReplication, Replicating
  <2> QED
    BY <1>1, <2>1 DEF StageInv, At, Looking, Copying
<1>4. CASE rest # {}
  <2>1. repl'[a].stage = "checked" /\ repl'[a].todo = rest /\ repl'[a].source = repl[a].source
    BY <1>1, <1>4, SMT DEF Replicating
  <2>2. rst'[a] = NoEntry
    BY <1>4
  <2> QED
    BY <1>1, <1>2, <2>1, <2>2 DEF StageInv, At, Looking, Copying
<1> QED
  BY <1>3, <1>4

LEMMA LookRests ==
    ASSUME ReplInv, NEW a \in Pids, Looks(a)
    PROVE  Rests /\ contents' = contents /\ excused' = excused /\ pc[a] = "idle"
<1>0. StageInv(a) /\ rst \in [Pids -> RstEntry]
  BY AgentParts DEF AgentsOK
<1>1. CASE DestinationNotOpened(a)
  <2>1. rst[a] = NoEntry
    BY <1>0, <1>1 DEF DestinationNotOpened, StageInv
  <2>2. rst' = rst
    BY <1>0, <1>1, <2>1, SMT DEF DestinationNotOpened
  <2> QED
    BY <1>1, <2>2 DEF DestinationNotOpened, Rests
<1>2. CASE ~ DestinationNotOpened(a)
  <2>1. UNCHANGED vars /\ excused' = excused
    BY <1>2 DEF Looks, ResolveSource, UpdateAllExistingReplicas, ReplicateDataObject, OpenSourceReplica
  <2>2. pc[a] = "idle"
    BY <1>0, <1>2 DEF Looks, ResolveSource, UpdateAllExistingReplicas, ReplicateDataObject,
                      OpenSourceReplica, Free, StageInv, At, Looking
  <2> QED
    BY <2>1, <2>2 DEF vars, Rests
<1> QED
  BY <1>1, <1>2

\* The source that was found is there, and it is not a destination.
LEMMA LookKeepsStage ==
    ASSUME ReplInv, OrderlyReplications, NEW a \in Pids, Looks(a)
    PROVE  /\ StageInv(a)' /\ ~ At(a, "copied")'
           /\ \A b \in Pids \ {a} : repl'[b] = repl[b]
           /\ repl' = [b \in Pids |-> repl'[b]]
<1> DEFINE s == repl[a].source
<1>0. /\ repl = [b \in Pids |-> repl[b]] /\ StageInv(a) /\ "reuse" \notin Mishaps
      /\ Rests /\ pc[a] = "idle" /\ contents' = contents
  BY AgentParts, LookRests DEF ReplInv, OrderlyReplications
<1>1. Present(catalog') = Present(catalog) /\ pc'[a] = "idle" /\ rst'[a] = rst[a]
  BY <1>0 DEF Rests
<1>2. ASSUME NEW st \in {"resolving", "checked"}, NEW x \in Present(catalog), NEW y,
             NEW todo \in SUBSET Replicas, x \notin todo, rst[a] = NoEntry,
             Becomes(a, Replicating(st, x, y, todo, NoReplica, {}))
      PROVE  /\ StageInv(a)' /\ ~ At(a, "copied")'
             /\ \A b \in Pids \ {a} : repl'[b] = repl[b]
             /\ repl' = [b \in Pids |-> repl'[b]]
  <2>1. /\ repl'[a] = Replicating(st, x, y, todo, NoReplica, {})
        /\ \A b \in Pids \ {a} : repl'[b] = repl[b]
        /\ repl' = [b \in Pids |-> repl'[b]]
    BY <1>0, <1>2, Replacing
  <2>2. repl'[a].stage = st /\ repl'[a].source = x /\ repl'[a].todo = todo
    BY <2>1, SMT DEF Replicating
  <2> QED
    BY <1>1, <1>2, <2>1, <2>2 DEF StageInv, At, Looking, Copying
<1>3. ASSUME Becomes(a, NoReplication)
      PROVE  /\ StageInv(a)' /\ ~ At(a, "copied")'
             /\ \A b \in Pids \ {a} : repl'[b] = repl[b]
             /\ repl' = [b \in Pids |-> repl'[b]]
  <2>1. /\ repl'[a] = NoReplication /\ \A b \in Pids \ {a} : repl'[b] = repl[b]
        /\ repl' = [b \in Pids |-> repl'[b]]
    BY <1>0, <1>3, Replacing
  <2>2. repl'[a].stage = "none" /\ repl'[a].todo = {}
    BY <2>1, SMT DEF NoReplication, Replicating
  <2> QED
    BY <2>1, <2>2 DEF StageInv, At, Looking, Copying
<1>4. ASSUME NEW x \in Replicas, ResolveSource(a, x)
      PROVE  /\ rst[a] = NoEntry /\ x \in Present(catalog)
             /\ Becomes(a, Replicating("resolving", x, catalog[x].status, {}, NoReplica, {}))
  BY <1>0, <1>4 DEF ResolveSource, Free
<1>5. ASSUME NEW st \in {"resolving", "checked"}, At(a, st)
      PROVE  rst[a] = NoEntry /\ s \in Present(catalog) \ repl[a].todo /\ repl[a].todo \subseteq Replicas
  BY <1>0, <1>5 DEF StageInv, At, Looking
<1>6. ASSUME NEW x \in Replicas, ResolveSource(a, x)
      PROVE  /\ StageInv(a)' /\ ~ At(a, "copied")'
             /\ \A b \in Pids \ {a} : repl'[b] = repl[b]
             /\ repl' = [b \in Pids |-> repl'[b]]
  <2>1. {} \in SUBSET Replicas /\ x \notin {}
    OBVIOUS
  <2> QED
    BY <1>2, <1>4, <1>6, <2>1
<1>7. ASSUME NEW d \in Replicas, ReplicateDataObject(a, d)
      PROVE  /\ StageInv(a)' /\ ~ At(a, "copied")'
             /\ \A b \in Pids \ {a} : repl'[b] = repl[b]
             /\ repl' = [b \in Pids |-> repl'[b]]
  <2>1. rst[a] = NoEntry /\ s \in Present(catalog)
    BY <1>5, <1>7 DEF ReplicateDataObject
  <2>2. \/ Becomes(a, NoReplication)
        \/ s # d /\ Becomes(a, Replicating("checked", s, repl[a].status, {d}, NoReplica, {}))
    BY <1>7, <2>1 DEF ReplicateDataObject
  <2> QED
    BY <1>2, <1>3, <2>1, <2>2
<1>8. CASE UpdateAllExistingReplicas(a)
  <2> DEFINE stale == {r \in Present(catalog) \ {s} : catalog[r].status = "stale"}
  <2>1. rst[a] = NoEntry /\ s \in Present(catalog)
    BY <1>5, <1>8 DEF UpdateAllExistingReplicas
  <2>2. stale \in SUBSET Replicas /\ s \notin stale
    BY DEF Present
  <2>3. \/ Becomes(a, NoReplication)
        \/ Becomes(a, Replicating("checked", s, repl[a].status, stale, NoReplica, {}))
    BY <1>8 DEF UpdateAllExistingReplicas
  <2> QED
    BY <1>2, <1>3, <2>1, <2>2, <2>3
<1>9. CASE OpenSourceReplica(a)
  <2>1. rst[a] = NoEntry /\ s \in Present(catalog) \ repl[a].todo /\ repl[a].todo \subseteq Replicas
    BY <1>5, <1>9 DEF OpenSourceReplica
  <2>2. ASSUME NEW d \in repl[a].todo, AtStage(a, "source_open", d, {contents[s]})
        PROVE  /\ StageInv(a)' /\ ~ At(a, "copied")'
               /\ \A b \in Pids \ {a} : repl'[b] = repl[b]
               /\ repl' = [b \in Pids |-> repl'[b]]
    <3>1. /\ repl'[a].stage = "source_open" /\ repl'[a].source = s /\ repl'[a].todo = repl[a].todo
          /\ repl'[a].dest = d /\ \A b \in Pids \ {a} : repl'[b] = repl[b]
          /\ repl' = [b \in Pids |-> repl'[b]]
      BY <1>0, <2>2, NextStage, SMT
    <3>2. /\ "source_open" \in Looking /\ "source_open" \in Copying \cup {"source_open"}
          /\ "source_open" \notin Copying
      BY DEF Looking, Copying
    <3>3. pc'[a] = "idle" /\ rst'[a] = NoEntry
      BY <1>1, <2>1
    <3>4. repl'[a].source \in Present(catalog') \ repl'[a].todo /\ repl'[a].todo \subseteq Replicas
      BY <1>1, <2>1, <3>1
    <3> QED
      BY <2>2, <3>1, <3>2, <3>3, <3>4 DEF StageInv, At
  <2>3. ~ At(a, "none")
    BY <1>9 DEF OpenSourceReplica, At
  <2>4. \E d \in repl[a].todo : AtStage(a, "source_open", d, {contents[s]}) \/ LeaveDestination(a, d)
    BY <1>9 DEF OpenSourceReplica
  <2> QED
    BY <1>0, <1>1, <2>1, <2>2, <2>3, <2>4, DestinationLeft
<1>10. CASE DestinationNotOpened(a)
  <2>1. At(a, "destination") /\ ~ At(a, "none") /\ LeaveDestination(a, repl[a].dest)
    BY <1>10 DEF DestinationNotOpened, At
  <2>2. rst[a] = NoEntry
    BY <1>0, <2>1 DEF StageInv
  <2> QED
    BY <1>0, <1>1, <2>1, <2>2, DestinationLeft
<1> QED
  BY <1>6, <1>7, <1>8, <1>9, <1>10 DEF Looks

LEMMA RestKeepsAgents ==
    ASSUME NEW a \in Pids, Rests
    PROVE  /\ OthersKeep(a) /\ Present(catalog') = Present(catalog)
           /\ Holder(a)' <=> Holder(a)
           /\ AgentInv(a) => AgentInv(a)'
<1>1. Holder(a)' <=> Holder(a)
  BY DEF Rests, Holder, Joined
<1> QED
  BY <1>1 DEF Rests, OthersKeep, AgentInv

\* A step that changes no file keeps the copies, too.
LEMMA OtherCopies ==
    ASSUME NEW b, CopyInv(b), repl'[b] = repl[b], contents' = contents
    PROVE  CopyInv(b)'
BY DEF CopyInv, At, SourceUnchanged

LEMMA LookKeepsInv ==
    ASSUME ReplInv, OrderlyReplications, NEW a \in Pids, Looks(a)
    PROVE  ReplInv'
<1>1. /\ Rests /\ contents' = contents /\ OthersKeep(a) /\ Present(catalog') = Present(catalog)
      /\ contents \in [Replicas -> Versions] /\ AgentInv(a)'
  BY LookRests, RestKeepsAgents, AgentParts DEF SharedOK
<1>2. BaseInv' /\ LockInv' /\ WrittenInv' /\ QuietInv' /\ UnlistedInv' /\ TableHeld'
  BY <1>1, RestKeepsAccess DEF ReplInv
<1>3. /\ StageInv(a)' /\ CopyInv(a)' /\ repl' = [b \in Pids |-> repl'[b]]
      /\ \A b \in Pids \ {a} : repl'[b] = repl[b]
  BY LookKeepsStage DEF CopyInv
<1>4. ASSUME NEW b \in Pids \ {a} PROVE AgentInv(b)' /\ StageInv(b)' /\ CopyInv(b)'
  BY <1>1, <1>3, AgentParts, OtherAgents, OtherStages, OtherCopies
<1> QED
  BY <1>1, <1>2, <1>3, <1>4 DEF ReplInv

\* The data is copied into the replica that the agent holds the lock for.
LEMMA CopyTouches ==
    ASSUME ReplInv, OrderlyReplications, NEW a \in Pids, DataObjCopy(a)
    PROVE  /\ Rests /\ excused' = excused /\ Holder(a) /\ pc[a] = "open" /\ ~ At(a, "none")
           /\ l1[a].target = repl[a].dest
           /\ contents' \in [Replicas -> Versions]
           /\ \A r \in Replicas \ {l1[a].target} : contents'[r] = contents[r]
<1>0. contents \in [Replicas -> Versions] /\ StageInv(a) /\ OwnInv(a)
  BY AgentParts DEF SharedOK
<1>1. At(a, "destination") /\ pc[a] = "open" /\ Rests /\ excused' = excused
  BY DEF DataObjCopy, Rests
<1>2. Holder(a) /\ l1[a].target = repl[a].dest /\ repl[a].source \in Replicas
  BY <1>0, <1>1, PastTheLock DEF StageInv, At, Copying, Present
<1>3. PICK v \in Versions : contents' = [contents EXCEPT ![repl[a].dest] = v]
  BY <1>0, <1>2 DEF DataObjCopy, Fresh
<1> QED
  BY <1>0, <1>1, <1>2, <1>3 DEF At

LEMMA CopyKeepsInv ==
    ASSUME ReplInv, OrderlyReplications, NEW a \in Pids, DataObjCopy(a)
    PROVE  ReplInv'
<1> DEFINE q == repl[a]
           d == repl[a].dest
<1>0. repl = [b \in Pids |-> repl[b]] /\ StageInv(a) /\ OwnInv(a) /\ contents \in [Replicas -> Versions]
  BY AgentParts DEF ReplInv, SharedOK
<1>1. /\ Rests /\ Holder(a) /\ pc[a] = "open" /\ l1[a].target = d
      /\ contents' \in [Replicas -> Versions]
      /\ \A r \in Replicas \ {d} : contents'[r] = contents[r]
      /\ OthersKeep(a) /\ Present(catalog') = Present(catalog) /\ AgentInv(a)'
  BY CopyTouches, RestKeepsAgents, AgentParts
<1>2. BaseInv' /\ LockInv' /\ WrittenInv' /\ QuietInv' /\ UnlistedInv' /\ TableHeld'
  BY <1>1, RestKeepsAccess DEF ReplInv
<1>3. PICK st \in {"copied", "copy_failed"} :
        AtStage(a, st, d, q.seen) /\ (st = "copy_failed" => MayLeaveEntry(a))
  BY DEF DataObjCopy
<1>4. /\ repl'[a].stage = st /\ repl'[a].source = q.source /\ repl'[a].todo = q.todo
      /\ repl'[a].dest = d /\ repl'[a].seen = q.seen
      /\ \A b \in Pids \ {a} : repl'[b] = repl[b]
      /\ repl' = [b \in Pids |-> repl'[b]]
  BY <1>0, <1>3, NextStage, SMT
<1>5. /\ At(a, "destination") /\ q.source \in Present(catalog) \ q.todo /\ q.todo \subseteq Replicas
      /\ d \in q.todo /\ ~ l1[a].wrote
  BY <1>0, <1>1 DEF DataObjCopy, StageInv, At, Copying
<1>6. StageInv(a)'
  <2>1. st = "copy_failed" => q.todo = {d}
    BY <1>3 DEF MayLeaveEntry, OrderlyReplications
  <2>2. st \notin Looking /\ st \in Copying /\ st # "destination" /\ st # "none" /\ pc'[a] = "open" /\ l1'[a] = l1[a]
    BY <1>1, <1>3 DEF Looking, Copying, Rests
  <2> QED
    BY <1>1, <1>4, <1>5, <2>1, <2>2 DEF StageInv, At
<1>7. CopyInv(a)'
  <2> SUFFICES ASSUME At(a, "copied")', SourceUnchanged(a)'
               PROVE  contents'[repl'[a].dest] = contents'[repl'[a].source]
    BY DEF CopyInv
  <2>0. st = "copied" /\ contents'[q.source] \in q.seen
    BY <1>4 DEF At, SourceUnchanged
  <2>1. q.source \in Replicas \ {d} /\ d \in Replicas
    BY <1>5 DEF Present
  <2>2. contents'[q.source] = contents[q.source]
    BY <1>1, <2>1
  <2>3. SourceUnchanged(a)
    BY <2>0, <2>2 DEF SourceUnchanged
  <2>4. ~ AtStage(a, "copy_failed", d, q.seen)
    <3>1. repl'[a].stage # "copy_failed"
      BY <1>4, <2>0
    <3> QED
      BY <1>0, <3>1, NextStage, SMT
  <2>5. contents' = [contents EXCEPT ![d] = contents[q.source]]
    BY <2>3, <2>4 DEF DataObjCopy
  <2> QED
    BY <1>0, <1>4, <2>1, <2>2, <2>5
<1>8. ASSUME NEW b \in Pids \ {a} PROVE AgentInv(b)' /\ StageInv(b)' /\ CopyInv(b)'
  <2>1. AgentInv(b)' /\ StageInv(b)'
    BY <1>1, <1>4, AgentParts, OtherAgents, OtherStages
  <2>2. ~ At(b, "copied")'
    <3>1. At(b, "copied") => Holder(b)
      BY AgentParts, PastTheLock DEF StageInv
    <3> QED
      BY <1>1, <1>4, <3>1, OneHolds DEF At
  <2> QED
    BY <2>1, <2>2 DEF CopyInv
<1> QED
  BY <1>1, <1>2, <1>4, <1>6, <1>7, <1>8 DEF ReplInv
=============================================================================
