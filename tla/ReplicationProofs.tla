-------------------------- MODULE ReplicationProofs --------------------------
(***************************************************************************)
(* The end of a replication, which gives the lock back and decides what    *)
(* the destination is, and the theorems on replications: the lock is held  *)
(* and given back, and the access table is left, as by writers; the        *)
(* catalog shows the sessions of ReplicatedSession; and good replicas hold *)
(* the same data unless a replication is excused.                          *)
(***************************************************************************)
EXTENDS ReplicationInvariant

\* Zenon proves most leaves; those that need another prover cite it.
USE ZenonT(30)

-----------------------------------------------------------------------------
(* The end of a replication gives the lock back: the destination becomes   *)
(* stale, or what the source was, and the other replicas what they were.   *)

Ends(a) == FinalizeOnFailure(a) \/ FinalizeNotVerified(a) \/ FinalizeDestinationReplica(a)

EndsWith(a, s) ==
    LET e == UnlockTarget(rst[a], l1[a].target, s, "restore") IN
    /\ catalog' = Publish(catalog, e) /\ g_map' = g_map /\ info' = info
    /\ pc' = [pc EXCEPT ![a] = "idle"] /\ l1' = [l1 EXCEPT ![a] = NoDesc]
    /\ \/ rst' = [rst EXCEPT ![a] = NoEntry]
       \/ rst' = [rst EXCEPT ![a] = e] /\ repl[a].todo = {repl[a].dest}
    /\ LeaveDestination(a, repl[a].dest)

LEMMA PublishedOnly ==
    ASSUME OrderlyReplications, NEW e, NEW c \in Published(e)
    PROVE  c = Publish(catalog, e)
BY DEF Published, OrderlyReplications, SessionEnds, QuietEnds

LEMMA EndingAgent ==
    ASSUME ReplInv, NEW a \in Pids, Ends(a)
    PROVE  /\ pc[a] = "closing" /\ Holder(a) /\ ~ At(a, "none") /\ l1[a].target = repl[a].dest
           /\ rst[a].after = catalog /\ LockedFor(repl[a].dest)
           /\ repl[a].dest \in Present(catalog) /\ repl[a].source \in Present(catalog) \ {repl[a].dest}
           /\ catalog[repl[a].source].original \in AtRestStatus
<1>1. /\ pc[a] = "closing" /\ ~ At(a, "none") /\ repl[a].stage \in {"copied", "copy_failed"}
      /\ StageInv(a) /\ OwnInv(a) /\ QuietInv
  BY AgentParts DEF Ends, FinalizeOnFailure, FinalizeNotVerified, FinalizeDestinationReplica, At, ReplInv
<1>2. Holder(a)
  BY <1>1, PastTheLock
<1>3. /\ l1[a].target = repl[a].dest /\ repl[a].source \in Present(catalog) \ repl[a].todo
      /\ repl[a].dest \in repl[a].todo
  BY <1>1 DEF StageInv, Copying
<1>4. rst[a].after = catalog /\ LockedFor(l1[a].target) /\ l1[a].target \in Present(catalog)
  BY <1>1, <1>2 DEF OwnInv, HolderInv
<1>5. catalog[repl[a].source].original \in AtRestStatus
  BY <1>1, <1>2, <1>3 DEF QuietInv
<1> QED
  BY <1>1, <1>2, <1>3, <1>4, <1>5

\* A replication that failed leaves its destination stale, and an entry in the
\* replica state table with its last destination only.
LEMMA FailureIsStale ==
    ASSUME ReplInv, OrderlyReplications, NEW a \in Pids, FinalizeOnFailure(a) \/ FinalizeNotVerified(a)
    PROVE  EndsWith(a, "stale")
<1>0. l1[a].target = repl[a].dest /\ StageInv(a)
  BY EndingAgent, AgentParts DEF Ends
<1>1. repl[a].todo = {repl[a].dest}
  BY <1>0 DEF FinalizeOnFailure, FinalizeNotVerified, MayLeaveEntry, OrderlyReplications, StageInv
<1>2. /\ catalog' = Publish(catalog, FailedEntry(a))
      /\ rst' = [rst EXCEPT ![a] = FailedEntry(a)]
      /\ pc' = [pc EXCEPT ![a] = "idle"] /\ l1' = [l1 EXCEPT ![a] = NoDesc]
      /\ LeaveDestination(a, repl[a].dest) /\ g_map' = g_map /\ info' = info
  BY PublishedOnly DEF FinalizeOnFailure, FinalizeNotVerified
<1>3. FailedEntry(a) = UnlockTarget(rst[a], l1[a].target, "stale", "restore")
  BY <1>0 DEF FailedEntry
<1> QED
  BY <1>1, <1>2, <1>3 DEF EndsWith

LEMMA EndingStatus ==
    ASSUME ReplInv, OrderlyReplications, NEW a \in Pids, Ends(a)
    PROVE  \E s \in AtRestStatus :
                /\ EndsWith(a, s)
                /\ s = "stale" \/ s = catalog[repl[a].source].original
<1> DEFINE d == repl[a].dest
           o == catalog[repl[a].source].original
<1>0. /\ l1[a].target = d /\ rst[a].after = catalog /\ d \in Present(catalog) /\ o \in AtRestStatus
      /\ rst[a] \in RstEntry /\ StageInv(a) /\ "stale" \in AtRestStatus
  BY EndingAgent, AgentParts DEF AtRestStatus
<1>1. ASSUME FinalizeOnFailure(a) \/ FinalizeNotVerified(a) PROVE EndsWith(a, "stale")
  BY <1>1, FailureIsStale
<1>2. ASSUME FinalizeDestinationReplica(a) PROVE EndsWith(a, o) \/ EndsWith(a, "stale")
  <2>1. ReplicatedEntry(a) = UnlockTarget(rst[a], l1[a].target, o, "restore")
    BY <1>0 DEF ReplicatedEntry
  <2>2. SetStatus(ReplicatedEntry(a), d, "stale") = UnlockTarget(rst[a], l1[a].target, "stale", "restore")
    <3>1. SetStatus(UnlockTarget(rst[a], d, o, "restore"), d, "stale") = UnlockTarget(rst[a], d, "stale", "restore")
      BY <1>0, SetStaleIsUnlock
    <3> QED
      BY <1>0, <2>1, <3>1
  <2>3. /\ rst' = [rst EXCEPT ![a] = NoEntry]
        /\ pc' = [pc EXCEPT ![a] = "idle"] /\ l1' = [l1 EXCEPT ![a] = NoDesc]
        /\ LeaveDestination(a, d) /\ g_map' = g_map /\ info' = info
    BY <1>2 DEF FinalizeDestinationReplica, Done
  <2>4. \/ catalog' = Publish(catalog, ReplicatedEntry(a))
        \/ catalog' = Publish(catalog, SetStatus(ReplicatedEntry(a), d, "stale"))
    BY <1>2, PublishedOnly DEF FinalizeDestinationReplica
  <2> QED
    BY <2>1, <2>2, <2>3, <2>4 DEF EndsWith
<1> QED
  BY <1>0, <1>1, <1>2 DEF Ends

LEMMA EndTouches ==
    ASSUME ReplInv, NEW a \in Pids, Ends(a)
    PROVE  /\ contents' \in [Replicas -> Versions]
           /\ \A r \in Replicas \ {repl[a].dest} : contents'[r] = contents[r]
<1>1. contents \in [Replicas -> Versions]
  BY AgentParts DEF SharedOK
<1>2. contents' = contents \/ \E v \in Versions : contents' = [contents EXCEPT ![repl[a].dest] = v]
  BY DEF Ends, FinalizeOnFailure, FinalizeNotVerified, FinalizeDestinationReplica, Fresh
<1> QED
  BY <1>1, <1>2

\* What the end of a replication does to the rows, and that the object is
\* unlocked then.
LEMMA EndedRows ==
    ASSUME ReplInv, OrderlyReplications, NEW a \in Pids, Ends(a), NEW s \in AtRestStatus, EndsWith(a, s)
    PROVE  /\ OthersKeep(a) /\ pc'[a] = "idle" /\ l1'[a] = NoDesc
           /\ Present(catalog') = Present(catalog) /\ \A b \in Pids : ~ Holder(b)'
           /\ \A r \in Replicas \ Present(catalog) : catalog'[r] = catalog[r]
           /\ \A r \in Present(catalog) :
                /\ catalog'[r].status = IF r = repl[a].dest THEN s ELSE SiblingStatus(catalog[r], "restore")
                /\ catalog'[r].original = "none"
                /\ AtRest(catalog'[r])
<1>0. /\ SharedOK /\ AgentsOK /\ AgentStatus(a) /\ BaseInv /\ LockInv /\ QuietInv /\ OrderlyOpens
      /\ Holder(a) /\ pc[a] = "closing" /\ rst[a].after = catalog /\ l1[a].target = repl[a].dest
      /\ s \in GivenBack /\ s # "restore"
  BY AgentParts, EndingAgent DEF ReplInv, OrderlyReplications, AtRestStatus, GivenBack
<1>1. OthersKeep(a) /\ pc'[a] = "idle" /\ l1'[a] = NoDesc
  <2>1. OthersKeep(a)
    BY <1>0, OnlyOneMoves DEF EndsWith
  <2> QED
    BY <1>0, <2>1 DEF EndsWith, AgentsOK
<1>2. Ended(a, s, "restore")
  <2>1. s = TargetStatus(catalog[l1[a].target], s)
    BY <1>0 DEF TargetStatus
  <2> QED
    BY <1>0, <2>1, PublishEnded DEF EndsWith
<1>3. /\ Present(catalog') = Present(catalog) /\ \A b \in Pids : ~ Holder(b)'
      /\ \A r \in Replicas \ Present(catalog) : catalog'[r] = catalog[r]
      /\ \A r \in Present(catalog) :
            /\ catalog'[r].status = IF r = l1[a].target THEN s ELSE SiblingStatus(catalog[r], "restore")
            /\ catalog'[r].original = "none"
  BY <1>0, <1>1, <1>2, UnlockedRows
<1>4. \A r \in Present(catalog') : AtRest(catalog'[r])
  BY <1>0, <1>1, <1>2, UnlockedAtRest
<1> QED
  BY <1>0, <1>1, <1>3, <1>4

LEMMA EndKeepsBase ==
    ASSUME ReplInv, OrderlyReplications, NEW a \in Pids, Ends(a), NEW s \in AtRestStatus, EndsWith(a, s)
    PROVE  BaseInv'
<1> DEFINE e == UnlockTarget(rst[a], l1[a].target, s, "restore")
<1>0. /\ SharedOK /\ AgentsOK /\ ProperRows(catalog) /\ rst[a] \in RstEntry /\ AgentStatus(a)
      /\ Holder(a) /\ AgentInv(a) /\ BaseInv /\ l1[a].target \in Replicas
      /\ s \in GivenBack /\ s \in Stored
  BY AgentParts, EndingAgent, AgentSelf DEF ReplInv, AtRestStatus, GivenBack, Stored, Status
<1>1. OthersKeep(a) /\ pc'[a] = "idle" /\ l1'[a] = NoDesc
  BY EndedRows
<1>2. e \in RstEntry
  BY <1>0, UnlockTargetType
<1>3. ProperEntry(e) /\ e.before = rst[a].before
  BY <1>0, UnlockTargetProper DEF AgentStatus
<1>4. SharedOK'
  <2>1. catalog' \in Rows
    BY <1>0, <1>2, PublishType DEF EndsWith, SharedOK
  <2> QED
    BY <1>0, <2>1, EndTouches DEF EndsWith, SharedOK, OneTokenPerReplica
<1>5. AgentsOK'
  <2>1. "idle" \in PC /\ NoDesc \in Descriptor /\ NoEntry \in RstEntry /\ NoRows \in Rows
    BY NoDescType, NoRowsType DEF PC
  <2>2. rst' = [rst EXCEPT ![a] = NoEntry] \/ rst' = [rst EXCEPT ![a] = e]
    BY DEF EndsWith
  <2>3. /\ pc' = [pc EXCEPT ![a] = "idle"] /\ l1' = [l1 EXCEPT ![a] = NoDesc] /\ info' = info
    BY DEF EndsWith
  <2> QED
    BY <1>0, <1>2, <2>1, <2>2, <2>3, AgentMoves
<1>6. StatusInv'
  <2>1. ProperRows(catalog')
    BY <1>0, <1>2, <1>3, PublishProper DEF EndsWith, SharedOK, ProperEntry
  <2>2. rst'[a] = NoEntry \/ rst'[a] = e
    BY <1>0 DEF EndsWith, AgentsOK
  <2>3. ProperEntry(rst'[a]) /\ \A r \in Replicas : rst'[a].before[r] # "write_locked"
    <3>1. CASE rst'[a] = NoEntry
      <4>1. \A r \in Replicas : NoEntry.before[r] # "write_locked"
        BY SMT DEF NoEntry
      <4> QED
        BY <3>1, <4>1, NoEntryProper
    <3>2. CASE rst'[a] = e
      BY <1>0, <1>3, <3>2 DEF AgentInv
    <3> QED
      BY <2>2, <3>1, <3>2
  <2>4. AgentStatus(a)'
    <3>1. NoDesc.mode = "read"
      BY SMT DEF NoDesc, Desc
    <3>2. ~ ClosesByReplica /\ info'[a] = info[a]
      BY DEF OrderlyReplications, SessionEnds, ClosesByReplica, EndsWith
    <3>3. l1'[a].mode = "read" /\ pc'[a] = "idle"
      BY <1>1, <3>1
    <3>4. /\ ProperRows(info'[a]) /\ ProperEntry(rst'[a])
          /\ \A r \in Replicas : rst'[a].before[r] # "write_locked"
      BY <1>0, <2>3, <3>2 DEF AgentStatus
    <3> QED
      BY <3>2, <3>3, <3>4 DEF AgentStatus, CreatePC
  <2>5. ASSUME NEW b \in Pids \ {a} PROVE AgentStatus(b)'
    BY <1>0, <1>1 DEF BaseInv, StatusInv, AgentStatus, OthersKeep, Joined
  <2> QED
    BY <2>1, <2>4, <2>5 DEF StatusInv
<1>7. ListedInv'
  <2>1. Listed(a)'
    BY <1>1 DEF Listed, ListedPC
  <2>2. ASSUME NEW b \in Pids \ {a} PROVE Listed(b)'
    BY <1>0, <1>1 DEF BaseInv, ListedInv, Listed, OthersKeep, EndsWith
  <2> QED
    BY <2>1, <2>2 DEF ListedInv
<1> QED
  BY <1>4, <1>5, <1>6, <1>7 DEF BaseInv

LEMMA EndKeepsLocking ==
    ASSUME ReplInv, OrderlyReplications, NEW a \in Pids, Ends(a), NEW s \in AtRestStatus, EndsWith(a, s)
    PROVE  LockInv'
<1>0. /\ pc[a] = "closing" /\ Holder(a) /\ \A b \in Pids : OwnInv(b) /\ AgentStatus(b) /\ NewReplica(b)
      /\ OneOpening /\ RatPresent /\ "undisciplined" \notin Clients
  BY AgentParts, EndingAgent DEF ReplInv, LockInv, OrderlyReplications, OrderlyOpens
<1>1. /\ OthersKeep(a) /\ pc'[a] = "idle" /\ l1'[a] = NoDesc /\ Present(catalog') = Present(catalog)
      /\ g_map' = g_map
  BY EndedRows DEF EndsWith
<1>2. KeepsLocks(a)
  BY <1>0, <1>1, HolderLeaves
<1>3. ASSUME NEW b \in Pids PROVE OwnInv(b)'
  <2>1. CASE b = a
    BY <1>2, <2>1 DEF KeepsLocks
  <2>2. CASE b # a
    BY <1>0, <1>1, <1>2, <2>2, OthersKeepInv DEF KeepsLocks
  <2> QED
    BY <2>1, <2>2
<1>4. OneOpening'
  <2>1. \A b \in Pids : Opening(b)' => Opening(b)
    BY <1>1 DEF Opening, OthersKeep
  <2> QED
    BY <1>0, <2>1 DEF OneOpening
<1>5. RatPresent'
  BY <1>0, <1>1 DEF RatPresent
<1>6. ASSUME NEW b \in Pids PROVE NewReplica(b)'
  <2>1. ASSUME l1'[b].mode = "create", pc'[b] \in {"registered", "rat_create"} PROVE FALSE
    <3>1. b # a
      BY <1>1, <2>1
    <3>2. Holder(b)
      BY <1>1, <2>1, <3>1, PastTheLock DEF OthersKeep
    <3> QED
      BY <1>0, <3>1, <3>2, OneHolds
  <2> QED
    BY <2>1 DEF NewReplica
<1> QED
  BY <1>3, <1>4, <1>5, <1>6 DEF LockInv

LEMMA EndingKeepsInv ==
    ASSUME ReplInv, OrderlyReplications, NEW a \in Pids, Ends(a)
    PROVE  ReplInv'
<1>0. PICK s \in AtRestStatus : EndsWith(a, s)
  BY EndingStatus
<1>1. BaseInv' /\ LockInv'
  BY <1>0, EndKeepsBase, EndKeepsLocking
<1>2. /\ OthersKeep(a) /\ pc'[a] = "idle" /\ l1'[a] = NoDesc /\ Present(catalog') = Present(catalog)
      /\ (\A b \in Pids : ~ Holder(b)') /\ g_map' = g_map
      /\ \A r \in Present(catalog) : AtRest(catalog'[r])
  BY <1>0, EndedRows DEF EndsWith
<1>3. NoDesc.mode = "read" /\ NoDesc.token = NoToken /\ ~ NoDesc.wrote
  BY SMT DEF NoDesc, Desc
<1>4. QuietInv'
  BY <1>2 DEF QuietInv
<1>5. WrittenInv'
  BY <1>2, <1>3 DEF ReplInv, WrittenInv, WroteInv, OthersKeep
<1>6. TableHeld'
  BY <1>2 DEF ReplInv, TableHeld
<1>7. UnlistedInv'
  <2>1. Reader(a)'
    BY <1>2, <1>3 DEF Reader, CreatePC
  <2>2. Unlisted(a)'
    <3>1. Unlisted(a) /\ pc[a] \notin ListedPC
      BY AgentParts, EndingAgent DEF ListedPC
    <3> QED
      BY <1>2, <3>1, NowhereListed
  <2>3. ASSUME NEW b \in Pids \ {a} PROVE Reader(b)' /\ Unlisted(b)'
    <3>1. Reader(b) /\ Unlisted(b) /\ info'[b] = info[b] /\ pc'[b] = pc[b] /\ l1'[b] = l1[b]
      BY <1>2, AgentParts DEF OthersKeep
    <3>2. Reader(b)'
      BY <3>1 DEF Reader
    <3>3. Unlisted(b)'
      BY <1>2, <3>1 DEF Unlisted
    <3> QED
      BY <3>2, <3>3
  <2> QED
    BY <2>1, <2>2, <2>3 DEF UnlistedInv
<1>8. AgentInv(a)'
  BY <1>2, <1>3 DEF AgentInv, Places
<1>9. /\ StageInv(a)' /\ ~ At(a, "copied")'
      /\ \A b \in Pids \ {a} : repl'[b] = repl[b]
      /\ repl' = [b \in Pids |-> repl'[b]]
  <2>1. /\ repl = [b \in Pids |-> repl[b]] /\ LeaveDestination(a, repl[a].dest) /\ StageInv(a)
        /\ ~ At(a, "none") /\ (rst'[a] = NoEntry \/ repl[a].todo = {repl[a].dest})
    BY <1>0, AgentParts, EndingAgent DEF ReplInv, EndsWith, AgentsOK
  <2> QED
    BY <1>2, <2>1, DestinationLeft
<1>10. ASSUME NEW b \in Pids \ {a} PROVE AgentInv(b)' /\ StageInv(b)' /\ CopyInv(b)'
  <2>1. AgentInv(b)' /\ StageInv(b)'
    BY <1>2, <1>9, AgentParts, OtherAgents, OtherStages
  <2>2. ~ At(b, "copied")'
    <3>1. At(b, "copied") => Holder(b)
      BY AgentParts, PastTheLock DEF StageInv
    <3> QED
      BY <1>9, <3>1, EndingAgent, OneHolds DEF At
  <2> QED
    BY <2>1, <2>2 DEF CopyInv
<1> QED
  BY <1>1, <1>4, <1>5, <1>6, <1>7, <1>8, <1>9, <1>10 DEF ReplInv, CopyInv

-----------------------------------------------------------------------------
(* The invariant.                                                          *)

LEMMA ReplicationKinds ==
    ASSUME NEW a,
           \/ WriteRequest(a) \/ WriterStep(a) \/ Disconnect(a)
           \/ \E s \in Replicas : ResolveSource(a, s)
           \/ ReplicationStep(a)
    PROVE  Works(a) \/ Looks(a) \/ DataObjCopy(a) \/ Ends(a)
BY DEF Works, Looks, Ends, ReplicationStep

LEMMA ReplStep ==
    ASSUME OrderlyReplications, ReplInv, [RNext]_rvars
    PROVE  ReplInv'
<1>1. CASE UNCHANGED rvars
  <2>1. Rests /\ contents' = contents /\ repl' = repl
    BY <1>1 DEF rvars, vars, Rests
  <2>2. contents \in [Replicas -> Versions]
    BY DEF ReplInv, BaseInv, SharedOK
  <2>3. BaseInv' /\ LockInv' /\ WrittenInv' /\ QuietInv' /\ UnlistedInv' /\ TableHeld'
    BY <2>1, <2>2, RestKeepsAccess DEF ReplInv
  <2>4. ASSUME NEW b \in Pids PROVE AgentInv(b)' /\ StageInv(b)' /\ CopyInv(b)'
    <3>1. StageInv(b)'
      BY <2>1, AgentParts DEF StageInv, At, Rests
    <3> QED
      BY <2>1, <3>1, AgentParts, RestKeepsAgents, OtherCopies
  <2> QED
    BY <2>1, <2>3, <2>4 DEF ReplInv
<1>2. CASE RNext
  BY <1>2, ReplicationKinds, WorkKeepsInv, LookKeepsInv, CopyKeepsInv, EndingKeepsInv DEF RNext
<1> QED
  BY <1>1, <1>2

LEMMA ReplInit == RInit => ReplInv
<1> SUFFICES ASSUME RInit PROVE ReplInv
  OBVIOUS
<1>0. Init /\ repl = [a \in Pids |-> NoReplication]
  BY DEF RInit
<1>1. BaseInv /\ LockInv /\ WrittenInv /\ QuietInv /\ UnlistedInv
  <2>1. FullInv
    BY <1>0, FullInit
  <2> QED
    BY <1>0, <2>1, BaseOfFull, WrittenInit, QuietInit, InitUnlisted
<1>2. TableHeld
  BY <1>0, SMT DEF Init, TableHeld
<1>3. ASSUME NEW a \in Pids PROVE AgentInv(a) /\ StageInv(a) /\ CopyInv(a)
  <2>1. pc[a] = "idle" /\ l1[a] = NoDesc /\ repl[a] = NoReplication /\ ~ Holder(a)
    BY <1>0, RestInit DEF Init
  <2>2. NoDesc.token = NoToken /\ NoReplication.stage = "none" /\ NoReplication.todo = {}
    BY SMT DEF NoDesc, Desc, NoReplication, Replicating
  <2> QED
    BY <2>1, <2>2 DEF AgentInv, StageInv, CopyInv, At, Places, Looking, Copying
<1> QED
  BY <1>0, <1>1, <1>2, <1>3 DEF ReplInv

\* Writers and replications have the object locked from the end of their open to
\* the end of their close, whoever else writes or replicates it.
THEOREM ReplicationsHoldTheLock == OrderlyReplications => (RSpec => []WritersHoldTheLock)
<1> SUFFICES ASSUME OrderlyReplications PROVE RSpec => []WritersHoldTheLock
  OBVIOUS
<1>1. ReplInv /\ [RNext]_rvars => ReplInv'
  BY ReplStep
<1>2. ReplInv => WritersHoldTheLock
  <2> SUFFICES ASSUME ReplInv, NEW a \in Pids, Writing(a) PROVE LockedFor(l1[a].target)
    BY DEF WritersHoldTheLock, LockedFor
  <2>1. OwnInv(a) /\ Holder(a)
    BY AgentParts, PastTheLock DEF Writing, AgentInv, Places
  <2> QED
    BY <2>1 DEF OwnInv, HolderInv
<1> QED
  BY <1>1, <1>2, ReplInit, PTL DEF RSpec

\* Whatever fails in a replication but its catalog updates, and however it races
\* with others, the object is unlocked when everybody is between requests.  The
\* writers are those of LocksAreGivenBack: no rsDataObjClose throws before it
\* unlocks (OrderlyReplications, through SessionEnds and QuietEnds).
THEOREM ReplicationsGiveTheLockBack == OrderlyReplications => (RSpec => []QuiescentIsAtRest)
<1> SUFFICES ASSUME OrderlyReplications PROVE RSpec => []QuiescentIsAtRest
  OBVIOUS
<1>1. ReplInv /\ [RNext]_rvars => ReplInv'
  BY ReplStep
<1>2. ReplInv => QuiescentIsAtRest
  BY NotHolder DEF ReplInv, QuietInv, QuiescentIsAtRest
<1> QED
  BY <1>1, <1>2, ReplInit, PTL DEF RSpec

\* The access table lists exactly the writers and replications that have a
\* replica open, although replications leave it in a step of their own.
THEOREM ReplicationsLeaveTheTable == OrderlyReplications => (RSpec => []TableMatchesDescriptors)
<1> SUFFICES ASSUME OrderlyReplications PROVE RSpec => []TableMatchesDescriptors
  OBVIOUS
<1>1. ReplInv /\ [RNext]_rvars => ReplInv'
  BY ReplStep
<1>2. ReplInv => TableMatchesDescriptors
  BY ExactTable DEF ReplInv, BaseInv
<1> QED
  BY <1>1, <1>2, ReplInit, PTL DEF RSpec

-----------------------------------------------------------------------------
(* Sessions.                                                               *)

\* The two instances of WriteSession are the same.
LEMMA SameSession ==
    /\ Session!session = RSession!session
    /\ Session!Init => RSession!Init
    /\ Session!Next => RSession!Next
<1>1. Session!session = RSession!session /\ (Session!Init => RSession!Init)
  BY DEF Session!session, RSession!session, Session!Init, RSession!Init
<1>2. Session!Begin => RSession!Begin
  BY DEF Session!Begin, RSession!Begin
<1>3. Session!Register => RSession!Register
  BY DEF Session!Register, RSession!Register
<1>4. Session!Over => RSession!Over
  BY DEF Session!Over, RSession!Over
<1>5. (Session!Commit => RSession!Commit) /\ (Session!Abort => RSession!Abort)
  BY <1>4 DEF Session!Commit, RSession!Commit, Session!Abort, RSession!Abort
<1> QED
  BY <1>1, <1>2, <1>3, <1>5 DEF Session!Next, RSession!Next

\* The destination joins the good replicas, or is lost.
LEMMA EndsReplicatedSession ==
    ASSUME ReplInv, OrderlyReplications, NEW a \in Pids, Ends(a)
    PROVE  RSession!Abort \/ RSession!Replicated
<1> DEFINE d == repl[a].dest
           x == repl[a].source
<1>0. /\ Holder(a) /\ pc[a] = "closing" /\ l1[a].target = d /\ OwnInv(a) /\ d \in Present(catalog)
      /\ x \in Present(catalog) \ {d} /\ catalog[x].original \in AtRestStatus
  BY EndingAgent, AgentParts
<1>1. PICK s \in AtRestStatus : EndsWith(a, s) /\ (s = "stale" \/ s = catalog[x].original)
  BY EndingStatus
<1>2. /\ Present(catalog') = Present(catalog)
      /\ \A r \in Present(catalog) :
            /\ catalog'[r].status = IF r = d THEN s ELSE SiblingStatus(catalog[r], "restore")
            /\ catalog'[r].original = "none"
            /\ AtRest(catalog'[r])
  BY <1>1, EndedRows
<1>3. Locked /\ SessionTarget = d
  BY <1>0, SessionOfHolder DEF HolderShows
<1>4. ~ Locked' /\ SessionTarget' = NoReplica
  BY <1>2, PrimedShows DEF RestShows
<1>5. RSession!Over
  BY <1>2, <1>4, LockedIsBoolean DEF RSession!Over
<1>6. ASSUME NEW r \in Present(catalog)
      PROVE  Underlying(catalog'[r]) = IF r = d THEN s ELSE Underlying(catalog[r])
  BY <1>2 DEF Underlying, SiblingStatus, RestoredSibling
<1>7. CASE s = "stale"
  <2>1. GoodReplicas' = GoodReplicas \ {d}
    <3>1. ASSUME NEW r \in Present(catalog)
          PROVE  Underlying(catalog'[r]) = "good" <=> r # d /\ Underlying(catalog[r]) = "good"
      BY <1>6, <1>7
    <3> QED
      BY <1>2, <3>1 DEF GoodReplicas
  <2> QED
    BY <1>3, <1>5, <2>1 DEF RSession!Abort
<1>8. CASE s = "good" /\ catalog[x].original = "good"
  <2>1. GoodReplicas' = GoodReplicas \cup {d}
    <3>1. ASSUME NEW r \in Present(catalog)
          PROVE  Underlying(catalog'[r]) = "good" <=> r = d \/ Underlying(catalog[r]) = "good"
      BY <1>6, <1>8
    <3> QED
      BY <1>0, <1>2, <3>1 DEF GoodReplicas
  <2>2. x \in GoodReplicas \ {d}
    BY <1>0, <1>8 DEF GoodReplicas, Underlying
  <2>3. d # NoReplica
    BY <1>0, DistinctAssumption DEF Present
  <2> QED
    BY <1>3, <1>5, <2>1, <2>2, <2>3 DEF RSession!Replicated
<1> QED
  BY <1>1, <1>7, <1>8 DEF AtRestStatus

LEMMA ReplicatedSessionStep ==
    ASSUME OrderlyReplications, ReplInv, [RNext]_rvars
    PROVE  [RSession!Next \/ RSession!Replicated]_(RSession!session)
<1>1. ASSUME catalog' = catalog PROVE UNCHANGED RSession!session
  <2>1. UNCHANGED Session!session
    BY <1>1, SessionStutter
  <2> QED
    BY <2>1 DEF Session!session, RSession!session
<1>2. CASE UNCHANGED rvars
  BY <1>1, <1>2 DEF rvars, vars
<1>3. ASSUME NEW a \in Pids, Works(a) PROVE [RSession!Next]_(RSession!session)
  <2>1. [Session!Next]_(Session!session)
    <3>1. /\ OrderlyOpens /\ SessionEnds /\ BaseInv /\ LockInv /\ WroteInv(a) /\ QuietInv
          /\ AgentStep(a) /\ (Request(a) => CleanStart(a))
      BY <1>3, WorkIsStep, AgentParts DEF OrderlyReplications, ReplInv
    <3> QED
      BY <3>1, AgentSession
  <2>2. (UNCHANGED Session!session) => UNCHANGED RSession!session
    BY DEF Session!session, RSession!session
  <2> QED
    BY <2>1, <2>2, SameSession
<1>4. ASSUME NEW a \in Pids, Looks(a) \/ DataObjCopy(a) PROVE UNCHANGED RSession!session
  BY <1>1, <1>4, LookRests, CopyTouches DEF Rests
<1>5. ASSUME NEW a \in Pids, Ends(a) PROVE RSession!Next \/ RSession!Replicated
  BY <1>5, EndsReplicatedSession DEF RSession!Next
<1>6. CASE RNext
  BY <1>3, <1>4, <1>5, <1>6, ReplicationKinds DEF RNext
<1> QED
  BY <1>2, <1>6

\* Writes and replications implement ReplicatedSession: whatever they read before
\* they locked, and however they fail, each is a session of its own, and a
\* replication takes the truth from no replica but its destination.
THEOREM ReplicationsAreSessions == OrderlyReplications => (RSpec => IsReplicatedSession)
<1> SUFFICES ASSUME OrderlyReplications PROVE RSpec => IsReplicatedSession
  OBVIOUS
<1>1. ReplInv /\ [RNext]_rvars => ReplInv'
  BY ReplStep
<1>2. ReplInv /\ [RNext]_rvars => [RSession!Next \/ RSession!Replicated]_(RSession!session)
  BY ReplicatedSessionStep
<1>3. RInit => RSession!Init
  BY SessionInit, SameSession DEF RInit
<1> QED
  BY <1>1, <1>2, <1>3, ReplInit, PTL DEF RSpec, IsReplicatedSession, RSession!ReplicatedSpec

-----------------------------------------------------------------------------
(* What good replicas hold.                                                *)

\* The replica was good when it was opened, and nothing has happened to it: if it
\* is closed now, or if its replication fails now, it is good again.
Untouched(r) ==
    \E a \in Pids : /\ Holder(a) /\ l1[a].mode = "write" /\ ~ l1[a].wrote
                    /\ l1[a].target = r /\ rst[a].before[r] = "good"
                    /\ At(a, "none") \/ pc[a] = "granted"

Trusted(r) == CountsAsGood(r) \/ Untouched(r)

TrustedAgree == ~ excused => \A r, s \in Replicas : Trusted(r) /\ Trusted(s) => contents[r] = contents[s]

LEMMA AbsentIsNotGood ==
    ASSUME ReplInv, NEW r \in Replicas \ Present(catalog)
    PROVE  ~ CountsAsGood(r)
<1>1. ProperRow(catalog[r]) /\ catalog[r].status = "absent"
  BY DEF ReplInv, BaseInv, StatusInv, ProperRows, Present
<1>2. catalog[r] = NoRow
  BY <1>1 DEF ProperRow, Status, AtRestStatus, LockStatus
<1>3. NoRow.status = "absent" /\ NoRow.original = "none"
  BY SMT DEF NoRow
<1> QED
  BY <1>2, <1>3 DEF CountsAsGood, Underlying

\* The replica that an agent has locked does not count, unless nothing has
\* happened to it.
LEMMA TargetIsNotGood ==
    ASSUME ReplInv, NEW a \in Pids, Holder(a)
    PROVE  ~ CountsAsGood(l1[a].target) \/ pc[a] = "creating"
<1>1. OwnInv(a)
  BY AgentParts
<1> QED
  BY <1>1 DEF OwnInv, HolderInv, LockedFor, CountsAsGood

\* What a step of an open or a close does to the replications.
LEMMA WorkKeepsPlan ==
    ASSUME ReplInv, NEW a \in Pids, Works(a)
    PROVE  /\ excused' = excused /\ \A b \in Pids \ {a} : repl'[b] = repl[b]
           /\ repl'[a] = repl[a] \/ repl'[a].stage = "destination"
<1>1. repl = [b \in Pids |-> repl[b]]
  BY DEF ReplInv
<1>2. CASE OpenDestinationReplica(a)
  BY <1>1, <1>2, NextStage DEF OpenDestinationReplica
<1> QED
  BY <1>2 DEF Works, WriteRequest, WriterStep, Disconnect, OpenDestinationStep, CloseReplicas

LEMMA StayingUntouched ==
    ASSUME ReplInv, OrderlyReplications, NEW a \in Pids, Works(a), Stays(a), NEW r, Untouched(r)'
    PROVE  Untouched(r)
<1>0. /\ OthersKeep(a) /\ GoesOn(a) /\ \A b \in Pids \ {a} : repl'[b] = repl[b]
      /\ repl'[a] = repl[a] \/ repl'[a].stage = "destination"
  BY WorkKeepsAccess, WorkGoesOn, WorkKeepsPlan
<1>1. PICK b \in Pids : /\ Holder(b)' /\ l1'[b].mode = "write" /\ ~ l1'[b].wrote
                        /\ l1'[b].target = r /\ rst'[b].before[r] = "good"
                        /\ repl'[b].stage = "none" \/ pc'[b] = "granted"
  BY DEF Untouched, At
<1>2. CASE b # a
  BY <1>0, <1>1, <1>2, RolesOfOthers DEF OthersKeep, Untouched, At
<1>3. CASE b = a
  <2>1. /\ Holder(a) /\ l1[a].mode = "write" /\ ~ l1[a].wrote
        /\ l1[a].target = r /\ rst[a].before[r] = "good"
    BY <1>1, <1>3 DEF Stays
  <2>2. pc'[a] # "granted"
    BY <1>0, <2>1, NotHolder DEF GoesOn
  <2>3. At(a, "none")
    BY <1>0, <1>1, <1>3, <2>2 DEF At
  <2> QED
    BY <2>1, <2>3 DEF Untouched
<1> QED
  BY <1>2, <1>3

\* A replica that is written to, created or truncated is not trusted.
LEMMA TouchedIsNotTrusted ==
    ASSUME ReplInv, OrderlyReplications, NEW a \in Pids, Works(a), contents' # contents,
           NEW t, t = l1[a].target
    PROVE  ~ Trusted(t)'
<1>0. /\ Stays(a) /\ Holder(a) /\ AgentsOK /\ AgentStatus(a) /\ catalog' = catalog /\ OthersKeep(a)
      /\ \/ Write(a) \/ CreatePhysicalFile(a)
         \/ TruncateReplica(a) /\ At(a, "destination") /\ pc'[a] = "opened"
  BY WorkTouches, AgentParts, WorkKeepsAccess DEF Stays
<1>1. ~ CountsAsGood(t)
  BY <1>0, TargetIsNotGood DEF Write, CreatePhysicalFile, TruncateReplica
<1>2. ASSUME NEW b \in Pids, Holder(b)', l1'[b].mode = "write", ~ l1'[b].wrote,
             repl'[b].stage = "none" \/ pc'[b] = "granted"
      PROVE  FALSE
  <2>1. b = a
    <3>1. b # a => Holder(b)
      BY <1>0, <1>2, RolesOfOthers
    <3> QED
      BY <1>0, <3>1, OneHolds
  <2>2. Write(a) => l1'[a].wrote
    BY <1>0, SMT DEF Write, Written, Desc, AgentsOK
  <2>3. CreatePhysicalFile(a) => l1[a].mode = "create"
    BY <1>0 DEF CreatePhysicalFile, AgentStatus, CreatePC
  <2>4. l1'[a].mode = l1[a].mode
    BY <1>0, <1>2, <2>1 DEF Stays
  <2>5. At(a, "destination") => repl'[a].stage # "none"
    BY WorkKeepsPlan DEF At
  <2> QED
    BY <1>0, <1>2, <2>1, <2>2, <2>3, <2>4, <2>5
<1>3. ASSUME NEW r PROVE ~ Untouched(r)'
  BY <1>2 DEF Untouched, At
<1>4. ~ CountsAsGood(t)'
  BY <1>0, <1>1 DEF CountsAsGood
<1> QED
  BY <1>3, <1>4 DEF Trusted

LEMMA StaysTrusted ==
    ASSUME ReplInv, OrderlyReplications, TrustedAgree, NEW a \in Pids, Works(a), Stays(a)
    PROVE  TrustedAgree'
<1>0. catalog' = catalog /\ excused' = excused
  BY WorkKeepsPlan DEF Stays
<1>1. ASSUME NEW r \in Replicas, Trusted(r)' PROVE Trusted(r) /\ contents'[r] = contents[r]
  <2>1. CountsAsGood(r)' => CountsAsGood(r)
    BY <1>0 DEF CountsAsGood
  <2>2. Trusted(r)
    BY <1>1, <2>1, StayingUntouched DEF Trusted
  <2>3. contents'[r] = contents[r]
    BY <1>1, TouchedIsNotTrusted, WorkTouches
  <2> QED
    BY <2>2, <2>3
<1> QED
  BY <1>0, <1>1 DEF TrustedAgree

LEMMA LocksTrusted ==
    ASSUME ReplInv, OrderlyReplications, TrustedAgree, NEW a \in Pids, Works(a), Locks(a)
    PROVE  TrustedAgree'
<1>0. /\ Lockable(a) /\ OwnInv(a) /\ OneOpening /\ contents' = contents /\ l1'[a] = l1[a]
      /\ BaseInv /\ OthersKeep(a) /\ excused' = excused /\ \A b \in Pids : OwnInv(b)
  BY AgentParts, WorkKeepsAccess, WorkKeepsPlan DEF Locks, ReplInv
<1>1. \A r \in Present(catalog) : catalog[r].original = "none"
  BY <1>0, LockableAtRest DEF ReplInv, AtRest
<1>2. /\ Present(catalog') = Present(catalog) /\ Holder(a)'
      /\ \A r \in Replicas \ Present(catalog) : catalog'[r] = catalog[r]
      /\ \A r \in Present(catalog) :
            /\ catalog'[r].status =
                 IF l1[a].mode = "write" /\ r = l1[a].target THEN "intermediate" ELSE "write_locked"
            /\ catalog'[r].original = catalog[r].status
      /\ \A r \in Replicas : rst'[a].before[r] = catalog[r].status
  BY <1>0, <1>1, LockedRows
<1>3. \A b \in Pids \ {a} : ~ Holder(b)'
  BY <1>0, LockableAlone, RolesOfOthers
<1>4. ASSUME NEW r \in Replicas, Trusted(r)' PROVE Trusted(r)
  <2>1. ASSUME catalog[r].status = "good" PROVE Trusted(r)
    <3>1. r \in Present(catalog)
      BY <2>1 DEF Present
    <3> QED
      BY <1>1, <2>1, <3>1 DEF CountsAsGood, Underlying, Trusted
  <2>2. CASE Untouched(r)'
    BY <1>2, <1>3, <2>1, <2>2 DEF Untouched
  <2>3. CASE CountsAsGood(r)' /\ r \in Present(catalog)
    BY <1>2, <2>1, <2>3 DEF CountsAsGood, Underlying
  <2>4. CASE CountsAsGood(r)' /\ r \notin Present(catalog)
    BY <1>2, <2>4 DEF CountsAsGood, Trusted
  <2> QED
    BY <1>4, <2>2, <2>3, <2>4 DEF Trusted
<1> QED
  BY <1>0, <1>4 DEF TrustedAgree

LEMMA RegistersTrusted ==
    ASSUME ReplInv, OrderlyReplications, TrustedAgree, NEW a \in Pids, Works(a), RegisterReplica(a)
    PROVE  TrustedAgree'
<1>0. /\ contents' = contents /\ excused' = excused /\ OthersKeep(a) /\ BaseInv /\ LockInv /\ OrderlyOpens
  BY WorkKeepsAccess, WorkKeepsPlan DEF RegisterReplica, ReplInv, OrderlyReplications
<1>1. /\ l1[a].mode = "create" /\ l1'[a] = l1[a]
      /\ \A r \in Replicas : catalog'[r] = IF r = l1[a].target THEN NewRow ELSE catalog[r]
      /\ \A b \in Pids \ {a} : ~ Holder(b)
  BY <1>0, RegisteredRows
<1>2. NewRow.status = "intermediate"
  BY DEF NewRow, MkRow
<1>3. ASSUME NEW r \in Replicas, Trusted(r)' PROVE Trusted(r)
  <2>1. ~ Untouched(r)'
    BY <1>0, <1>1, RolesOfOthers DEF Untouched
  <2> QED
    BY <1>1, <1>2, <1>3, <2>1 DEF Trusted, CountsAsGood
<1> QED
  BY <1>0, <1>3 DEF TrustedAgree

\* A destination that is given back as it was has not been truncated.
LEMMA RestoredIsUntouched ==
    ASSUME ReplInv, OrderlyReplications, NEW a \in Pids, Works(a), Unlocks(a), contents' = contents,
           l1[a].mode = "write"
    PROVE  At(a, "none") \/ pc[a] = "granted"
<1> SUFFICES ASSUME ~ At(a, "none") PROVE pc[a] = "granted"
  OBVIOUS
<1>0. /\ Holder(a) /\ pc \in [Pids -> PC] /\ AgentStatus(a) /\ pc[a] \in Places
      /\ pc'[a] \in {"idle", "released", "broken"}
  BY AgentParts DEF Unlocks, AgentsOK, AgentInv
<1>1. pc[a] \notin {"idle", "resolved"} /\ pc[a] \notin CreatePC
  BY <1>0, NotHolder DEF AgentStatus
<1>2. ~ CloseReplicas(a) /\ ~ OpenDestinationReplica(a)
  BY <1>0, <1>1 DEF CloseReplicas, OpenDestinationReplica, Resolve
<1>3. OpenDestinationStep(a)
  BY <1>2 DEF Works, WriteRequest, WriterStep, Disconnect, Free
<1>4. ~ RatUpdateFails(a)
  BY <1>0, NobodyListed DEF RatUpdateFails, Places, ListedPC
<1>5. ~ CreateStep(a)
  <2>1. pc[a] \in {"resolved"} \cup CreatePC \/ ~ CreateStep(a) \/ CreateRatFails(a)
    BY DEF CreateStep, CreatePC, CreateDenied, LockForCreate, RegisterReplica, RegistrationFails,
           CreatePhysicalFile, CreatePhysicalFileFails, CleanUpUnlocks, CleanUpUnregisters
  <2>2. ~ CreateRatFails(a)
    BY DEF CreateRatFails
  <2> QED
    BY <1>1, <2>1, <2>2
<1>6. ~ OpenDenied(a) /\ ~ LockObject(a) /\ ~ ChooseRatUpdate(a) /\ ~ CreateRatEntry(a)
  BY <1>0, <1>1 DEF OpenDenied, LockObject, ChooseRatUpdate, CreateRatEntry
<1> QED
  BY <1>3, <1>4, <1>5, <1>6 DEF OpenDestinationStep, TruncateReplica, OpenFails

LEMMA UnlocksTrusted ==
    ASSUME ReplInv, OrderlyReplications, TrustedAgree, NEW a \in Pids, Works(a), Unlocks(a)
    PROVE  TrustedAgree'
<1> DEFINE t == l1[a].target
<1>0. /\ OwnInv(a) /\ Holder(a) /\ excused' = excused /\ OthersKeep(a) /\ BaseInv /\ LockInv
      /\ pc'[a] \in {"idle", "released", "broken"} /\ (pc[a] # "open" \/ MayFinalize(a))
      /\ OrderlyOpens /\ QuietEnds
  BY AgentParts, WorkKeepsAccess, WorkKeepsPlan DEF ReplInv, Unlocks, OrderlyReplications, SessionEnds
<1>1. PICK s \in GivenBack, o \in {"stale", "restore"} : Ending(a, s, o) /\ Ended(a, s, o)
  BY DEF Unlocks
<1>2. /\ Present(catalog') = Present(catalog) /\ \A b \in Pids : ~ Holder(b)'
      /\ \A r \in Replicas \ Present(catalog) : catalog'[r] = catalog[r]
      /\ \A r \in Present(catalog) :
            /\ catalog'[r].status = IF r = t THEN s ELSE SiblingStatus(catalog[r], o)
            /\ catalog'[r].original = "none"
  BY <1>0, <1>1, UnlockedRows
<1>3. contents' = contents
  BY <1>0, <1>2, WorkTouches DEF Stays
<1>4. ASSUME NEW r \in Replicas, Trusted(r)'
      PROVE  r \in Present(catalog) /\ IF r = t THEN s = "good" ELSE SiblingStatus(catalog[r], o) = "good"
  <2>1. CountsAsGood(r)'
    BY <1>2, <1>4 DEF Trusted, Untouched
  <2>2. r \in Present(catalog)
    BY <1>2, <2>1, AbsentIsNotGood DEF CountsAsGood
  <2> QED
    BY <1>2, <2>1, <2>2 DEF CountsAsGood, Underlying
<1>5. CASE o = "stale"
  <2>1. \A r \in Replicas : Trusted(r)' => r = t
    BY <1>4, <1>5 DEF SiblingStatus
  <2> QED
    BY <2>1 DEF TrustedAgree
<1>6. CASE o = "restore"
  <2>1. ASSUME NEW r \in Present(catalog), r # t, SiblingStatus(catalog[r], o) = "good"
        PROVE  Trusted(r)
    BY <1>0, <1>6, <2>1 DEF SiblingStatus, RestoredSibling, Underlying, Trusted, CountsAsGood, OwnInv,
                            HolderInv, LockedFor
  <2>2. s = "good" => Trusted(t)
    BY <1>0, <1>1, <1>3, <1>6, RestoredIsUntouched DEF Ending, Trusted, Untouched
  <2>3. \A r \in Replicas : Trusted(r)' => Trusted(r)
    BY <1>4, <2>1, <2>2
  <2> QED
    BY <1>0, <1>3, <2>3 DEF TrustedAgree
<1> QED
  BY <1>5, <1>6

LEMMA WorkKeepsTrust ==
    ASSUME ReplInv, OrderlyReplications, TrustedAgree, NEW a \in Pids, Works(a)
    PROVE  TrustedAgree'
BY WorkKeepsAccess, StaysTrusted, LocksTrusted, RegistersTrusted, UnlocksTrusted DEF StepKind

\* What an agent looks up, and what it copies to the replica it has locked and
\* truncated, changes no replica that is trusted.
LEMMA RestKeepsTrust ==
    ASSUME ReplInv, OrderlyReplications, TrustedAgree, NEW a \in Pids, Looks(a) \/ DataObjCopy(a)
    PROVE  TrustedAgree'
<1>0. Rests /\ excused' = excused /\ \A b \in Pids : Holder(b)' <=> Holder(b)
  <2>1. Rests /\ excused' = excused
    BY LookRests, CopyTouches
  <2> QED
    BY <2>1 DEF Rests, Holder, Joined
<1>1. ASSUME NEW b \in Pids \ {a} PROVE repl'[b] = repl[b]
  BY DEF Looks, DataObjCopy, ResolveSource, UpdateAllExistingReplicas, ReplicateDataObject,
         OpenSourceReplica, DestinationNotOpened, LeaveDestination, AtStage, Becomes, ReplInv
<1>2. ASSUME Holder(a) PROVE DataObjCopy(a) /\ repl'[a].stage # "none" /\ pc[a] # "granted"
  <2>1. DataObjCopy(a) /\ pc[a] # "granted"
    BY <1>2, LookRests, CopyTouches, NotHolder
  <2>2. repl = [b \in Pids |-> repl[b]]
    BY DEF ReplInv
  <2>3. PICK st \in {"copied", "copy_failed"} : AtStage(a, st, repl[a].dest, repl[a].seen)
    BY <2>1 DEF DataObjCopy
  <2>4. repl'[a].stage = st
    BY <2>2, <2>3, NextStage
  <2> QED
    BY <2>1, <2>4
<1>3. ASSUME NEW r, Untouched(r)' PROVE Untouched(r) /\ ~ Holder(a)
  <2>1. PICK b \in Pids : /\ Holder(b) /\ l1[b].mode = "write" /\ ~ l1[b].wrote
                          /\ l1[b].target = r /\ rst[b].before[r] = "good"
                          /\ repl'[b].stage = "none" \/ pc[b] = "granted"
    BY <1>0, <1>3 DEF Untouched, At, Rests
  <2>2. b # a
    BY <1>2, <2>1
  <2> QED
    BY <1>1, <2>1, <2>2, OneHolds DEF Untouched, At
<1>4. ASSUME NEW r \in Replicas, Trusted(r)' PROVE Trusted(r) /\ contents'[r] = contents[r]
  <2>1. CountsAsGood(r)' => CountsAsGood(r)
    BY <1>0 DEF CountsAsGood, Rests
  <2>2. Trusted(r)
    BY <1>3, <1>4, <2>1 DEF Trusted
  <2>3. CASE DataObjCopy(a)
    <3>1. Holder(a) /\ pc[a] = "open" /\ \A q \in Replicas \ {l1[a].target} : contents'[q] = contents[q]
      BY <2>3, CopyTouches
    <3>2. CountsAsGood(r)
      BY <1>3, <1>4, <2>1, <3>1 DEF Trusted
    <3> QED
      BY <2>2, <3>1, <3>2, TargetIsNotGood
  <2>4. CASE Looks(a)
    BY <2>2, <2>4, LookRests
  <2> QED
    BY <2>3, <2>4
<1> QED
  BY <1>0, <1>4 DEF TrustedAgree

\* A destination that becomes good without excuse holds what its source holds.
LEMMA GoodCopy ==
    ASSUME ReplInv, OrderlyReplications, NEW a \in Pids, Ends(a),
           ~ excused', catalog'[repl[a].dest].status = "good"
    PROVE  contents' = contents /\ contents[repl[a].dest] = contents[repl[a].source]
<1>1. FinalizeDestinationReplica(a)
  <2> SUFFICES ASSUME FinalizeOnFailure(a) \/ FinalizeNotVerified(a) PROVE FALSE
    BY DEF Ends
  <2>1. EndsWith(a, "stale") /\ "stale" \in AtRestStatus
    BY FailureIsStale DEF AtRestStatus
  <2>2. catalog'[repl[a].dest].status = "stale"
    BY <2>1, EndedRows, EndingAgent
  <2> QED
    BY <2>1, <2>2
<1>2. At(a, "copied") /\ ~ Excused(a)
  BY <1>1 DEF FinalizeDestinationReplica
<1>3. SourceUnchanged(a) /\ contents' = contents
  BY <1>2 DEF Excused
<1>4. CopyInv(a)
  BY AgentParts
<1> QED
  BY <1>2, <1>3, <1>4 DEF CopyInv

LEMMA EndKeepsTrust ==
    ASSUME ReplInv, OrderlyReplications, TrustedAgree, NEW a \in Pids, Ends(a)
    PROVE  TrustedAgree'
<1> DEFINE d == repl[a].dest
           x == repl[a].source
<1> SUFFICES ASSUME ~ excused'
             PROVE  \A r, q \in Replicas : Trusted(r)' /\ Trusted(q)' => contents'[r] = contents'[q]
  BY DEF TrustedAgree
<1>0. /\ ~ excused /\ x \in Replicas \ {d} /\ x \in Present(catalog) /\ d \in Present(catalog) /\ LockedFor(d)
  <2>1. ~ excused
    BY DEF Ends, FinalizeOnFailure, FinalizeNotVerified, FinalizeDestinationReplica
  <2> QED
    BY <2>1, EndingAgent DEF Present
<1>1. PICK s \in AtRestStatus : EndsWith(a, s) /\ (s = "stale" \/ s = catalog[x].original)
  BY EndingStatus
<1>2. /\ Present(catalog') = Present(catalog) /\ \A b \in Pids : ~ Holder(b)'
      /\ \A r \in Replicas \ Present(catalog) : catalog'[r] = catalog[r]
      /\ \A r \in Present(catalog) :
            /\ catalog'[r].status = IF r = d THEN s ELSE SiblingStatus(catalog[r], "restore")
            /\ catalog'[r].original = "none"
  BY <1>1, EndedRows
<1>3. ASSUME NEW r \in Replicas, Trusted(r)'
      PROVE  IF r = d THEN s = "good" ELSE Trusted(r)
  <2>1. CountsAsGood(r)'
    BY <1>2, <1>3 DEF Trusted, Untouched
  <2>2. r \in Present(catalog)
    BY <1>2, <2>1, AbsentIsNotGood DEF CountsAsGood
  <2>3. IF r = d THEN s = "good" ELSE SiblingStatus(catalog[r], "restore") = "good"
    BY <1>2, <2>1, <2>2 DEF CountsAsGood, Underlying
  <2>4. r # d /\ SiblingStatus(catalog[r], "restore") = "good" => CountsAsGood(r)
    BY <1>0, <2>2 DEF SiblingStatus, RestoredSibling, Underlying, CountsAsGood, LockedFor
  <2> QED
    BY <2>3, <2>4 DEF Trusted
<1>4. \A r \in Replicas \ {d} : contents'[r] = contents[r]
  BY EndTouches
<1>5. ASSUME s = "good" PROVE Trusted(x) /\ contents'[d] = contents[x]
  <2>1. CountsAsGood(x)
    BY <1>0, <1>1, <1>5 DEF CountsAsGood, Underlying, LockedFor
  <2>2. catalog'[d].status = s
    BY <1>0, <1>2
  <2>3. contents' = contents /\ contents[d] = contents[x]
    BY <1>1, <1>5, <2>2, GoodCopy
  <2> QED
    BY <2>1, <2>3 DEF Trusted
<1>6. ASSUME NEW r \in Replicas, Trusted(r)'
      PROVE  \E w \in Replicas : Trusted(w) /\ contents'[r] = contents[w]
  <2>1. CASE r = d
    BY <1>0, <1>3, <1>5, <1>6, <2>1
  <2>2. CASE r # d
    BY <1>3, <1>4, <1>6, <2>2
  <2> QED
    BY <2>1, <2>2
<1> QED
  BY <1>0, <1>6 DEF TrustedAgree

LEMMA TrustStep ==
    ASSUME OrderlyReplications, ReplInv, TrustedAgree, [RNext]_rvars
    PROVE  TrustedAgree'
<1>1. CASE UNCHANGED rvars
  <2>1. UNCHANGED <<catalog, contents, rst, pc, l1, repl, excused>>
    BY <1>1 DEF rvars, vars
  <2>2. \A a \in Pids : Holder(a)' <=> Holder(a)
    BY <2>1 DEF Holder, Joined
  <2>3. \A r \in Replicas : Trusted(r)' => Trusted(r)
    BY <2>1, <2>2 DEF Trusted, CountsAsGood, Untouched, At
  <2> QED
    BY <2>1, <2>3 DEF TrustedAgree
<1>2. CASE RNext
  BY <1>2, ReplicationKinds, WorkKeepsTrust, RestKeepsTrust, EndKeepsTrust DEF RNext
<1> QED
  BY <1>1, <1>2

LEMMA TrustInit == RInit => TrustedAgree
<1> SUFFICES ASSUME RInit PROVE TrustedAgree
  OBVIOUS
<1>1. Init /\ GoodInv
  BY GoodInit DEF RInit
<1>2. \A r \in Replicas : Trusted(r) => Valued(r)
  BY DEF Trusted, Valued, Untouched, StillGood
<1> QED
  BY <1>1, <1>2 DEF GoodInv, ValuedAgree, TrustedAgree

\* Good replicas hold the same data, whatever fails and whatever is written while
\* replicas are opened and copied, until a replication ends whose source was
\* rewritten before the object was locked or whose file was removed.
THEOREM ReplicatedReplicasAgree == OrderlyReplications => (RSpec => []GoodReplicasAgreeUnlessExcused)
<1> SUFFICES ASSUME OrderlyReplications PROVE RSpec => []GoodReplicasAgreeUnlessExcused
  OBVIOUS
<1>1. RInit => ReplInv /\ TrustedAgree
  BY ReplInit, TrustInit
<1>2. ReplInv /\ TrustedAgree /\ [RNext]_rvars => ReplInv' /\ TrustedAgree'
  BY ReplStep, TrustStep
<1>3. TrustedAgree => GoodReplicasAgreeUnlessExcused
  BY DEF TrustedAgree, Trusted, CountsAsGood, GoodReplicasAgree, GoodReplicasAgreeUnlessExcused
<1> QED
  BY <1>1, <1>2, <1>3, PTL DEF RSpec
=============================================================================
