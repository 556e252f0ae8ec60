----------------------- MODULE DataObjectSessionProofs -----------------------
(***************************************************************************)
(* What the lock of a data object is for.  Under OrderlyOpens a step of an *)
(* agent leaves the catalog alone, locks the object, registers a replica,  *)
(* or is the end of the agent that holds the lock (StepKinds).  From this  *)
(* follow that the object is unlocked when everybody has left, that good   *)
(* replicas agree, and that the catalog shows one WriteSession after the   *)
(* other.                                                                  *)
(***************************************************************************)
EXTENDS DataObjectAccessProofs, DataObjectSession

\* Zenon proves most leaves; those that need another prover cite it.
USE ZenonT(30)

\* Every end of a session is published, with a status for the target: no catalog
\* update fails, and no rsDataObjClose throws before it unlocks the object.
QuietEnds == Faults \cap {"publish", "metadata"} = {} /\ "size_only" \notin Clients

\* Only a descriptor that has been open has been written to.
WroteInv(a) ==
    l1[a].wrote =>
        /\ l1[a].mode # "read"
        /\ pc[a] \in {"open", "finished", "closing", "failing", "exiting", "released", "broken"}

-----------------------------------------------------------------------------
(* The kinds of steps.                                                     *)

\* The catalog stays as it is, and if the agent holds the lock afterwards, it has
\* held it before.
Stays(a) ==
    /\ catalog' = catalog
    /\ Holder(a)' =>
        /\ Holder(a) /\ l1'[a].mode = l1[a].mode /\ l1'[a].target = l1[a].target
        /\ rst'[a] = rst[a] /\ (l1[a].wrote => l1'[a].wrote)
    /\ Holder(a) /\ QuietEnds => Holder(a)' \/ pc'[a] = "crashed"
    /\ contents' = contents \/ Write(a) \/ CreatePhysicalFile(a) \/ TruncateReplica(a)

\* The agent locks the object that it has found unlocked.
Locks(a) ==
    LET e == RstInsert(NoEntry, catalog) IN
    /\ Lockable(a) /\ info[a] = catalog /\ l1'[a] = l1[a] /\ contents' = contents
    /\ e \in RstEntry /\ ProperEntry(e) /\ Recordable(e)
    /\ rst'[a] = IF l1[a].mode = "write" THEN LockTarget(e, l1[a].target) ELSE LockAll(e)
    /\ catalog' = rst'[a].after
    /\ pc'[a] = IF l1[a].mode = "write" THEN "granted" ELSE "creating"

\* What the holder of the lock may leave behind: the status s of the target and
\* the statuses o of its siblings.
Ending(a, s, o) ==
    \/ o = "restore" /\ s = "stale"
    \/ /\ o = "restore" /\ s = rst[a].before[l1[a].target]
       /\ l1[a].mode = "write" /\ ~ l1[a].wrote
    \/ o = "stale" /\ s = "good" /\ pc[a] # "creating"
    \/ /\ o = "stale" /\ s = "stale"
       /\ "publish" \in Faults \/ Clients \cap {"replica_close", "status_only"} # {}
    \/ o = "stale" /\ s = "intermediate" /\ "size_only" \in Clients

Ended(a, s, o) ==
    \A r \in Replicas :
        catalog'[r] = IF r \notin Present(catalog) THEN catalog[r]
                      ELSE MkRow(IF r = l1[a].target THEN s ELSE SiblingStatus(catalog[r], o), "none")

\* The holder of the lock gives it back.
Unlocks(a) ==
    /\ Holder(a) /\ pc'[a] \in {"idle", "released", "broken"}
    /\ pc[a] # "open" \/ MayFinalize(a)
    /\ contents' = contents \/ TruncateReplica(a)
    /\ \E s \in GivenBack, o \in {"stale", "restore"} : Ending(a, s, o) /\ Ended(a, s, o)

StepKind(a) == Stays(a) \/ Locks(a) \/ RegisterReplica(a) \/ Unlocks(a)

LEMMA NotHolder ==
    ASSUME NEW a, pc[a] \in {"idle", "resolved", "finished", "released", "broken", "crashed", "reaped"}
                  \/ l1[a].mode = "read" \/ Joined(a)
    PROVE  ~ Holder(a)
BY DEF Holder, HolderPC, Joined

\* Steps of agents that do not hold the lock, and ends that are not published.
LEMMA NoRole ==
    ASSUME NEW a, catalog' = catalog, contents' = contents \/ TruncateReplica(a), ~ Holder(a)',
           ~ Holder(a) \/ ~ QuietEnds \/ pc'[a] = "crashed"
    PROVE  StepKind(a)
BY DEF StepKind, Stays

\* Steps of agents that go on.
LEMMA Proceeds ==
    ASSUME NEW a, catalog' = catalog, rst'[a] = rst[a], l1'[a].mode = l1[a].mode,
           l1'[a].target = l1[a].target, l1[a].wrote => l1'[a].wrote,
           pc[a] \in HolderPC \/ (pc[a] = "registered" /\ l1[a].mode = "create"),
           pc'[a] \in HolderPC,
           contents' = contents \/ Write(a) \/ CreatePhysicalFile(a) \/ TruncateReplica(a)
    PROVE  StepKind(a)
<1>1. Holder(a)' <=> Holder(a)
  BY DEF Holder, Joined, HolderPC
<1> QED
  BY <1>1 DEF StepKind, Stays

LEMMA PublishEnded ==
    ASSUME NEW a \in Pids, SharedOK, AgentsOK, AgentStatus(a), rst[a].after = catalog,
           NEW s, NEW o \in {"stale", "restore"},
           l1[a].target \in Present(catalog) => s \in GivenBack \cup {"restore"},
           catalog' = Publish(catalog, UnlockTarget(rst[a], l1[a].target, s, o)), NEW t,
           l1[a].target \in Present(catalog) => t = TargetStatus(catalog[l1[a].target], s)
    PROVE  Ended(a, t, o)
<1> DEFINE u == UnlockTarget(rst[a], l1[a].target, s, o)
<1>1. rst[a] \in RstEntry /\ ProperEntry(rst[a]) /\ catalog \in Rows
  BY AgentSelf DEF AgentStatus, SharedOK
<1>2. Present(u.after) = Present(catalog)
  BY <1>1, UnlockTargetProper, SMT
<1>3. ASSUME NEW r \in Replicas
      PROVE  catalog'[r] = IF r \notin Present(catalog) THEN catalog[r] ELSE u.after[r]
  BY <1>2 DEF Publish
<1>4. ASSUME NEW r \in Present(catalog)
      PROVE  u.after[r] = MkRow(IF r = l1[a].target THEN t ELSE SiblingStatus(catalog[r], o), "none")
  BY SMT DEF UnlockTarget, RstWithAfter, Present
<1> HIDE DEF u
<1> QED
  BY <1>3, <1>4 DEF Ended

\* The holder of the lock ends, and what it leaves behind is published.
LEMMA HolderUnlocks ==
    ASSUME NEW a \in Pids, SharedOK, AgentsOK, AgentStatus(a), OwnInv(a), Holder(a),
           pc'[a] \in {"idle", "released", "broken"}, pc[a] # "open" \/ MayFinalize(a),
           contents' = contents \/ TruncateReplica(a),
           NEW s \in GivenBack \cup {"restore"}, NEW o \in {"stale", "restore"},
           catalog' = Publish(catalog, UnlockTarget(rst[a], l1[a].target, s, o)), NEW t \in GivenBack,
           l1[a].target \in Present(catalog) => t = TargetStatus(catalog[l1[a].target], s),
           Ending(a, t, o)
    PROVE  StepKind(a)
<1>1. rst[a].after = catalog
  BY DEF OwnInv, HolderInv
<1>2. Ended(a, t, o)
  BY <1>1, PublishEnded
<1> QED
  BY <1>2 DEF StepKind, Unlocks

\* The holder ends with its target stale or restored.
LEMMA HolderGivesBack ==
    ASSUME NEW a \in Pids, SharedOK, AgentsOK, AgentStatus(a), OwnInv(a), Holder(a), pc[a] # "creating",
           pc'[a] \in {"idle", "released", "broken"}, pc[a] # "open" \/ MayFinalize(a),
           contents' = contents \/ TruncateReplica(a),
           NEW s \in {"stale", "restore"}, s = "restore" => l1[a].mode = "write" /\ ~ l1[a].wrote,
           catalog' \in UnlockOutcomes(rst[a], l1[a].target, s, "restore")
    PROVE  StepKind(a)
<1> DEFINE r == l1[a].target
<1>1. /\ rst[a].after = catalog /\ r \in Present(catalog)
      /\ l1[a].mode = "write" => /\ rst[a].before[r] \in AtRestStatus
                                 /\ catalog[r].original = rst[a].before[r]
  BY DEF OwnInv, HolderInv
<1>2. catalog' \in Published(UnlockTarget(rst[a], r, s, "restore"))
  BY <1>1 DEF UnlockOutcomes, RstHas
<1>3. ~ Holder(a)'
  BY DEF Holder, HolderPC
<1>4. CASE catalog' = Publish(catalog, UnlockTarget(rst[a], r, s, "restore"))
  <2> DEFINE t == IF s = "stale" THEN "stale" ELSE rst[a].before[r]
  <2>1. t = TargetStatus(catalog[r], s)
    BY <1>1 DEF TargetStatus, RestoredTarget, AtRestStatus
  <2>2. t \in GivenBack /\ s \in GivenBack \cup {"restore"}
    BY <1>1 DEF GivenBack, AtRestStatus
  <2>3. Ending(a, t, "restore")
    BY DEF Ending
  <2> HIDE DEF t
  <2> QED
    BY <1>4, <2>1, <2>2, <2>3, HolderUnlocks
<1>5. CASE "publish" \in Faults /\ catalog' = catalog
  BY <1>3, <1>5, NoRole DEF QuietEnds
<1> QED
  BY <1>2, <1>4, <1>5 DEF Published

LEMMA LockObjectKind ==
    ASSUME NEW a \in Pids, BaseInv, OwnInv(a), LockObject(a)
    PROVE  StepKind(a)
<1> DEFINE r == l1[a].target
           e == RstInsert(rst[a], info[a])
<1>0. SharedOK /\ AgentsOK /\ AgentStatus(a) /\ ProperRows(catalog) /\ catalog \in Rows
  BY DEF BaseInv, StatusInv, SharedOK
<1> USE <1>0
<1>1. /\ pc[a] = "resolved" /\ l1[a].mode = "write" /\ info[a][r].status \notin LockStatus
      /\ contents' = contents
  BY DEF LockObject, TryLockReplica, LockStatus
<1>2. Lockable(a) /\ ~ Holder(a)
  BY <1>1 DEF Lockable, Holder, HolderPC
<1>3. info[a] = catalog /\ rst[a] = NoEntry
  BY <1>1, <1>2 DEF OwnInv, ResolvedInv, NoLeftover
<1>4. CASE Done(a) /\ catalog' = catalog
  <2>1. pc'[a] = "idle"
    BY <1>4 DEF Done, AgentsOK
  <2>2. ~ Holder(a)'
    BY <2>1 DEF Holder, HolderPC
  <2> QED
    BY <1>1, <1>2, <1>4, <2>2, NoRole
<1>5. CASE /\ catalog' = Publish(catalog, LockTarget(e, r))
           /\ rst' = [rst EXCEPT ![a] = LockTarget(e, r)] /\ l1' = l1
           /\ pc' = [pc EXCEPT ![a] = "granted"]
  <2>1. e \in RstEntry /\ ProperEntry(e) /\ Recordable(e)
    BY <1>1, ResolvedRecordable
  <2>2. e = RstInsert(NoEntry, catalog)
    BY <1>3
  <2>3. Publish(catalog, LockTarget(e, r)) = LockTarget(e, r).after
    BY <1>3, <2>1, LockIsPublished, SMT
  <2>4. rst'[a] = LockTarget(e, r) /\ pc'[a] = "granted"
    BY <1>5 DEF AgentsOK
  <2> HIDE DEF e
  <2> QED
    BY <1>1, <1>2, <1>3, <1>5, <2>1, <2>2, <2>3, <2>4 DEF StepKind, Locks
<1> QED
  BY <1>4, <1>5 DEF LockObject

LEMMA OpenStepKind ==
    ASSUME NEW a \in Pids, BaseInv, OwnInv(a), WroteInv(a), OpenStep(a), OrderlyOpens
    PROVE  StepKind(a)
<1>0. /\ SharedOK /\ AgentsOK /\ AgentStatus(a)
      /\ l1[a].mode \in {"read", "write", "create"}
  BY AgentSelf, DescFields DEF BaseInv, StatusInv
<1>d. Done(a) => pc'[a] = "idle" /\ ~ Holder(a)'
  BY <1>0 DEF Done, AgentsOK, Holder, HolderPC
<1>w. pc[a] \in {"granted", "rat_create", "rat_update"} => ~ l1[a].wrote
  BY DEF WroteInv
<1>j. Joiner(a) => TokenIsValid(a)
  BY DEF OwnInv, JoinerInv, TokenIsHeld
<1> USE <1>0, <1>d, <1>w, <1>j
<1>1. CASE OpenDenied(a)
  <2>1. pc[a] = "resolved" /\ pc'[a] = "idle" /\ catalog' = catalog /\ contents' = contents
    BY <1>1 DEF OpenDenied, AgentsOK
  <2>2. ~ Holder(a) /\ ~ Holder(a)'
    BY <2>1 DEF Holder, HolderPC
  <2> QED
    BY <2>1, <2>2, NoRole
<1>2. CASE ReadGranted(a)
  <2>1. l1[a].mode = "read" /\ l1'[a] = l1[a] /\ catalog' = catalog /\ contents' = contents
    BY <1>2 DEF ReadGranted, AgentsOK
  <2>2. ~ Holder(a) /\ ~ Holder(a)'
    BY <2>1 DEF Holder
  <2> QED
    BY <2>1, <2>2, NoRole
<1>3. CASE LockObject(a)
  BY <1>3, LockObjectKind
<1>4. CASE JoinObject(a)
  <2>1. /\ pc[a] = "resolved" /\ l1[a].mode = "write" /\ info[a][l1[a].target].status = "intermediate"
        /\ TokenIsValid(a) /\ catalog' = catalog /\ contents' = contents
        /\ l1'[a] = l1[a] /\ rst'[a] = RstInsert(rst[a], info[a])
    BY <1>4 DEF JoinObject, AgentsOK
  <2>2. rst[a] = NoEntry /\ ~ Holder(a) /\ l1[a].target \in Replicas
    BY <2>1, AgentSelf DEF OwnInv, NoLeftover, Holder, HolderPC
  <2>3. rst'[a].before[l1[a].target] = "intermediate"
    BY <2>1, <2>2, SMT DEF RstInsert, RstContains
  <2>4. ~ Holder(a)'
    BY <2>1, <2>3 DEF Holder, Joined
  <2> QED
    BY <2>1, <2>2, <2>4, NoRole
<1>5. CASE OpenReplica(a)
  <2>1. /\ pc[a] = "granted" /\ catalog' = catalog /\ contents' = contents /\ rst'[a] = rst[a]
        /\ l1'[a].mode = l1[a].mode /\ l1'[a].target = l1[a].target /\ pc'[a] \in {"open", "opened"}
    BY <1>5, SMT DEF OpenReplica, AgentsOK, WithToken, Desc
  <2> QED
    BY <2>1, Proceeds DEF HolderPC
<1>6. CASE TruncateReplica(a)
  <2>1. pc[a] = "granted" /\ l1[a].mode = "write" /\ "truncate" \in Clients
    BY <1>6 DEF TruncateReplica
  <2>2. Holder(a) \/ Joiner(a)
    BY <2>1, WriterRoles DEF HolderPC
  <2>3. CASE catalog' = Publish(catalog, rst[a]) /\ pc' = [pc EXCEPT ![a] = "opened"] /\ rst' = rst /\ l1' = l1
    <3>1. rst[a].after = catalog
      BY <2>1, <2>2 DEF OwnInv, HolderInv, JoinerInv
    <3>2. catalog' = catalog
      BY <2>3, <3>1, PublishSame
    <3>3. pc'[a] = "opened" /\ rst'[a] = rst[a] /\ l1'[a] = l1[a]
      BY <2>3 DEF AgentsOK
    <3> QED
      BY <1>6, <2>1, <3>2, <3>3, Proceeds DEF HolderPC
  <2>4. CASE /\ "publish" \in Faults /\ Done(a)
             /\ catalog' \in UnlockOutcomes(rst[a], l1[a].target, "restore", "restore")
    <3>1. Holder(a)
      BY <2>1, <2>2, <2>4 DEF OwnInv, JoinerInv, OrderlyOpens
    <3> QED
      BY <1>6, <2>1, <2>4, <3>1, HolderGivesBack
  <2> QED
    BY <1>6, <2>3, <2>4 DEF TruncateReplica
<1>7. CASE OpenFails(a)
  <2>1. /\ pc[a] = "granted" /\ "open_file" \in Faults /\ Done(a) /\ contents' = contents
        /\ l1[a].mode # "write" => catalog' = catalog
        /\ l1[a].mode = "write" => catalog' \in UnlockOutcomes(rst[a], l1[a].target, "restore", "restore")
    BY <1>7 DEF OpenFails
  <2>2. CASE l1[a].mode = "write"
    <3>1. Holder(a)
      BY <2>1, <2>2, WriterRoles DEF HolderPC, OwnInv, JoinerInv, OrderlyOpens
    <3> QED
      BY <2>1, <2>2, <3>1, HolderGivesBack
  <2>3. CASE l1[a].mode # "write"
    <3>1. ~ Holder(a)
      BY <2>1, <2>3 DEF Holder, OwnInv, NoLeftover
    <3> QED
      BY <2>1, <2>3, <3>1, NoRole
  <2> QED
    BY <2>2, <2>3
<1>8. CASE ChooseRatUpdate(a)
  <2>1. /\ pc[a] = "opened" /\ catalog' = catalog /\ contents' = contents /\ rst'[a] = rst[a]
        /\ l1'[a] = l1[a] /\ pc'[a] \in {"rat_update", "rat_create"}
    BY <1>8 DEF ChooseRatUpdate, AgentsOK
  <2> QED
    BY <2>1, Proceeds DEF HolderPC
<1>9. CASE CreateRatEntry(a)
  <2>1. /\ pc[a] = "rat_create" /\ pc'[a] = "open" /\ catalog' = catalog /\ contents' = contents
        /\ rst'[a] = rst[a] /\ l1'[a].mode = l1[a].mode /\ l1'[a].target = l1[a].target
    BY <1>9, SMT DEF CreateRatEntry, AgentsOK, WithToken, Desc
  <2> QED
    BY <2>1, Proceeds DEF HolderPC
<1>10. CASE AppendToRatEntry(a)
  <2>1. /\ pc[a] = "rat_update" /\ pc'[a] = "open" /\ catalog' = catalog /\ contents' = contents
        /\ rst'[a] = rst[a] /\ l1'[a] = l1[a]
    BY <1>10 DEF AppendToRatEntry, AgentsOK
  <2> QED
    BY <2>1, Proceeds DEF HolderPC
<1>11. CASE RatUpdateFails(a)
  <2>1. /\ pc[a] = "rat_create" \/ (pc[a] = "rat_update" /\ ~ TokenIsValid(a))
        /\ Done(a) /\ l1[a].mode # "create" /\ contents' = contents
        /\ l1[a].mode # "write" => catalog' = catalog
        /\ l1[a].mode = "write" => catalog' \in UnlockOutcomes(rst[a], l1[a].target, "restore", "restore")
    BY <1>11 DEF RatUpdateFails
  <2>2. CASE l1[a].mode = "read"
    <3>1. ~ Holder(a)
      BY <2>2 DEF Holder
    <3> QED
      BY <2>1, <2>2, <3>1, NoRole
  <2>3. CASE l1[a].mode = "write"
    <3>1. Holder(a)
      BY <2>1, <2>3, WriterRoles DEF HolderPC
    <3> QED
      BY <2>1, <2>3, <3>1, HolderGivesBack
  <2> QED
    BY <2>1, <2>2, <2>3
<1> QED
  BY <1>1, <1>2, <1>3, <1>4, <1>5, <1>6, <1>7, <1>8, <1>9, <1>10, <1>11 DEF OpenStep

LEMMA LockForCreateKind ==
    ASSUME NEW a \in Pids, BaseInv, OwnInv(a), LockForCreate(a), OrderlyOpens
    PROVE  StepKind(a)
<1> DEFINE i == RstInsert(rst[a], info[a])
           e == LockAll(i)
<1>0. SharedOK /\ AgentsOK /\ AgentStatus(a) /\ ProperRows(catalog) /\ catalog \in Rows
  BY DEF BaseInv, StatusInv, SharedOK
<1> USE <1>0
<1>1. /\ pc[a] = "resolved" /\ l1[a].mode = "create" /\ TryLockObject(info[a])
      /\ contents' = contents
  BY DEF LockForCreate
<1>2. rst[a] = NoEntry /\ ~ Holder(a)
  BY <1>1 DEF OwnInv, NoLeftover, Holder, HolderPC
<1>3. "lock" \notin Faults
  BY <1>1 DEF AgentStatus, OrderlyOpens
<1>4. CASE pc' = [pc EXCEPT ![a] = "creating"] /\ catalog' = catalog /\ rst' = rst /\ l1' = l1
  <2>1. pc'[a] = "creating" /\ rst'[a] = NoEntry /\ l1'[a].mode = "create"
    BY <1>1, <1>2, <1>4 DEF AgentsOK
  <2>2. ~ Holder(a)'
    BY <2>1 DEF Holder, HolderPC
  <2> QED
    BY <1>1, <1>2, <1>4, <2>2, NoRole
<1>5. CASE /\ Present(info[a]) # {} /\ catalog' = Publish(catalog, e) /\ rst' = [rst EXCEPT ![a] = e]
           /\ l1' = l1 /\ pc' = [pc EXCEPT ![a] = "creating"]
  <2>1. Lockable(a) /\ info[a] = catalog
    BY <1>1, <1>5 DEF Lockable, OwnInv, ResolvedInv
  <2>2. i \in RstEntry /\ ProperEntry(i) /\ Recordable(i)
    BY <1>1, ResolvedRecordable
  <2>3. i = RstInsert(NoEntry, catalog)
    BY <1>2, <2>1
  <2>4. Publish(catalog, e) = e.after
    BY <1>2, <2>1, <2>2, LockIsPublished
  <2>5. rst'[a] = e /\ pc'[a] = "creating"
    BY <1>5 DEF AgentsOK
  <2> HIDE DEF i
  <2> QED
    BY <1>1, <1>5, <2>1, <2>2, <2>3, <2>4, <2>5 DEF StepKind, Locks
<1> QED
  BY <1>3, <1>4, <1>5 DEF LockForCreate

\* The new replica is not in the table entry: unlocking everything is unlocking
\* a target that the entry does not have.
LEMMA UnlockAllIsUnlock ==
    ASSUME NEW e, NEW r, r \notin Present(e.after)
    PROVE  UnlockAll(e) = UnlockTarget(e, r, "stale", "restore")
<1>1. ASSUME NEW q \in Replicas, e.after[q].status # "absent"
      PROVE  q # r /\ SiblingStatus(e.after[q], "restore") = RestoredSibling(e.after[q])
  BY <1>1 DEF Present, SiblingStatus
<1> QED
  BY <1>1 DEF UnlockAll, UnlockTarget

LEMMA CreateStepKind ==
    ASSUME NEW a \in Pids, BaseInv, OwnInv(a), NewReplica(a), CreateStep(a), OrderlyOpens
    PROVE  StepKind(a)
<1>0. SharedOK /\ AgentsOK /\ AgentStatus(a)
  BY DEF BaseInv, StatusInv
<1> USE <1>0
<1>1. CASE CreateDenied(a)
  <2>1. pc[a] = "resolved" /\ pc'[a] = "idle" /\ catalog' = catalog /\ contents' = contents
    BY <1>1 DEF CreateDenied, AgentsOK
  <2>2. ~ Holder(a) /\ ~ Holder(a)'
    BY <2>1 DEF Holder, HolderPC
  <2> QED
    BY <2>1, <2>2, NoRole
<1>2. CASE LockForCreate(a)
  BY <1>2, LockForCreateKind
<1>3. CASE RegisterReplica(a)
  BY <1>3 DEF StepKind
<1>4. CASE RegistrationFails(a)
  <2>1. /\ pc[a] = "creating" /\ l1[a].mode = "create" /\ catalog' \in Published(UnlockAll(rst[a]))
        /\ pc'[a] = "idle" /\ contents' = contents
    BY <1>4 DEF RegistrationFails, Done, AgentsOK, AgentStatus, CreatePC
  <2>2. ~ Holder(a)'
    BY <2>1 DEF Holder, HolderPC
  <2>3. CASE rst[a] = NoEntry
    <3>1. ~ Holder(a)
      BY <2>1, <2>3 DEF Holder, HolderPC
    <3>2. Present(UnlockAll(NoEntry).after) = {}
      BY DEF UnlockAll, RstWithAfter, NoEntry, NoRows, NoRow, Present
    <3>3. Publish(catalog, UnlockAll(NoEntry)) = catalog
      BY <3>2 DEF Publish, SharedOK, Rows
    <3>4. catalog' = catalog
      BY <2>1, <2>3, <3>3 DEF Published
    <3> QED
      BY <2>1, <2>2, <3>1, <3>4, NoRole
  <2>4. CASE rst[a] # NoEntry
    <3>1. Holder(a)
      BY <2>1, <2>4 DEF Holder
    <3>2. l1[a].target \notin Present(catalog) /\ rst[a].after = catalog
      BY <2>1, <3>1 DEF OwnInv, HolderInv
    <3>3. \/ catalog' = Publish(catalog, UnlockTarget(rst[a], l1[a].target, "stale", "restore"))
          \/ "publish" \in Faults /\ catalog' = catalog
      BY <2>1, <3>1, <3>2, UnlockAllIsUnlock DEF Published
    <3>4. Ending(a, "stale", "restore") /\ "stale" \in GivenBack
      BY DEF Ending, GivenBack
    <3>5. CASE "publish" \in Faults /\ catalog' = catalog
      BY <2>1, <2>2, <3>5, NoRole DEF QuietEnds
    <3> QED
      BY <2>1, <3>1, <3>2, <3>3, <3>4, <3>5, HolderUnlocks
  <2> QED
    BY <2>3, <2>4
<1>5. CASE CreatePhysicalFile(a)
  <2>1. /\ pc[a] = "registered" /\ pc'[a] = "rat_create" /\ catalog' = catalog
        /\ rst'[a] = rst[a] /\ l1'[a] = l1[a] /\ l1[a].mode = "create"
    BY <1>5 DEF CreatePhysicalFile, AgentsOK, AgentStatus, CreatePC
  <2> QED
    BY <1>5, <2>1, Proceeds DEF HolderPC
<1>6. ~ CreatePhysicalFileFails(a)
  BY DEF CreatePhysicalFileFails, OrderlyOpens
<1>7. ~ CleanUpUnlocks(a) /\ ~ CleanUpUnregisters(a)
  BY DEF CleanUpUnlocks, CleanUpUnregisters, OwnInv, NoLeftover
<1>8. ~ CreateRatFails(a)
  BY DEF CreateRatFails, NewReplica
<1> QED
  BY <1>1, <1>2, <1>3, <1>4, <1>5, <1>6, <1>7, <1>8 DEF CreateStep

\* replica_close gives its target a status, and its siblings become stale.
LEMMA ReplicaCloseKind ==
    ASSUME NEW a \in Pids, BaseInv, OwnInv(a), Holder(a), l1[a].mode # "read", OrderlyOpens,
           ReplicaClose(a) \/ ReplicaCloseSizeOnly(a) \/ ReplicaCloseSizeNotPublished(a)
    PROVE  StepKind(a)
<1> DEFINE r == l1[a].target
<1>0. SharedOK /\ AgentsOK /\ AgentStatus(a) /\ l1[a].mode \in {"read", "write", "create"}
  BY AgentSelf, DescFields DEF BaseInv, StatusInv
<1> USE <1>0
<1>1. /\ pc[a] = "open" /\ MayFinalize(a) /\ contents' = contents
      /\ pc'[a] \in {"idle", "released", "broken"}
  BY DEF ReplicaClose, ReplicaCloseSizeOnly, ReplicaCloseSizeNotPublished, AgentsOK
<1>2. /\ rst[a].after = catalog
      /\ l1[a].mode = "write" => catalog[r].original \in AtRestStatus
  BY DEF OwnInv, HolderInv
<1>3. ASSUME NEW s \in GivenBack, Ending(a, s, "stale"),
             catalog' = Publish(catalog, UnlockTarget(rst[a], r, s, "stale"))
      PROVE  StepKind(a)
  <2>1. TargetStatus(catalog[r], s) = s
    BY DEF TargetStatus, GivenBack
  <2> QED
    BY <1>1, <1>3, <2>1, HolderUnlocks
<1>4. CASE ReplicaClose(a)
  <2>1. PICK s \in ReplicaCloseStatus(a) :
            catalog' = Publish(catalog, UnlockTarget(rst[a], r, s, "stale"))
    BY <1>4 DEF ReplicaClose
  <2>2. s \in {"good", "stale"}
    BY <1>2 DEF ReplicaCloseStatus, Unwritten, AtRestStatus
  <2>3. s \in GivenBack /\ Ending(a, s, "stale")
    BY <1>1, <1>4, <2>2 DEF Ending, GivenBack, ReplicaClose
  <2> QED
    BY <1>3, <2>1, <2>3
<1>5. CASE ReplicaCloseSizeOnly(a)
  <2>1. "intermediate" \in GivenBack /\ Ending(a, "intermediate", "stale")
    BY <1>5 DEF Ending, GivenBack, ReplicaCloseSizeOnly
  <2> QED
    BY <1>3, <1>5, <2>1 DEF ReplicaCloseSizeOnly
<1>6. CASE ReplicaCloseSizeNotPublished(a)
  <2>1. /\ "stale" \in GivenBack /\ Ending(a, "stale", "stale")
        /\ "intermediate" \in GivenBack /\ Ending(a, "intermediate", "stale") /\ ~ QuietEnds
    BY <1>6 DEF Ending, GivenBack, ReplicaCloseSizeNotPublished, QuietEnds
  <2>2. ~ Holder(a)'
    BY <1>1 DEF Holder, HolderPC
  <2>3. CASE catalog' = catalog
    BY <1>1, <2>1, <2>2, <2>3, NoRole
  <2> QED
    BY <1>3, <1>6, <2>1, <2>3 DEF ReplicaCloseSizeNotPublished, FailedReplicaClose
<1> QED
  BY <1>4, <1>5, <1>6

LEMMA LeaveKind ==
    ASSUME NEW a \in Pids, BaseInv, OwnInv(a), Leave(a), OrderlyOpens
    PROVE  StepKind(a)
<1>0. /\ SharedOK /\ AgentsOK /\ AgentStatus(a) /\ "undisciplined" \notin Clients
      /\ l1[a].mode \in {"read", "write", "create"}
  BY AgentSelf, DescFields DEF BaseInv, StatusInv, OrderlyOpens
<1>d. Done(a) => pc'[a] = "idle" /\ ~ Holder(a)'
  BY <1>0 DEF Done, AgentsOK, Holder, HolderPC
<1>f. pc[a] = "open" /\ l1[a].mode # "read" /\ MayFinalize(a) => Holder(a)
  BY <1>0, WriterRoles DEF MayFinalize, HolderPC
<1> USE <1>0, <1>d, <1>f
<1>1. CASE FinishWriting(a)
  <2>1. /\ pc'[a] = "finished" /\ Joined(a) /\ l1[a].mode = "write"
        /\ catalog' = catalog /\ contents' = contents
    BY <1>1 DEF FinishWriting, AgentsOK
  <2>2. ~ Holder(a) /\ ~ Holder(a)'
    BY <1>1, <2>1 DEF Holder, HolderPC, FinishWriting
  <2> QED
    BY <2>1, <2>2, NoRole
<1>2. CASE CloseRead(a)
  <2>1. l1[a].mode = "read" /\ Done(a) /\ catalog' = catalog /\ contents' = contents
    BY <1>2 DEF CloseRead
  <2> QED
    BY <2>1, NotHolder, NoRole
<1>3. CASE Close(a)
  <2>1. /\ pc[a] = "open" /\ pc'[a] = "closing" /\ catalog' = catalog /\ contents' = contents
        /\ rst'[a] = rst[a] /\ l1'[a] = l1[a]
    BY <1>3 DEF Close, AgentsOK
  <2> QED
    BY <2>1, Proceeds DEF HolderPC
<1>4. CASE ReplicaCloseSilently(a) \/ ReplicaCloseFailsSilently(a)
  <2>1. /\ pc[a] = "finished" \/ "size_only" \in Clients
        /\ pc'[a] \in {"released", "broken"} /\ catalog' = catalog /\ contents' = contents
    BY <1>4 DEF ReplicaCloseSilently, ReplicaCloseFailsSilently, AgentsOK
  <2>2. ~ Holder(a)'
    BY <2>1 DEF Holder, HolderPC
  <2> QED
    BY <2>1, <2>2, NotHolder, NoRole DEF QuietEnds
<1>9. ~ ReplicaCloseNotPublished(a)
  BY DEF ReplicaCloseNotPublished, OrderlyOpens, ClosesByReplica
<1>5. CASE ReplicaClose(a) \/ ReplicaCloseSizeOnly(a) \/ ReplicaCloseSizeNotPublished(a)
  <2>1. Holder(a) /\ l1[a].mode # "read"
    BY <1>5 DEF ReplicaClose, ReplicaCloseSizeOnly, ReplicaCloseSizeNotPublished
  <2> QED
    BY <1>5, <2>1, ReplicaCloseKind
<1>6. CASE ReplicaCloseFails(a)
  <2>1. /\ pc[a] = "open" /\ l1[a].mode # "read" /\ MayFinalize(a) /\ pc'[a] \in {"idle", "broken"}
        /\ contents' = contents /\ catalog' \in UnlockOutcomes(rst[a], l1[a].target, "stale", "restore")
    BY <1>6 DEF ReplicaCloseFails, AgentsOK
  <2> QED
    BY <2>1, HolderGivesBack
<1>7. CASE CloseBroken(a)
  <2>1. pc[a] = "broken" /\ Done(a) /\ catalog' = catalog /\ contents' = contents
    BY <1>7 DEF CloseBroken
  <2> QED
    BY <2>1, NotHolder, NoRole
<1>8. CASE Exit(a)
  <2>1. /\ pc[a] \in {"open", "finished"} /\ pc'[a] = "exiting" /\ catalog' = catalog
        /\ contents' = contents /\ rst'[a] = rst[a] /\ l1'[a] = l1[a]
        /\ l1[a].mode = "read" \/ MayFinalize(a)
    BY <1>8 DEF Exit, AgentsOK, OrderlyOpens
  <2>2. CASE pc[a] = "open"
    BY <2>1, <2>2, Proceeds DEF HolderPC
  <2>3. CASE pc[a] = "finished"
    BY <2>1, <2>3 DEF OwnInv, JoinedPlaces, MayFinalize, Joined
  <2> QED
    BY <2>1, <2>2, <2>3
<1> QED
  BY <1>1, <1>2, <1>3, <1>4, <1>5, <1>6, <1>7, <1>8, <1>9 DEF Leave

\* Making the target stale after it was unlocked is unlocking it as stale.
LEMMA SetStaleIsUnlock ==
    ASSUME NEW e \in RstEntry, NEW r \in Present(e.after), NEW s, NEW o
    PROVE  SetStatus(UnlockTarget(e, r, s, o), r, "stale") = UnlockTarget(e, r, "stale", o)
<1> DEFINE u == UnlockTarget(e, r, s, o)
           v == UnlockTarget(e, r, "stale", o)
<1>0. r \in Replicas /\ e.after[r].status # "absent"
  BY DEF Present
<1>1. /\ u.after = [q \in Replicas |->
            IF e.after[q].status = "absent" THEN e.after[q]
            ELSE MkRow(IF q = r THEN TargetStatus(e.after[q], s) ELSE SiblingStatus(e.after[q], o), "none")]
      /\ v.after = [q \in Replicas |->
            IF e.after[q].status = "absent" THEN e.after[q]
            ELSE MkRow(IF q = r THEN "stale" ELSE SiblingStatus(e.after[q], o), "none")]
      /\ u.before = e.before /\ v = [before |-> e.before, after |-> v.after]
  BY DEF UnlockTarget, RstWithAfter, TargetStatus
<1> HIDE DEF u, v
<1>2. u.after[r] = MkRow(TargetStatus(e.after[r], s), "none")
  BY <1>0, <1>1
<1>3. u.after[r].original = "none"
  BY <1>2, SMT DEF MkRow
<1>4. [u.after EXCEPT ![r] = MkRow("stale", "none")] = v.after
  BY <1>0, <1>1
<1> QED
  BY <1>1, <1>3, <1>4 DEF SetStatus, RstWithAfter, u, v

\* rsDataObjClose finalizes the object.
LEMMA FinalizeKind ==
    ASSUME NEW a \in Pids, BaseInv, OwnInv(a), OrderlyOpens, FinalizeDataObject(a) \/ FinalizeNotPublished(a)
    PROVE  StepKind(a)
<1> DEFINE r == l1[a].target
<1>0. SharedOK /\ AgentsOK /\ AgentStatus(a) /\ l1[a].mode \in {"read", "write", "create"}
  BY AgentSelf, DescFields DEF BaseInv, StatusInv
<1> USE <1>0
<1>1. pc[a] = "closing" /\ pc'[a] = "idle" /\ contents' = contents
  BY DEF FinalizeDataObject, FinalizeNotPublished, Done, AgentsOK
<1>2. Holder(a) /\ ~ Holder(a)' /\ l1[a].mode # "read" /\ rst[a] \in RstEntry
  <2>1. Holder(a)
    BY <1>1, WriterRoles DEF AgentStatus
  <2>2. ~ Holder(a)'
    BY <1>1 DEF Holder, HolderPC
  <2> QED
    BY <1>1, <2>1, <2>2, AgentSelf DEF AgentStatus
<1>3. /\ rst[a].after = catalog /\ r \in Present(catalog)
      /\ l1[a].mode = "write" => rst[a].before[r] \in AtRestStatus
  BY <1>1, <1>2 DEF OwnInv, HolderInv
<1>4. ASSUME NEW s \in GivenBack, NEW o \in {"stale", "restore"}, Ending(a, s, o),
             catalog' = Publish(catalog, UnlockTarget(rst[a], r, s, o))
      PROVE  StepKind(a)
  <2>1. TargetStatus(catalog[r], s) = s
    BY DEF TargetStatus, GivenBack
  <2> QED
    BY <1>1, <1>2, <1>4, <2>1, HolderUnlocks
<1>5. ASSUME NEW s \in GivenBack, NEW o \in {"stale", "restore"}, Ending(a, s, o),
             FinalEntry(a) = UnlockTarget(rst[a], r, s, o)
      PROVE  StepKind(a)
  <2>1. CASE FinalizeDataObject(a)
    BY <1>4, <1>5, <2>1 DEF FinalizeDataObject
  <2>2. CASE FinalizeNotPublished(a)
    <3>1. SetStatus(FinalEntry(a), r, "stale") = UnlockTarget(rst[a], r, "stale", o)
      BY <1>2, <1>3, <1>5, SetStaleIsUnlock
    <3>2. "publish" \in Faults /\ catalog' \in Published(UnlockTarget(rst[a], r, "stale", o))
      BY <2>2, <3>1 DEF FinalizeNotPublished
    <3>3. Ending(a, "stale", o) /\ "stale" \in GivenBack
      BY <3>2 DEF Ending, GivenBack
    <3>4. CASE catalog' = catalog
      BY <1>1, <1>2, <3>2, <3>4, NoRole DEF QuietEnds
    <3> QED
      BY <1>4, <3>2, <3>3, <3>4 DEF Published
  <2> QED
    BY <2>1, <2>2
<1>6. CASE l1[a].mode = "create" \/ l1[a].wrote
  <2>1. "good" \in GivenBack /\ Ending(a, "good", "stale")
    BY <1>1 DEF GivenBack, Ending
  <2>2. FinalEntry(a) = UnlockTarget(rst[a], r, "good", "stale")
    BY <1>6 DEF FinalEntry
  <2> QED
    BY <1>5, <2>1, <2>2
<1>7. CASE l1[a].mode = "write" /\ ~ l1[a].wrote
  <2>1. rst[a].before[r] \in GivenBack /\ Ending(a, rst[a].before[r], "restore")
    BY <1>3, <1>7 DEF GivenBack, Ending, AtRestStatus
  <2>2. FinalEntry(a) = UnlockTarget(rst[a], r, rst[a].before[r], "restore")
    BY <1>7 DEF FinalEntry
  <2> QED
    BY <1>5, <2>1, <2>2
<1> QED
  BY <1>2, <1>6, <1>7

LEMMA CloseStepKind ==
    ASSUME NEW a \in Pids, BaseInv, OwnInv(a), OrderlyOpens, CloseStep(a) \/ ExitWithoutOpenFile(a)
    PROVE  StepKind(a)
<1>0. /\ SharedOK /\ AgentsOK /\ AgentStatus(a)
      /\ l1[a].mode \in {"read", "write", "create"}
  BY AgentSelf, DescFields DEF BaseInv, StatusInv
<1>e. ~ ReplicaCloseUpdatesOnError(a)
  BY DEF ReplicaCloseUpdatesOnError, OwnInv, NoLeftover
<1>d. pc'[a] = "idle" /\ contents' = contents
  BY <1>0, <1>e DEF CloseStep, FinalizeDataObject, FinalizeNotPublished, FinalizeThrows,
              FinalizeFailedOperation, ReplicaCloseReleases, ExitFinalizes,
              ExitWithoutOpenFile, Done, AgentsOK
<1>h. ~ Holder(a)'
  BY <1>d DEF Holder, HolderPC
<1> USE <1>0, <1>d, <1>h
<1>1. CASE FinalizeDataObject(a) \/ FinalizeNotPublished(a)
  BY <1>1, FinalizeKind
<1>5. CASE FinalizeThrows(a)
  BY <1>5, NoRole DEF FinalizeThrows, QuietEnds
<1>2. CASE FinalizeFailedOperation(a)
  <2>1. pc[a] = "closing" /\ catalog' \in UnlockOutcomes(rst[a], l1[a].target, "stale", "restore")
    BY <1>2 DEF FinalizeFailedOperation
  <2>2. Holder(a)
    BY <2>1, WriterRoles DEF AgentStatus
  <2> QED
    BY <2>1, <2>2, HolderGivesBack
<1>3. CASE ReplicaCloseReleases(a) \/ ExitWithoutOpenFile(a)
  <2>1. pc[a] \in {"released", "idle", "broken"} /\ catalog' = catalog
    BY <1>3 DEF ReplicaCloseReleases, ExitWithoutOpenFile
  <2> QED
    BY <2>1, NotHolder, NoRole
<1>4. CASE ExitFinalizes(a)
  <2>1. /\ pc[a] = "exiting" /\ (l1[a].mode = "read" => catalog' = catalog)
        /\ l1[a].mode # "read" => catalog' \in UnlockOutcomes(rst[a], l1[a].target, "stale", "restore")
    BY <1>4 DEF ExitFinalizes
  <2>2. CASE l1[a].mode = "read"
    BY <2>1, <2>2, NotHolder, NoRole
  <2>3. CASE l1[a].mode # "read"
    <3>1. Holder(a)
      BY <2>1, <2>3, WriterRoles
    <3> QED
      BY <2>1, <2>3, <3>1, HolderGivesBack
  <2> QED
    BY <2>2, <2>3
<1> QED
  BY <1>e, <1>1, <1>2, <1>3, <1>4, <1>5 DEF CloseStep

LEMMA StepKinds ==
    ASSUME NEW a \in Pids, BaseInv, LockInv, WroteInv(a), OrderlyOpens, AgentStep(a)
    PROVE  StepKind(a)
<1>0. AgentsOK /\ OwnInv(a) /\ NewReplica(a)
  BY DEF BaseInv, LockInv
<1>1. CASE Request(a)
  <2>1. ASSUME NEW r, NEW m, NEW t, Resolve(a, r, m, t) PROVE StepKind(a)
    <3>1. pc[a] = "idle" /\ pc'[a] = "resolved" /\ catalog' = catalog /\ contents' = contents
      BY <1>0, <2>1 DEF Resolve, AgentsOK
    <3>2. ~ Holder(a) /\ ~ Holder(a)'
      BY <3>1 DEF Holder, HolderPC
    <3> QED
      BY <3>1, <3>2, NoRole
  <2>2. CASE Write(a)
    <3>1. /\ pc[a] = "open" /\ pc'[a] = "open" /\ rst'[a] = rst[a] /\ catalog' = catalog
          /\ l1'[a].target = l1[a].target /\ l1'[a].mode = l1[a].mode /\ l1'[a].wrote
      BY <1>0, <2>2 DEF Write, AgentsOK, Written, Desc
    <3> QED
      BY <2>2, <3>1, Proceeds DEF HolderPC
  <2> QED
    BY <1>1, <2>1, <2>2 DEF Request
<1>2. CASE Crash(a)
  <2>1. pc'[a] = "crashed" /\ catalog' = catalog /\ contents' = contents
    BY <1>0, <1>2 DEF Crash, AgentsOK
  <2>2. ~ Holder(a)'
    BY <2>1 DEF Holder, HolderPC
  <2> QED
    BY <2>1, <2>2, NoRole
<1>3. CASE Reap(a)
  <2>1. pc[a] = "crashed" /\ pc'[a] = "reaped" /\ catalog' = catalog /\ contents' = contents
    BY <1>0, <1>3 DEF Reap, AgentsOK
  <2>2. ~ Holder(a) /\ ~ Holder(a)'
    BY <2>1 DEF Holder, HolderPC
  <2> QED
    BY <2>1, <2>2, NoRole
<1> QED
  BY <1>0, <1>1, <1>2, <1>3, OpenStepKind, CreateStepKind, LeaveKind, CloseStepKind DEF AgentStep

-----------------------------------------------------------------------------
(* What the kinds of steps do to roles and rows.                           *)

\* A descriptor is marked as written by rsDataObjWrite only, and an agent that
\* has been killed does nothing any more.
LEMMA WroteSteps ==
    ASSUME NEW a \in Pids, AgentsOK, AgentStep(a), WroteInv(a)
    PROVE  /\ WroteInv(a)'
           /\ l1'[a].wrote /\ pc'[a] = "open" => Write(a)
           /\ pc[a] \in {"crashed", "reaped"} => pc'[a] \in {"crashed", "reaped"}
<1>0. NoDesc.wrote = FALSE
  BY DEF NoDesc, Desc
<1>d. Done(a) => pc'[a] = "idle" /\ l1'[a] = NoDesc
  BY DEF Done, AgentsOK
<1> USE <1>0, <1>d
<1>1. CASE Request(a)
  BY <1>1, SMT DEF Request, Resolve, Write, Written, Desc, AgentsOK, WroteInv
<1>2. CASE OpenStep(a)
  <2>1. CASE LockObject(a) \/ JoinObject(a) \/ ReadGranted(a) \/ OpenDenied(a)
    BY <2>1 DEF LockObject, JoinObject, ReadGranted, OpenDenied, AgentsOK, WroteInv
  <2>2. CASE OpenReplica(a) \/ TruncateReplica(a) \/ ChooseRatUpdate(a)
    BY <2>2, SMT DEF OpenReplica, TruncateReplica, ChooseRatUpdate, AgentsOK, WithToken, Desc, WroteInv
  <2>3. CASE OpenFails(a) \/ CreateRatEntry(a) \/ AppendToRatEntry(a) \/ RatUpdateFails(a)
    BY <2>3, SMT DEF OpenFails, CreateRatEntry, AppendToRatEntry, RatUpdateFails, AgentsOK, WithToken, Desc,
                     WroteInv
  <2> QED
    BY <1>2, <2>1, <2>2, <2>3 DEF OpenStep
<1>3. CASE CreateStep(a)
  <2>1. CASE CreateDenied(a) \/ LockForCreate(a) \/ RegisterReplica(a) \/ RegistrationFails(a)
    BY <2>1 DEF CreateDenied, LockForCreate, RegisterReplica, RegistrationFails, AgentsOK, WroteInv
  <2>2. CASE CreatePhysicalFile(a) \/ CreatePhysicalFileFails(a) \/ CleanUpUnlocks(a)
             \/ CleanUpUnregisters(a) \/ CreateRatFails(a)
    BY <2>2 DEF CreatePhysicalFile, CreatePhysicalFileFails, CleanUpUnlocks, CleanUpUnregisters,
                CreateRatFails, AgentsOK, WroteInv
  <2> QED
    BY <1>3, <2>1, <2>2 DEF CreateStep
<1>4. CASE Leave(a)
  BY <1>4 DEF Leave, FinishWriting, CloseRead, Close, ReplicaCloseSilently, ReplicaClose,
              ReplicaCloseSizeOnly, ReplicaCloseNotPublished, ReplicaCloseSizeNotPublished,
              ReplicaCloseFails, ReplicaCloseFailsSilently, CloseBroken, Exit, AgentsOK, WroteInv
<1>5. CASE CloseStep(a)
  BY <1>5 DEF CloseStep, FinalizeDataObject, FinalizeNotPublished, FinalizeThrows,
              FinalizeFailedOperation, ReplicaCloseUpdatesOnError, ReplicaCloseReleases,
              ExitFinalizes, AgentsOK, WroteInv
<1>6. CASE ExitWithoutOpenFile(a) \/ Crash(a) \/ Reap(a)
  BY <1>6 DEF ExitWithoutOpenFile, Crash, Reap, AgentsOK, WroteInv
<1> QED
  BY <1>1, <1>2, <1>3, <1>4, <1>5, <1>6 DEF AgentStep

\* A locked object has a row that is not at rest.
LEMMA LockableRow ==
    ASSUME NEW a \in Pids, OwnInv(a), Lockable(a)
    PROVE  /\ \E r \in Present(catalog) : catalog[r].status \notin LockStatus
           /\ l1[a].mode = "write" => /\ l1[a].target \in Present(catalog)
                                      /\ catalog[l1[a].target].status \notin LockStatus
           /\ l1[a].mode # "write" => l1[a].mode = "create" /\ l1[a].target \notin Present(catalog)
<1>1. info[a] = catalog
  BY DEF OwnInv, ResolvedInv
<1>2. CASE l1[a].mode = "write"
  BY <1>1, <1>2 DEF OwnInv, ResolvedInv, Lockable
<1>3. CASE l1[a].mode = "create"
  BY <1>1, <1>3 DEF OwnInv, ResolvedInv, Lockable, TryLockObject, Present
<1> QED
  BY <1>2, <1>3 DEF Lockable

\* Locking takes a catalog without recorded statuses to one that records them.
LEMMA LockedRows ==
    ASSUME NEW a \in Pids, BaseInv, OwnInv(a), Locks(a), \A r \in Present(catalog) : catalog[r].original = "none"
    PROVE  /\ Present(catalog') = Present(catalog) /\ Holder(a)'
           /\ \A r \in Replicas \ Present(catalog) : catalog'[r] = catalog[r]
           /\ \A r \in Present(catalog) :
                /\ catalog'[r].status =
                     IF l1[a].mode = "write" /\ r = l1[a].target THEN "intermediate" ELSE "write_locked"
                /\ catalog'[r].original = catalog[r].status
           /\ \A r \in Replicas : rst'[a].before[r] = catalog[r].status
<1> DEFINE e == RstInsert(NoEntry, catalog)
           t == l1[a].target
<1>0. catalog \in Rows /\ ProperRows(catalog)
  BY DEF BaseInv, SharedOK, StatusInv
<1>1. e \in RstEntry /\ ProperEntry(e) /\ Recordable(e)
  BY DEF Locks
<1>2. e.after = catalog /\ \A q \in Replicas : e.before[q] = catalog[q].status
  BY <1>0, LockIsPublished
<1>3. /\ Present(LockTarget(e, t).after) = Present(catalog)
      /\ Present(LockAll(e).after) = Present(catalog)
      /\ LockTarget(e, t).before = e.before /\ LockAll(e).before = e.before
  <2> HIDE DEF e
  <2> QED
    BY <1>1, <1>2, LockProper
<1>4. ASSUME NEW q \in Present(catalog)
      PROVE  /\ LockTarget(e, t).after[q] =
                    MkRow(IF q = t THEN "intermediate" ELSE "write_locked", catalog[q].status)
             /\ LockAll(e).after[q] = MkRow("write_locked", catalog[q].status)
  <2> HIDE DEF e
  <2>1. q \in Replicas /\ catalog[q].original = "none"
    BY DEF Present
  <2> QED
    BY <1>1, <1>2, <2>1, LockedRow
<1>5. ASSUME NEW q \in Replicas, q \notin Present(catalog)
      PROVE  LockTarget(e, t).after[q] = catalog[q] /\ LockAll(e).after[q] = catalog[q]
  <2> HIDE DEF e
  <2>1. catalog[q] = NoRow /\ LockTarget(e, t).after[q] = NoRow /\ LockAll(e).after[q] = NoRow
    BY <1>1, <1>2, <1>5, LockedRow, SMT
  <2> QED
    BY <2>1
<1>6. /\ rst'[a] = IF l1[a].mode = "write" THEN LockTarget(e, t) ELSE LockAll(e)
      /\ catalog' = rst'[a].after /\ Lockable(a) /\ l1'[a] = l1[a]
      /\ pc'[a] = IF l1[a].mode = "write" THEN "granted" ELSE "creating"
  BY DEF Locks
<1> HIDE DEF e
<1>7. ASSUME NEW r \in Present(catalog)
      PROVE  /\ catalog'[r].status = IF l1[a].mode = "write" /\ r = t THEN "intermediate" ELSE "write_locked"
             /\ catalog'[r].original = catalog[r].status
  <2>1. catalog'[r] = MkRow(IF l1[a].mode = "write" /\ r = t THEN "intermediate" ELSE "write_locked",
                            catalog[r].status)
    BY <1>4, <1>6
  <2> QED
    BY <2>1, SMT DEF MkRow
<1>8. Present(catalog') = Present(catalog) /\ \A r \in Replicas : rst'[a].before[r] = catalog[r].status
  BY <1>2, <1>3, <1>6
<1>9. Holder(a)'
  <2>1. CASE l1[a].mode = "write"
    <3>1. t \in Present(catalog) /\ t \in Replicas /\ catalog[t].status # "intermediate"
      BY <1>6, <2>1, LockableRow DEF LockStatus, Present
    <3> QED
      BY <1>6, <1>8, <2>1, <3>1 DEF Holder, HolderPC, Joined
  <2>2. CASE l1[a].mode = "create"
    <3>1. Present(rst'[a].after) # {}
      BY <1>6, <1>8, LockableRow
    <3>2. rst'[a] # NoEntry
      BY <3>1, SMT DEF NoEntry, NoRows, NoRow, Present
    <3> QED
      BY <1>6, <2>2, <3>2 DEF Holder
  <2> QED
    BY <1>6, <2>1, <2>2, LockableRow
<1> QED
  BY <1>5, <1>6, <1>7, <1>8, <1>9

\* A new replica is registered by the holder of the lock, or as the first one.
LEMMA RegisteredRows ==
    ASSUME NEW a \in Pids, BaseInv, LockInv, OrderlyOpens, RegisterReplica(a)
    PROVE  /\ l1[a].target \in Replicas \ Present(catalog) /\ l1[a].mode = "create" /\ l1'[a] = l1[a]
           /\ \A r \in Replicas : catalog'[r] = IF r = l1[a].target THEN NewRow ELSE catalog[r]
           /\ Present(catalog') = Present(catalog) \cup {l1[a].target}
           /\ \A r \in Present(catalog) : catalog[r].status = "write_locked"
           /\ Present(catalog) # {} => Holder(a)
           /\ \A b \in Pids \ {a} : ~ Holder(b) /\ ~ Joiner(b)
           /\ Holder(a)'
<1> DEFINE t == l1[a].target
<1>0. SharedOK /\ AgentsOK /\ AgentStatus(a) /\ catalog \in Rows /\ \A b \in Pids : OwnInv(b)
  BY DEF BaseInv, StatusInv, SharedOK, LockInv
<1>1. /\ pc[a] = "creating" /\ t \in Replicas /\ l1[a].mode = "create"
      /\ t \notin Present(catalog) /\ (rst[a] # NoEntry <=> Present(catalog) # {})
      /\ catalog' = [catalog EXCEPT ![t] = NewRow]
  BY <1>0, AgentSelf DEF RegisterReplica, Registrable, RstContains, AgentStatus, CreatePC
<1>2. NewRow.status = "intermediate" /\ pc'[a] = "registered" /\ l1'[a] = l1[a]
  BY <1>0 DEF NewRow, MkRow, RegisterReplica, AgentsOK
<1>3. /\ \A r \in Replicas : catalog'[r] = IF r = t THEN NewRow ELSE catalog[r]
      /\ Present(catalog') = Present(catalog) \cup {t}
  BY <1>0, <1>1, <1>2 DEF Rows, Present
<1>4. Present(catalog) # {} => Holder(a)
  BY <1>1 DEF Holder
<1>5. \A r \in Present(catalog) : catalog[r].status = "write_locked"
  BY <1>0, <1>1, <1>4 DEF OwnInv, HolderInv, LockedFor
<1>6. \A b \in Pids \ {a} : ~ Holder(b) /\ ~ Joiner(b)
  BY <1>0, <1>1, <1>4, NothingToHold, HolderAlone DEF OrderlyOpens
<1>7. Holder(a)'
  BY <1>1, <1>2 DEF Holder
<1> QED
  BY <1>1, <1>2, <1>3, <1>4, <1>5, <1>6, <1>7

\* After the end of a session no status is recorded and nobody holds the lock.
LEMMA UnlockedRows ==
    ASSUME NEW a \in Pids, BaseInv, LockInv, OrderlyOpens, OthersKeep(a), Holder(a),
           pc'[a] \in {"idle", "released", "broken"}, pc[a] # "open" \/ MayFinalize(a),
           NEW s \in GivenBack, NEW o \in {"stale", "restore"}, Ended(a, s, o)
    PROVE  /\ Present(catalog') = Present(catalog) /\ \A b \in Pids : ~ Holder(b)'
           /\ \A r \in Replicas \ Present(catalog) : catalog'[r] = catalog[r]
           /\ \A r \in Present(catalog) :
                /\ catalog'[r].status = IF r = l1[a].target THEN s ELSE SiblingStatus(catalog[r], o)
                /\ catalog'[r].original = "none"
<1>1. ASSUME NEW r \in Present(catalog)
      PROVE  /\ catalog'[r].status = IF r = l1[a].target THEN s ELSE SiblingStatus(catalog[r], o)
             /\ catalog'[r].original = "none" /\ catalog'[r].status # "absent"
  <2>1. r \in Replicas /\ ProperRow(catalog[r]) /\ catalog[r].status # "absent"
    BY DEF Present, BaseInv, StatusInv, ProperRows
  <2>2. RestoredSibling(catalog[r]) \in GivenBack
    BY <2>1, RestoredIsGivenBack
  <2>3. SiblingStatus(catalog[r], o) \in GivenBack
    BY <2>2 DEF SiblingStatus, GivenBack
  <2>4. catalog'[r] = MkRow(IF r = l1[a].target THEN s ELSE SiblingStatus(catalog[r], o), "none")
    BY <2>1 DEF Ended
  <2>5. /\ catalog'[r].status = IF r = l1[a].target THEN s ELSE SiblingStatus(catalog[r], o)
        /\ catalog'[r].original = "none"
    BY <2>4, SMT DEF MkRow
  <2> QED
    BY <2>3, <2>5 DEF GivenBack
<1>2. \A r \in Replicas \ Present(catalog) : catalog'[r] = catalog[r]
  BY DEF Ended
<1>3. Present(catalog') = Present(catalog)
  BY <1>1, <1>2 DEF Present
<1>4. \A b \in Pids : ~ Holder(b)'
  <2>1. ~ Holder(a)'
    BY DEF Holder, HolderPC
  <2>2. \A b \in Pids \ {a} : ~ Holder(b)
    BY HolderAlone DEF LockInv, OrderlyOpens
  <2> QED
    BY <2>1, <2>2, RolesOfOthers
<1> QED
  BY <1>1, <1>2, <1>3, <1>4

-----------------------------------------------------------------------------
(* A locked object is locked by somebody.                                  *)

QuietInv ==
    /\ \/ \A r \in Present(catalog) : AtRest(catalog[r])
       \/ /\ \A r \in Present(catalog) : catalog[r].status \in LockStatus
          /\ \E a \in Pids : Holder(a) \/ pc[a] \in {"crashed", "reaped"}
    /\ \A a \in Pids : Holder(a) =>
        \A r \in Present(catalog) :
            catalog[r].original \in AtRestStatus \/ (l1[a].mode = "create" /\ r = l1[a].target)

\* An agent that may lock the object finds it at rest.
LEMMA LockableAtRest ==
    ASSUME NEW a \in Pids, OwnInv(a), Lockable(a), QuietInv
    PROVE  \A r \in Present(catalog) : AtRest(catalog[r])
BY LockableRow DEF QuietInv

\* The target is not left intermediate.
LEMMA EndingAtRest ==
    ASSUME NEW a \in Pids, OwnInv(a), Holder(a), QuietEnds, NEW s, NEW o, Ending(a, s, o)
    PROVE  s \in AtRestStatus
<1>1. l1[a].mode = "write" => rst[a].before[l1[a].target] \in AtRestStatus
  BY DEF OwnInv, HolderInv
<1> QED
  BY <1>1 DEF Ending, AtRestStatus, QuietEnds

\* The end of a session leaves every replica at rest.
LEMMA UnlockedAtRest ==
    ASSUME NEW a \in Pids, BaseInv, LockInv, QuietInv, OrderlyOpens, OthersKeep(a), Holder(a),
           pc'[a] \in {"idle", "released", "broken"}, pc[a] # "open" \/ MayFinalize(a),
           NEW s \in AtRestStatus, NEW o \in {"stale", "restore"}, Ended(a, s, o)
    PROVE  \A r \in Present(catalog') : AtRest(catalog'[r])
<1>2. s \in GivenBack
  BY DEF AtRestStatus, GivenBack
<1>3. ASSUME NEW r \in Present(catalog), r # l1[a].target
      PROVE  SiblingStatus(catalog[r], o) \in AtRestStatus
  <2>1. catalog[r].original \in AtRestStatus
    BY <1>3 DEF QuietInv
  <2> QED
    BY <2>1 DEF SiblingStatus, RestoredSibling, AtRestStatus
<1>4. /\ Present(catalog') = Present(catalog)
      /\ \A r \in Present(catalog) :
            /\ catalog'[r].status = IF r = l1[a].target THEN s ELSE SiblingStatus(catalog[r], o)
            /\ catalog'[r].original = "none"
  BY <1>2, UnlockedRows
<1> QED
  BY <1>3, <1>4 DEF AtRest

LEMMA QuietStep ==
    ASSUME NEW a \in Pids, BaseInv, LockInv, QuietInv, WroteInv(a), OrderlyOpens, QuietEnds, AgentStep(a)
    PROVE  QuietInv'
<1>0. AgentsOK /\ SharedOK /\ OneOpening /\ OthersKeep(a) /\ \A b \in Pids : OwnInv(b)
  BY StepKeepsOthers DEF BaseInv, LockInv
<1>1. \A b \in Pids \ {a} : /\ Holder(b)' <=> Holder(b)
                            /\ pc'[b] = pc[b] /\ l1'[b] = l1[b]
  BY <1>0, RolesOfOthers DEF OthersKeep
<1>2. CASE Stays(a)
  <2>1. catalog' = catalog
    BY <1>2 DEF Stays
  <2>2. ASSUME NEW b \in Pids, Holder(b) \/ pc[b] \in {"crashed", "reaped"}
        PROVE  Holder(b)' \/ pc'[b] \in {"crashed", "reaped"}
    BY <1>0, <1>1, <1>2, <2>2, WroteSteps DEF Stays
  <2>3. ASSUME NEW b \in Pids, Holder(b)'
        PROVE  Holder(b) /\ l1'[b].mode = l1[b].mode /\ l1'[b].target = l1[b].target
    BY <1>1, <1>2, <2>3 DEF Stays
  <2> QED
    BY <2>1, <2>2, <2>3 DEF QuietInv
<1>3. CASE Locks(a)
  <2>1. \A r \in Present(catalog) : AtRest(catalog[r])
    BY <1>0, <1>3, LockableAtRest DEF Locks
  <2>2. /\ Present(catalog') = Present(catalog) /\ Holder(a)'
        /\ \A r \in Present(catalog) : catalog'[r].status \in LockStatus /\ catalog'[r].original \in AtRestStatus
    BY <1>0, <1>3, <2>1, LockedRows DEF AtRest, LockStatus
  <2> QED
    BY <2>2 DEF QuietInv
<1>4. CASE RegisterReplica(a)
  <2>1. /\ l1[a].target \in Replicas \ Present(catalog) /\ l1[a].mode = "create" /\ l1'[a] = l1[a]
        /\ \A r \in Replicas : catalog'[r] = IF r = l1[a].target THEN NewRow ELSE catalog[r]
        /\ Present(catalog') = Present(catalog) \cup {l1[a].target}
        /\ \A r \in Present(catalog) : catalog[r].status = "write_locked"
        /\ Present(catalog) # {} => Holder(a)
        /\ \A b \in Pids \ {a} : ~ Holder(b)
        /\ Holder(a)'
    BY <1>4, RegisteredRows
  <2>2. NewRow.status = "intermediate"
    BY DEF NewRow, MkRow
  <2>3. \A r \in Present(catalog) : r \in Replicas /\ r # l1[a].target /\ catalog'[r] = catalog[r]
    BY <2>1 DEF Present
  <2>4. \A r \in Present(catalog') : catalog'[r].status \in LockStatus
    BY <2>1, <2>2, <2>3 DEF LockStatus
  <2>5. ASSUME NEW b \in Pids, Holder(b)', NEW r \in Present(catalog')
        PROVE  catalog'[r].original \in AtRestStatus \/ (l1'[b].mode = "create" /\ r = l1'[b].target)
    <3>1. b = a
      BY <1>1, <2>1, <2>5
    <3> QED
      BY <2>1, <2>3, <3>1 DEF QuietInv
  <2> QED
    BY <2>1, <2>4, <2>5 DEF QuietInv
<1>5. CASE Unlocks(a)
  <2>1. PICK s \in GivenBack, o \in {"stale", "restore"} : Ending(a, s, o) /\ Ended(a, s, o)
    BY <1>5 DEF Unlocks
  <2>2. \A r \in Present(catalog') : AtRest(catalog'[r])
    BY <1>0, <1>5, <2>1, EndingAtRest, UnlockedAtRest DEF Unlocks
  <2>3. \A b \in Pids : ~ Holder(b)'
    BY <1>0, <1>5, <2>1, UnlockedRows DEF Unlocks
  <2> QED
    BY <2>2, <2>3 DEF QuietInv
<1> QED
  BY <1>2, <1>3, <1>4, <1>5, StepKinds DEF StepKind

WrittenInv == \A a \in Pids : WroteInv(a)

LEMMA WrittenStep ==
    ASSUME FullInv, WrittenInv, [Next]_vars
    PROVE  WrittenInv'
<1>1. CASE UNCHANGED vars
  BY <1>1 DEF vars, WrittenInv, WroteInv
<1>2. ASSUME NEW a \in Pids, AgentStep(a) PROVE WrittenInv'
  <2>1. AgentsOK /\ OthersKeep(a)
    BY <1>2, InvParts, StepKeepsOthers DEF FullInv
  <2>2. WroteInv(a)'
    BY <1>2, <2>1, WroteSteps DEF WrittenInv
  <2>3. \A b \in Pids \ {a} : WroteInv(b)'
    BY <2>1 DEF WrittenInv, WroteInv, OthersKeep
  <2> QED
    BY <2>2, <2>3 DEF WrittenInv
<1> QED
  BY <1>1, <1>2 DEF Next, AgentStep

LEMMA WrittenInit == Init => WrittenInv
<1>1. NoDesc.wrote = FALSE
  BY DEF NoDesc, Desc
<1> QED
  BY <1>1 DEF Init, WrittenInv, WroteInv

LEMMA BaseOfFull == FullInv => BaseInv /\ LockInv
BY InvParts DEF FullInv, BaseInv

LEMMA RestInit ==
    ASSUME Init
    PROVE  /\ \A r \in Present(catalog) : AtRest(catalog[r])
           /\ \A a \in Pids : ~ Holder(a) /\ ~ Joiner(a)
<1>1. ASSUME NEW r \in Present(catalog) PROVE AtRest(catalog[r])
  <2>1. r \in Replicas /\ catalog[r] # NoRow
    BY SMT DEF Present, NoRow
  <2>2. catalog[r] \in {NoRow} \cup {MkRow(s, "none") : s \in AtRestStatus}
    BY <2>1 DEF Init
  <2>3. PICK s \in AtRestStatus : catalog[r] = MkRow(s, "none")
    BY <2>1, <2>2, SMT
  <2> QED
    BY <2>3, SMT DEF MkRow, AtRest
<1>2. \A a \in Pids : ~ Holder(a) /\ ~ Joiner(a)
  BY DEF Init, Holder, HolderPC, Joiner, JoinerPC
<1> QED
  BY <1>1, <1>2

LEMMA QuietInit == Init => QuietInv
BY RestInit DEF QuietInv

LEMMA QuietNext ==
    ASSUME OrderlyOpens, QuietEnds, FullInv, WrittenInv, QuietInv, [Next]_vars
    PROVE  QuietInv'
<1>1. CASE UNCHANGED vars
  <2>1. UNCHANGED <<catalog, rst, pc, l1>>
    BY <1>1 DEF vars
  <2>2. \A a \in Pids : Holder(a)' <=> Holder(a)
    BY <2>1 DEF Holder, Joined
  <2> QED
    BY <2>1, <2>2 DEF QuietInv
<1>2. ASSUME NEW a \in Pids, AgentStep(a) PROVE QuietInv'
  BY <1>2, BaseOfFull, QuietStep DEF WrittenInv
<1> QED
  BY <1>1, <1>2 DEF Next, AgentStep

\* If in addition no catalog update fails, no client asks replica_close for the
\* size only and rsDataObjClose does not throw while it applies metadata or access
\* control (rsDataObjClose.cpp:342-343, where it keeps the lock), every path
\* through open, create, close and exit gives the lock back, failures of the
\* storage included: when every agent is between requests, the object is unlocked.
THEOREM LocksAreGivenBack == OrderlyOpens /\ QuietEnds => (Spec => []QuiescentIsAtRest)
<1> SUFFICES ASSUME OrderlyOpens, QuietEnds PROVE Spec => []QuiescentIsAtRest
  OBVIOUS
<1>1. Init => FullInv /\ WrittenInv /\ QuietInv
  BY FullInit, WrittenInit, QuietInit
<1>2. FullInv /\ WrittenInv /\ QuietInv /\ [Next]_vars => FullInv' /\ WrittenInv' /\ QuietInv'
  BY FullStep, WrittenStep, QuietNext
<1>3. QuietInv => QuiescentIsAtRest
  BY NotHolder DEF QuietInv, QuiescentIsAtRest
<1> QED
  BY <1>1, <1>2, <1>3, PTL DEF Spec

-----------------------------------------------------------------------------
(* Sessions.                                                               *)

LEMMA TheOne ==
    ASSUME NEW r
    PROVE  (CHOOSE q \in {r} : TRUE) = r
OBVIOUS

\* What the catalog shows while an agent holds the lock, and while nobody does.
HolderShows ==
    \A a \in Pids : OwnInv(a) /\ Holder(a) =>
        Locked /\ SessionTarget = IF pc[a] = "creating" THEN NoReplica ELSE l1[a].target

RestShows ==
    (\A r \in Present(catalog) : AtRest(catalog[r])) => ~ Locked /\ SessionTarget = NoReplica

LEMMA SessionOfHolder == HolderShows
<1> SUFFICES ASSUME NEW a \in Pids, OwnInv(a), Holder(a)
             PROVE  /\ Locked
                    /\ SessionTarget = IF pc[a] = "creating" THEN NoReplica ELSE l1[a].target
  BY DEF HolderShows
<1> DEFINE t == l1[a].target
<1>1. /\ LockedFor(t)
      /\ IF pc[a] = "creating" THEN Present(catalog) # {} /\ t \notin Present(catalog)
                               ELSE t \in Present(catalog)
  BY DEF OwnInv, HolderInv
<1>2. Locked
  BY <1>1 DEF LockedFor, Locked, AtRest, AtRestStatus
<1>3. \A r \in Replicas : catalog[r].status = "intermediate" <=> r = t /\ t \in Present(catalog)
  BY <1>1 DEF LockedFor, Present
<1>4. CASE pc[a] = "creating"
  <2>1. Intermediate = {}
    BY <1>1, <1>3, <1>4 DEF Intermediate
  <2> QED
    BY <1>2, <1>4, <2>1 DEF SessionTarget
<1>5. CASE pc[a] # "creating"
  <2>1. Intermediate = {t}
    BY <1>1, <1>3, <1>5 DEF Intermediate, Present
  <2> QED
    BY <1>2, <1>5, <2>1, TheOne DEF SessionTarget
<1> QED
  BY <1>4, <1>5

LEMMA SessionAtRest == RestShows
<1> SUFFICES ASSUME \A r \in Present(catalog) : AtRest(catalog[r])
             PROVE  ~ Locked /\ SessionTarget = NoReplica
  BY DEF RestShows
<1>1. Intermediate = {}
  BY DEF Intermediate, Present, AtRest, AtRestStatus
<1> QED
  BY <1>1 DEF Locked, SessionTarget

LEMMA PrimedShows ==
    HolderShows' /\ RestShows'
BY SessionOfHolder, SessionAtRest, PTL

\* Every session ends by rsDataObjClose, by the exit of the agent or on an error
\* path, with a published status.
SessionEnds == QuietEnds /\ Clients \cap {"replica_close", "status_only"} = {}

LEMMA LockedIsBoolean == Locked \in BOOLEAN /\ Locked' \in BOOLEAN
BY DEF Locked

LEMMA BeginsSession ==
    ASSUME NEW a \in Pids, BaseInv, LockInv, QuietInv, OwnInv(a)', Locks(a)
    PROVE  Session!Begin
<1>0. OwnInv(a) /\ Lockable(a) /\ l1'[a] = l1[a]
  BY DEF LockInv, Locks
<1>1. /\ \A r \in Present(catalog) : AtRest(catalog[r])
      /\ Present(catalog) # {}
  BY <1>0, LockableAtRest, LockableRow
<1>2. /\ Present(catalog') = Present(catalog) /\ Holder(a)'
      /\ \A r \in Present(catalog) : catalog'[r].original = catalog[r].status
  BY <1>0, <1>1, LockedRows DEF AtRest
<1>3. ~ Locked /\ SessionTarget = NoReplica
  BY <1>1, SessionAtRest DEF RestShows
<1>4. Locked' /\ SessionTarget' \in Present(catalog) \cup {NoReplica}
  <2>1. Locked' /\ SessionTarget' = IF pc'[a] = "creating" THEN NoReplica ELSE l1'[a].target
    BY <1>2, PrimedShows DEF HolderShows
  <2>2. l1[a].mode = "write" => l1[a].target \in Present(catalog)
    BY <1>0, LockableRow
  <2> QED
    BY <1>0, <2>1, <2>2 DEF Locks
<1>5. GoodReplicas' = GoodReplicas
  <2>1. \A r \in Present(catalog) : Underlying(catalog'[r]) = Underlying(catalog[r])
    BY <1>1, <1>2 DEF Underlying, AtRest, AtRestStatus
  <2> QED
    BY <1>2, <2>1 DEF GoodReplicas
<1> QED
  BY <1>1, <1>2, <1>3, <1>4, <1>5 DEF Session!Begin

LEMMA RegistersReplica ==
    ASSUME NEW a \in Pids, BaseInv, LockInv, OwnInv(a)', RegisterReplica(a), OrderlyOpens
    PROVE  Session!Register
<1> DEFINE t == l1[a].target
<1>1. /\ t \in Replicas \ Present(catalog) /\ l1'[a] = l1[a]
      /\ \A r \in Replicas : catalog'[r] = IF r = t THEN NewRow ELSE catalog[r]
      /\ Present(catalog') = Present(catalog) \cup {t}
      /\ Present(catalog) # {} => Holder(a)
      /\ Holder(a)'
  BY RegisteredRows
<1>2. pc[a] = "creating" /\ pc'[a] = "registered" /\ OwnInv(a)
  BY DEF RegisterReplica, BaseInv, AgentsOK, LockInv
<1>3. SessionTarget = NoReplica /\ (Locked <=> Present(catalog) # {})
  <2>1. CASE Present(catalog) = {}
    BY <2>1, SessionAtRest DEF RestShows
  <2>2. CASE Present(catalog) # {}
    BY <1>1, <1>2, <2>2, SessionOfHolder DEF HolderShows
  <2> QED
    BY <2>1, <2>2
<1>4. Locked' /\ SessionTarget' = t
  BY <1>1, <1>2, PrimedShows DEF HolderShows
<1>5. GoodReplicas' = GoodReplicas
  <2>1. Underlying(NewRow) # "good"
    BY SMT DEF Underlying, NewRow, MkRow
  <2>2. \A r \in Present(catalog) : catalog'[r] = catalog[r]
    BY <1>1 DEF Present
  <2> QED
    BY <1>1, <2>1, <2>2 DEF GoodReplicas
<1> QED
  BY <1>1, <1>3, <1>4, <1>5 DEF Session!Register

LEMMA EndsSession ==
    ASSUME NEW a \in Pids, BaseInv, LockInv, QuietInv, Unlocks(a), OthersKeep(a), OrderlyOpens, SessionEnds
    PROVE  Session!Commit \/ Session!Abort
<1> DEFINE t == l1[a].target
<1>0. OwnInv(a) /\ Holder(a) /\ QuietEnds
      /\ pc'[a] \in {"idle", "released", "broken"} /\ (pc[a] # "open" \/ MayFinalize(a))
  BY DEF LockInv, Unlocks, SessionEnds
<1>1. PICK s \in GivenBack, o \in {"stale", "restore"} : Ending(a, s, o) /\ Ended(a, s, o)
  BY DEF Unlocks
<1>2. /\ Present(catalog') = Present(catalog)
      /\ \A r \in Present(catalog) :
            /\ catalog'[r].status = IF r = t THEN s ELSE SiblingStatus(catalog[r], o)
            /\ catalog'[r].original = "none"
  BY <1>0, <1>1, UnlockedRows
<1>3. Locked /\ SessionTarget = IF pc[a] = "creating" THEN NoReplica ELSE t
  BY <1>0, SessionOfHolder DEF HolderShows
<1>4. ~ Locked' /\ SessionTarget' = NoReplica
  BY <1>0, <1>1, EndingAtRest, UnlockedAtRest, PrimedShows DEF RestShows
<1>5. Session!Over
  BY <1>2, <1>4, LockedIsBoolean DEF Session!Over
<1>6. IF pc[a] = "creating" THEN t \notin Present(catalog) ELSE t \in Present(catalog)
  BY <1>0 DEF OwnInv, HolderInv
<1>7. \A r \in Present(catalog) : Underlying(catalog'[r]) = IF r = t THEN s ELSE SiblingStatus(catalog[r], o)
  BY <1>2 DEF Underlying
<1>8. CASE o = "restore"
  <2>1. \A r \in Present(catalog) : SiblingStatus(catalog[r], o) = Underlying(catalog[r])
    BY <1>8 DEF SiblingStatus, RestoredSibling, Underlying
  <2>2. CASE s = "stale"
    <3>1. GoodReplicas' = GoodReplicas \ {t}
      <4>1. ASSUME NEW r \in Present(catalog)
            PROVE  Underlying(catalog'[r]) = "good" <=> r # t /\ Underlying(catalog[r]) = "good"
        BY <1>7, <2>1, <2>2
      <4> QED
        BY <1>2, <4>1 DEF GoodReplicas
    <3>2. t \notin Present(catalog) => GoodReplicas \ {t} = GoodReplicas
      BY DEF GoodReplicas
    <3> QED
      BY <1>3, <1>5, <1>6, <3>1, <3>2 DEF Session!Abort
  <2>3. CASE s = rst[a].before[t] /\ l1[a].mode = "write"
    <3>1. s \in AtRestStatus /\ catalog[t].original = s
      BY <1>0, <2>3 DEF OwnInv, HolderInv
    <3>2. Underlying(catalog[t]) = s
      BY <3>1 DEF Underlying, AtRestStatus
    <3>3. GoodReplicas' = GoodReplicas
      <4>1. ASSUME NEW r \in Present(catalog)
            PROVE  Underlying(catalog'[r]) = Underlying(catalog[r])
        BY <1>7, <2>1, <3>2
      <4> QED
        BY <1>2, <4>1 DEF GoodReplicas
    <3> QED
      BY <1>3, <1>5, <3>3 DEF Session!Abort
  <2> QED
    BY <1>1, <1>8, <2>2, <2>3 DEF Ending
<1>9. CASE o = "stale"
  <2>1. s = "good" /\ pc[a] # "creating"
    BY <1>0, <1>1, <1>9 DEF Ending, SessionEnds, QuietEnds
  <2>2. GoodReplicas' = {t}
    BY <1>2, <1>6, <1>7, <1>9, <2>1 DEF GoodReplicas, SiblingStatus
  <2>3. t # NoReplica
    BY <1>6, <2>1, DistinctAssumption DEF Present
  <2> QED
    BY <1>3, <1>5, <2>1, <2>2, <2>3 DEF Session!Commit
<1> QED
  BY <1>8, <1>9

LEMMA SessionStutter ==
    ASSUME catalog' = catalog
    PROVE  UNCHANGED Session!session
<1>1. Present(catalog') = Present(catalog) /\ Locked' = Locked /\ GoodReplicas' = GoodReplicas
  BY DEF GoodReplicas, Locked
<1>2. SessionTarget' = SessionTarget
  <2>1. Intermediate' = Intermediate
    BY DEF Intermediate
  <2> QED
    BY <2>1, SMT DEF SessionTarget
<1> QED
  BY <1>1, <1>2 DEF Session!session

LEMMA AgentSession ==
    ASSUME NEW a \in Pids, OrderlyOpens, SessionEnds, BaseInv, LockInv, WroteInv(a), QuietInv,
           Request(a) => CleanStart(a), AgentStep(a)
    PROVE  [Session!Next]_(Session!session)
<1>1. AgentsOK /\ QuietEnds
  BY DEF BaseInv, SessionEnds
<1>2. OwnInv(a)' /\ OthersKeep(a)
  BY <1>1, StepKeepsLocks, StepKeepsOthers DEF KeepsLocks
<1>3. CASE Stays(a)
  BY <1>3, SessionStutter DEF Stays
<1>4. CASE Locks(a)
  BY <1>2, <1>4, BeginsSession DEF Session!Next
<1>5. CASE RegisterReplica(a)
  BY <1>2, <1>5, RegistersReplica DEF Session!Next
<1>6. CASE Unlocks(a)
  BY <1>2, <1>6, EndsSession DEF Session!Next
<1> QED
  BY <1>3, <1>4, <1>5, <1>6, StepKinds DEF StepKind

LEMMA SessionStep ==
    ASSUME OrderlyOpens, SessionEnds, FullInv, WrittenInv, QuietInv, [Next]_vars
    PROVE  [Session!Next]_(Session!session)
<1>1. CASE UNCHANGED vars
  BY <1>1, SessionStutter DEF vars
<1>2. ASSUME NEW a \in Pids, AgentStep(a) PROVE [Session!Next]_(Session!session)
  <2>1. BaseInv /\ LockInv /\ WroteInv(a) /\ CleanStart(a)
    BY BaseOfFull DEF WrittenInv, FullInv, IdleAgentHasNoEntry, CleanStart
  <2> QED
    BY <1>2, <2>1, AgentSession
<1> QED
  BY <1>1, <1>2 DEF Next, AgentStep

LEMMA SessionInit == Init => Session!Init
<1> SUFFICES ASSUME Init PROVE Session!Init
  OBVIOUS
<1>1. Locked = FALSE /\ SessionTarget = NoReplica
  BY RestInit, SessionAtRest, LockedIsBoolean DEF RestShows
<1>2. Present(catalog) \in SUBSET Replicas /\ GoodReplicas \in SUBSET Present(catalog)
  BY DEF Present, GoodReplicas
<1> QED
  BY <1>1, <1>2 DEF Session!Init

\* Opens, writes and closes implement WriteSession: whatever agents, joined
\* streams, storage errors and crashes do, the catalog shows one session after
\* the other, each ending with the target as the only good replica or with the
\* replicas as good as before, except perhaps the target.  OrderlyOpens excludes
\* the loss of a secondary stream (close_all_l1_descriptors ends the session
\* under the primary) and SessionEnds the ends that are not published.
THEOREM SessionsAreImplemented == OrderlyOpens /\ SessionEnds => (Spec => IsWriteSession)
<1> SUFFICES ASSUME OrderlyOpens, SessionEnds PROVE Spec => IsWriteSession
  OBVIOUS
<1>0. QuietEnds
  BY DEF SessionEnds
<1>1. Init => FullInv /\ WrittenInv /\ QuietInv
  BY FullInit, WrittenInit, QuietInit
<1>2. FullInv /\ WrittenInv /\ QuietInv /\ [Next]_vars => FullInv' /\ WrittenInv' /\ QuietInv'
  BY <1>0, FullStep, WrittenStep, QuietNext
<1>3. FullInv /\ WrittenInv /\ QuietInv /\ [Next]_vars => [Session!Next]_(Session!session)
  BY SessionStep
<1> QED
  BY <1>1, <1>2, <1>3, SessionInit, PTL DEF Spec, IsWriteSession, Session!Spec

-----------------------------------------------------------------------------
(* Good replicas agree.                                                    *)

\* A write-mode open is not truncated, and the primary stream of a parallel
\* transfer writes when a secondary one does.
DisciplinedWrites == Clients \cap {"truncate", "idle_primary"} = {}

CountsAsGood(r) == catalog[r].status # "intermediate" /\ Underlying(catalog[r]) = "good"

\* The replica was good when it was opened, and nothing has been written to it:
\* if its writer closes now, it is good again.
StillGood(r) ==
    \E a \in Pids : /\ Holder(a) /\ l1[a].mode = "write" /\ ~ l1[a].wrote
                    /\ l1[a].target = r /\ rst[a].before[r] = "good"

Valued(r) == CountsAsGood(r) \/ StillGood(r)

ValuedAgree == \A r, s \in Replicas : Valued(r) /\ Valued(s) => contents[r] = contents[s]

\* Statuses are recorded while the object is locked only.
RecordedWhileLocked ==
    \A r, s \in Present(catalog) : catalog[r].original # "none" => catalog[s].status \in LockStatus

\* The primary stream writes before a stream that has joined it.
PrimaryWrites == \A a, h \in Pids : l1[a].wrote /\ Joiner(a) /\ Holder(h) => l1[h].wrote

GoodInv == ValuedAgree /\ RecordedWhileLocked /\ PrimaryWrites

\* Who writes to a replica shares the lock.
LEMMA OpenRole ==
    ASSUME NEW a, pc[a] = "open", l1[a].mode \in {"write", "create"}
    PROVE  Holder(a) \/ (Joiner(a) /\ Joined(a))
BY DEF Holder, HolderPC, Joiner, JoinerPC

LEMMA JoinerWrite ==
    ASSUME NEW a \in Pids, NEW h \in Pids, BaseInv, LockInv, WrittenInv, PrimaryWrites,
           OrderlyOpens, DisciplinedWrites, Write(a), Joiner(a), Holder(h)
    PROVE  l1[h].wrote
<1>1. Joined(a)
  BY DEF Joiner, Write
<1>2. PICK b \in Pids : pc[b] = "open" /\ l1[b].wrote
  BY <1>1 DEF Write, MayWrite, OrderlyOpens, DisciplinedWrites
<1>3. l1[b].mode \in {"write", "create"}
  <2>1. l1[b] \in Descriptor /\ l1[b].mode # "read"
    BY <1>2, AgentSelf DEF BaseInv, WrittenInv, WroteInv
  <2> QED
    BY <2>1, SMT DEF Descriptor
<1>4. Holder(b) \/ Joiner(b)
  BY <1>2, <1>3, OpenRole
<1>5. Holder(b) => b = h
  BY DEF LockInv, OwnInv, HolderInv
<1> QED
  BY <1>2, <1>4, <1>5 DEF PrimaryWrites

\* A replica that is written to does not count: it is intermediate, and whoever
\* holds the lock has written.
LEMMA WrittenIsNotValued ==
    ASSUME NEW a \in Pids, BaseInv, LockInv, WrittenInv, PrimaryWrites, OthersKeep(a),
           OrderlyOpens, DisciplinedWrites, Stays(a), Write(a) \/ CreatePhysicalFile(a)
    PROVE  \A r \in Replicas : Valued(r)' => contents'[r] = contents[r]
<1> DEFINE t == l1[a].target
<1>0. /\ contents \in [Replicas -> Versions] /\ AgentsOK /\ AgentStatus(a) /\ l1[a] \in Descriptor
      /\ catalog' = catalog /\ \A b \in Pids : OwnInv(b)
  BY AgentSelf DEF BaseInv, SharedOK, StatusInv, LockInv, Stays
<1>1. \A r \in Replicas : r # t => contents'[r] = contents[r]
  BY <1>0 DEF Write, CreatePhysicalFile
<1>2. Holder(a) \/ (Joiner(a) /\ Joined(a))
  <2>1. CASE Write(a)
    <3>1. l1[a].mode \in {"write", "create"}
      BY <1>0, <2>1, SMT DEF Write, Descriptor
    <3> QED
      BY <2>1, <3>1, OpenRole DEF Write
  <2>2. CASE CreatePhysicalFile(a)
    BY <1>0, <2>2 DEF CreatePhysicalFile, AgentStatus, CreatePC, Holder
  <2> QED
    BY <2>1, <2>2
<1>3. ASSUME NEW r, CountsAsGood(r)' PROVE r # t
  <2>1. pc[a] # "creating"
    BY DEF Write, CreatePhysicalFile
  <2>2. t \in Present(catalog) /\ LockedFor(t)
    BY <1>0, <1>2, <2>1 DEF OwnInv, HolderInv, JoinerInv
  <2> QED
    BY <1>0, <1>3, <2>2 DEF CountsAsGood, LockedFor
<1>4. ASSUME NEW b \in Pids, Holder(b)', l1'[b].mode = "write", ~ l1'[b].wrote
      PROVE  FALSE
  <2>1. /\ Holder(b) /\ l1'[b].mode = l1[b].mode
        /\ b # a => l1'[b] = l1[b]
    BY <1>4, RolesOfOthers DEF Stays, OthersKeep
  <2>2. CASE Holder(a)
    <3>1. a = b
      BY <1>0, <2>1, <2>2 DEF OwnInv, HolderInv
    <3>2. Write(a) => l1'[a].wrote
      BY <1>0, SMT DEF Write, Written, Desc, AgentsOK
    <3>3. CreatePhysicalFile(a) => l1[a].mode = "create"
      BY <1>0 DEF CreatePhysicalFile, AgentStatus, CreatePC
    <3> QED
      BY <1>4, <2>1, <3>1, <3>2, <3>3
  <2>3. CASE Joiner(a) /\ Joined(a)
    <3>1. b # a
      BY <2>1, <2>3, NotHolder
    <3>2. Write(a)
      BY <1>0, <2>3 DEF CreatePhysicalFile, AgentStatus, CreatePC, Joiner
    <3>3. l1[b].wrote
      BY <2>1, <2>3, <3>2, JoinerWrite
    <3> QED
      BY <1>4, <2>1, <3>1, <3>3
  <2> QED
    BY <1>2, <2>2, <2>3
<1> QED
  BY <1>1, <1>3, <1>4 DEF Valued, StillGood

LEMMA GoodStays ==
    ASSUME NEW a \in Pids, BaseInv, LockInv, WrittenInv, WrittenInv', GoodInv, OthersKeep(a),
           OrderlyOpens, DisciplinedWrites, AgentStep(a), Stays(a)
    PROVE  GoodInv'
<1>0. AgentsOK /\ WroteInv(a) /\ PrimaryWrites /\ catalog' = catalog
  BY DEF BaseInv, WrittenInv, GoodInv, Stays
<1>1. ASSUME NEW b \in Pids, Holder(b)'
      PROVE  /\ Holder(b) /\ l1'[b].mode = l1[b].mode /\ l1'[b].target = l1[b].target
             /\ rst'[b] = rst[b] /\ (l1[b].wrote => l1'[b].wrote)
  BY <1>1, RolesOfOthers DEF Stays, OthersKeep
<1>2. ASSUME NEW r \in Replicas, Valued(r)' PROVE Valued(r)
  <2>1. CountsAsGood(r)' => CountsAsGood(r)
    BY <1>0 DEF CountsAsGood
  <2>2. StillGood(r)' => StillGood(r)
    BY <1>1 DEF StillGood
  <2> QED
    BY <1>2, <2>1, <2>2 DEF Valued
<1>3. ValuedAgree'
  <2>1. CASE contents' = contents
    BY <1>2, <2>1 DEF GoodInv, ValuedAgree
  <2>2. CASE Write(a) \/ CreatePhysicalFile(a)
    <3>1. ASSUME NEW r \in Replicas, Valued(r)' PROVE Valued(r) /\ contents'[r] = contents[r]
      BY <1>0, <1>2, <2>2, <3>1, WrittenIsNotValued
    <3> QED
      BY <3>1 DEF GoodInv, ValuedAgree
  <2>3. ~ TruncateReplica(a)
    BY DEF TruncateReplica, DisciplinedWrites
  <2> QED
    BY <2>1, <2>2, <2>3 DEF Stays
<1>4. RecordedWhileLocked'
  BY <1>0 DEF GoodInv, RecordedWhileLocked
<1>5. ASSUME NEW x \in Pids, NEW h \in Pids, l1'[x].wrote, Joiner(x)', Holder(h)'
      PROVE  l1'[h].wrote
  <2>1. Holder(h) /\ (l1[h].wrote => l1'[h].wrote)
    BY <1>1, <1>5
  <2>2. CASE x # a
    BY <1>0, <1>5, <2>1, <2>2, RolesOfOthers DEF OthersKeep, PrimaryWrites
  <2>3. CASE x = a
    <3>1. pc'[a] = "open"
      BY <1>5, <2>3 DEF WrittenInv, WroteInv, Joiner, JoinerPC
    <3>2. Write(a)
      BY <1>0, <1>5, <2>3, <3>1, WroteSteps
    <3>3. l1'[a].mode = l1[a].mode /\ l1'[a].target = l1[a].target /\ pc[a] = "open" /\ rst'[a] = rst[a]
      BY <1>0, <3>2 DEF Write, Written, Desc, AgentsOK
    <3>4. Joiner(a)
      BY <1>5, <2>3, <3>1, <3>3 DEF Joiner, Joined
    <3> QED
      BY <1>0, <2>1, <3>2, <3>4, JoinerWrite
  <2> QED
    BY <2>2, <2>3
<1> QED
  BY <1>3, <1>4, <1>5 DEF GoodInv, PrimaryWrites

LEMMA GoodLocks ==
    ASSUME NEW a \in Pids, BaseInv, LockInv, GoodInv, OthersKeep(a), Locks(a)
    PROVE  GoodInv'
<1>0. /\ Lockable(a) /\ OwnInv(a) /\ OneOpening /\ contents' = contents /\ l1'[a] = l1[a]
      /\ \A b \in Pids : OwnInv(b)
  BY DEF Locks, LockInv
<1>1. \A r \in Present(catalog) : catalog[r].original = "none"
  BY <1>0, LockableRow DEF GoodInv, RecordedWhileLocked
<1>2. /\ Present(catalog') = Present(catalog) /\ Holder(a)'
      /\ \A r \in Replicas \ Present(catalog) : catalog'[r] = catalog[r]
      /\ \A r \in Present(catalog) :
            /\ catalog'[r].status =
                 IF l1[a].mode = "write" /\ r = l1[a].target THEN "intermediate" ELSE "write_locked"
            /\ catalog'[r].original = catalog[r].status
      /\ \A r \in Replicas : rst'[a].before[r] = catalog[r].status
  BY <1>0, <1>1, LockedRows
<1>3. \A b \in Pids \ {a} : ~ Holder(b)' /\ ~ Joiner(b)'
  BY <1>0, LockableAlone, RolesOfOthers
<1>4. ~ Joiner(a)'
  BY <1>2, NotHolder DEF Locks, Joiner, JoinerPC, Holder, HolderPC
<1>5. ASSUME NEW r \in Replicas, Valued(r)' PROVE Valued(r)
  <2>1. ASSUME catalog[r].status = "good" PROVE CountsAsGood(r)
    <3>1. r \in Present(catalog)
      BY <2>1 DEF Present
    <3> QED
      BY <1>1, <2>1, <3>1 DEF CountsAsGood, Underlying
  <2>2. CASE StillGood(r)'
    BY <1>2, <1>3, <2>1, <2>2 DEF StillGood, Valued
  <2>3. CASE CountsAsGood(r)' /\ r \in Present(catalog)
    <3>1. catalog[r].status = "good"
      BY <1>2, <2>3 DEF CountsAsGood, Underlying
    <3> QED
      BY <2>1, <3>1 DEF Valued
  <2>4. CASE CountsAsGood(r)' /\ r \notin Present(catalog)
    BY <1>2, <2>4 DEF CountsAsGood, Valued
  <2> QED
    BY <1>5, <2>2, <2>3, <2>4 DEF Valued
<1>6. ValuedAgree'
  BY <1>0, <1>5 DEF GoodInv, ValuedAgree
<1>7. RecordedWhileLocked'
  BY <1>2 DEF RecordedWhileLocked, LockStatus
<1> QED
  BY <1>3, <1>4, <1>6, <1>7 DEF GoodInv, PrimaryWrites

LEMMA GoodRegisters ==
    ASSUME NEW a \in Pids, BaseInv, LockInv, GoodInv, OthersKeep(a), OrderlyOpens, RegisterReplica(a)
    PROVE  GoodInv'
<1>0. contents' = contents
  BY DEF RegisterReplica
<1>1. /\ l1[a].target \in Replicas \ Present(catalog) /\ l1[a].mode = "create" /\ l1'[a] = l1[a]
      /\ \A r \in Replicas : catalog'[r] = IF r = l1[a].target THEN NewRow ELSE catalog[r]
      /\ Present(catalog') = Present(catalog) \cup {l1[a].target}
      /\ \A r \in Present(catalog) : catalog[r].status = "write_locked"
      /\ \A b \in Pids \ {a} : ~ Holder(b) /\ ~ Joiner(b)
  BY RegisteredRows
<1>2. NewRow.status = "intermediate"
  BY DEF NewRow, MkRow
<1>3. \A b \in Pids \ {a} : ~ Holder(b)' /\ ~ Joiner(b)'
  BY <1>1, RolesOfOthers
<1>4. ~ Joiner(a)'
  BY <1>1 DEF Joiner
<1>5. ASSUME NEW r \in Replicas, Valued(r)' PROVE Valued(r)
  <2>1. ~ StillGood(r)'
    BY <1>1, <1>3 DEF StillGood
  <2> QED
    BY <1>1, <1>2, <1>5, <2>1 DEF Valued, CountsAsGood
<1>6. ValuedAgree'
  BY <1>0, <1>5 DEF GoodInv, ValuedAgree
<1>7. RecordedWhileLocked'
  <2>1. \A r \in Present(catalog') : catalog'[r].status \in LockStatus
    BY <1>1, <1>2 DEF LockStatus, Present
  <2> QED
    BY <2>1 DEF RecordedWhileLocked
<1> QED
  BY <1>3, <1>4, <1>6, <1>7 DEF GoodInv, PrimaryWrites

LEMMA GoodUnlocks ==
    ASSUME NEW a \in Pids, BaseInv, LockInv, GoodInv, OthersKeep(a), OrderlyOpens, DisciplinedWrites,
           Unlocks(a)
    PROVE  GoodInv'
<1> DEFINE t == l1[a].target
<1>0. OwnInv(a) /\ Holder(a) /\ contents' = contents /\ catalog \in Rows /\ ProperRows(catalog)
      /\ pc'[a] \in {"idle", "released", "broken"} /\ (pc[a] # "open" \/ MayFinalize(a))
  BY DEF LockInv, Unlocks, TruncateReplica, DisciplinedWrites, BaseInv, SharedOK, StatusInv
<1>1. PICK s \in GivenBack, o \in {"stale", "restore"} : Ending(a, s, o) /\ Ended(a, s, o)
  BY DEF Unlocks
<1>2. /\ Present(catalog') = Present(catalog) /\ \A b \in Pids : ~ Holder(b)'
      /\ \A r \in Replicas \ Present(catalog) : catalog'[r] = catalog[r]
      /\ \A r \in Present(catalog) :
            /\ catalog'[r].status = IF r = t THEN s ELSE SiblingStatus(catalog[r], o)
            /\ catalog'[r].original = "none"
  BY <1>0, <1>1, UnlockedRows
<1>3. ASSUME NEW r \in Replicas, Valued(r)'
      PROVE  \/ r \notin Present(catalog) /\ Valued(r)
             \/ /\ r \in Present(catalog)
                /\ IF r = t THEN s = "good" ELSE SiblingStatus(catalog[r], o) = "good"
  <2>1. CountsAsGood(r)'
    BY <1>2, <1>3 DEF Valued, StillGood
  <2>2. CASE r \notin Present(catalog)
    BY <1>2, <2>1, <2>2 DEF CountsAsGood, Valued
  <2>3. CASE r \in Present(catalog)
    BY <1>2, <2>1, <2>3 DEF CountsAsGood, Underlying
  <2> QED
    BY <2>2, <2>3
<1>4. ASSUME NEW r \in Replicas \ Present(catalog) PROVE ~ Valued(r)
  <2>1. catalog[r].status = "absent" /\ catalog[r].original = "none"
    <3>1. ProperRow(catalog[r]) /\ catalog[r].status = "absent"
      BY <1>0 DEF Present, ProperRows
    <3>2. "absent" \notin Status
      BY DEF Status, AtRestStatus, LockStatus
    <3>3. catalog[r] = NoRow
      BY <3>1, <3>2 DEF ProperRow
    <3> QED
      BY <3>3, SMT DEF NoRow
  <2>2. ~ CountsAsGood(r)
    BY <2>1 DEF CountsAsGood, Underlying
  <2>3. ~ StillGood(r)
    BY <1>4 DEF StillGood, LockInv, OwnInv, Registered, Holder, HolderPC
  <2> QED
    BY <2>2, <2>3 DEF Valued
<1>5. ValuedAgree'
  <2>1. CASE o = "stale"
    <3>1. \A r \in Replicas : Valued(r)' => r = t
      BY <1>3, <1>4, <2>1 DEF SiblingStatus
    <3> QED
      BY <3>1 DEF ValuedAgree
  <2>2. CASE o = "restore"
    <3>1. ASSUME NEW r \in Present(catalog), r # t, SiblingStatus(catalog[r], o) = "good"
          PROVE  Valued(r)
      BY <1>0, <2>2, <3>1 DEF SiblingStatus, RestoredSibling, Underlying, Valued, CountsAsGood, OwnInv,
                              HolderInv, LockedFor
    <3>2. s = "good" => Valued(t)
      BY <1>0, <1>1, <2>2 DEF Ending, Valued, StillGood
    <3> QED
      BY <1>0, <1>3, <3>1, <3>2 DEF GoodInv, ValuedAgree
  <2> QED
    BY <2>1, <2>2
<1>6. RecordedWhileLocked' /\ PrimaryWrites'
  BY <1>2 DEF RecordedWhileLocked, PrimaryWrites
<1> QED
  BY <1>5, <1>6 DEF GoodInv

LEMMA GoodNext ==
    ASSUME OrderlyOpens, DisciplinedWrites, FullInv, WrittenInv, GoodInv, [Next]_vars
    PROVE  GoodInv'
<1>1. CASE UNCHANGED vars
  <2>1. UNCHANGED <<catalog, contents, rst, pc, l1>>
    BY <1>1 DEF vars
  <2>2. \A a \in Pids : (Holder(a)' <=> Holder(a)) /\ (Joiner(a)' <=> Joiner(a))
    BY <2>1 DEF Holder, Joiner, Joined
  <2>3. \A r \in Replicas : Valued(r)' => Valued(r)
    BY <2>1, <2>2 DEF Valued, CountsAsGood, StillGood
  <2> QED
    BY <2>1, <2>2, <2>3 DEF GoodInv, ValuedAgree, RecordedWhileLocked, PrimaryWrites
<1>2. ASSUME NEW a \in Pids, AgentStep(a) PROVE GoodInv'
  <2>1. BaseInv /\ LockInv /\ AgentsOK /\ WroteInv(a)
    BY BaseOfFull DEF BaseInv, WrittenInv
  <2>2. OthersKeep(a) /\ WrittenInv'
    BY <1>2, <2>1, StepKeepsOthers, WrittenStep
  <2>3. StepKind(a)
    BY <1>2, <2>1, StepKinds
  <2> QED
    BY <1>2, <2>1, <2>2, <2>3, GoodStays, GoodLocks, GoodRegisters, GoodUnlocks DEF StepKind
<1> QED
  BY <1>1, <1>2 DEF Next, AgentStep

LEMMA GoodInit == Init => GoodInv
<1> SUFFICES ASSUME Init PROVE GoodInv
  OBVIOUS
<1>1. /\ \A r \in Present(catalog) : AtRest(catalog[r])
      /\ \A a \in Pids : ~ Holder(a) /\ ~ Joiner(a)
  BY RestInit
<1>2. ASSUME NEW r \in Replicas, Valued(r) PROVE catalog[r].status = "good"
  <2>1. CountsAsGood(r)
    BY <1>1, <1>2 DEF Valued, StillGood
  <2>2. catalog[r].original = "none"
    <3>1. catalog[r] \in {NoRow} \cup {MkRow(s, "none") : s \in AtRestStatus}
      BY DEF Init
    <3>2. CASE catalog[r] = NoRow
      BY <3>2, SMT DEF NoRow
    <3>3. ASSUME NEW s \in AtRestStatus, catalog[r] = MkRow(s, "none") PROVE catalog[r].original = "none"
      BY <3>3, SMT DEF MkRow
    <3> QED
      BY <3>1, <3>2, <3>3
  <2> QED
    BY <2>1, <2>2 DEF CountsAsGood, Underlying
<1>3. ValuedAgree
  BY <1>2 DEF Init, ValuedAgree
<1> QED
  BY <1>1, <1>3 DEF GoodInv, RecordedWhileLocked, PrimaryWrites, AtRest

\* Replicas that the catalog calls good hold the same data although agents share
\* a replica, close it, fail or are killed in the middle of a write; here a failed
\* publication, a close that throws and a close that publishes no status are
\* allowed.  A primary stream that does not write (DisciplinedWrites) and a
\* secondary stream that is lost under its primary (OrderlyOpens) are not:
\* finalize_data_object relies on the primary's bytes_written.
THEOREM GoodReplicasStayEqual == OrderlyOpens /\ DisciplinedWrites => (Spec => []GoodReplicasAgree)
<1> SUFFICES ASSUME OrderlyOpens, DisciplinedWrites PROVE Spec => []GoodReplicasAgree
  OBVIOUS
<1>1. Init => FullInv /\ WrittenInv /\ GoodInv
  BY FullInit, WrittenInit, GoodInit
<1>2. FullInv /\ WrittenInv /\ GoodInv /\ [Next]_vars => FullInv' /\ WrittenInv' /\ GoodInv'
  BY FullStep, WrittenStep, GoodNext
<1>3. GoodInv => GoodReplicasAgree
  BY DEF GoodInv, ValuedAgree, Valued, CountsAsGood, GoodReplicasAgree
<1> QED
  BY <1>1, <1>2, <1>3, PTL DEF Spec
===============================================================================
