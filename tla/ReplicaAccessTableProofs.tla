---------------------- MODULE ReplicaAccessTableProofs ----------------------
(***************************************************************************)
(* What holds of the replica access table for every set of replicas, PIDs  *)
(* and tokens.  The inductive invariant adds to the checked invariants     *)
(* that the tokens of the table have been issued, which is what makes the  *)
(* token drawn by create_new_entry a new one.                              *)
(***************************************************************************)
EXTENDS ReplicaAccessTable, LogicalLockingProofs

\* Zenon proves most leaves; those that need another prover cite it.
USE ZenonT(30)

IssuedTokens == DOMAIN g_map \subseteq issued

IInv == TypeOK /\ EntriesAreHeld /\ RestorableAgrees /\ IssuedTokens

-----------------------------------------------------------------------------

LEMMA InitIInv == Init => IInv
<1> SUFFICES ASSUME Init PROVE IInv
  OBVIOUS
<1>1. g_map \in [DOMAIN g_map -> Entry] /\ DOMAIN g_map = {}
  BY SMT DEF Init
<1>2. g_map \in Table
  BY <1>1, TableMembership
<1> QED
  BY <1>1, <1>2 DEF Init, IInv, TypeOK, EntriesAreHeld, RestorableAgrees, IssuedTokens

\* One step per operation of the table.
LEMMA NextIInv == IInv /\ [Next]_vars => IInv'
<1> SUFFICES ASSUME IInv, [Next]_vars PROVE IInv'
  OBVIOUS
<1>t. /\ g_map \in Table /\ DOMAIN g_map \subseteq issued /\ issued \subseteq Tokens
      /\ restorable \subseteq RestorableEntry
  BY DEF IInv, TypeOK, IssuedTokens
<1>e. \A t \in DOMAIN g_map : g_map[t] \in Entry
  BY <1>t, TableMembership
<1>1. ASSUME NEW r \in Replicas, NEW p \in Pids, create_new_entry(r, p)
      PROVE  IInv'
  <2>1. PICK t \in Tokens \ issued :
            g_map' = Insert(g_map, t, r, p) /\ issued' = issued \cup {t}
    BY <1>1 DEF create_new_entry
  <2>2. /\ g_map' \in Table /\ DOMAIN g_map' = DOMAIN g_map \cup {t}
        /\ g_map'[t].replica = r /\ g_map'[t].agent_pids[p] > 0
    <3>1. Insert(g_map, t, r, p) \in Table
      BY <1>t, InsertTable
    <3>2. DOMAIN Insert(g_map, t, r, p) = DOMAIN g_map \cup {t}
      BY DEF Insert
    <3>3. Insert(g_map, t, r, p)[t].replica = r
      BY DEF Insert
    <3>4. Insert(g_map, t, r, p)[t].agent_pids[p] > 0
      BY <1>t, InsertTable
    <3> QED
      BY <2>1, <3>1, <3>2, <3>3, <3>4
  <2>3. \A u \in DOMAIN g_map : u # t => g_map'[u] = g_map[u]
    BY <2>1 DEF Insert
  <2>4. EntriesAreHeld'
    BY <2>2, <2>3 DEF EntriesAreHeld, IInv
  <2>5. RestorableAgrees'
    BY <1>1, <1>t, <2>1, <2>2, <2>3 DEF RestorableAgrees, IInv, create_new_entry
  <2> QED
    BY <1>1, <1>t, <2>1, <2>2, <2>4, <2>5 DEF IInv, TypeOK, IssuedTokens, create_new_entry
<1>2. ASSUME NEW t \in Tokens, NEW r \in Replicas, NEW p \in Pids, append_pid(t, r, p)
      PROVE  IInv'
  <2>1. t \in DOMAIN g_map /\ g_map[t].agent_pids[p] < MaxOpens
    BY <1>2 DEF append_pid, ContainsToken
  <2>2. /\ g_map' \in Table /\ DOMAIN g_map' = DOMAIN g_map
        /\ g_map'[t].agent_pids[p] > 0
        /\ \A u \in DOMAIN g_map : g_map'[u].replica = g_map[u].replica
        /\ \A u \in DOMAIN g_map \ {t} : g_map'[u] = g_map[u]
    BY <1>2, <1>t, <2>1, PushPidTable DEF append_pid
  <2> QED
    BY <1>2, <1>t, <2>2
    DEF IInv, TypeOK, IssuedTokens, EntriesAreHeld, RestorableAgrees, append_pid
<1>3. ASSUME NEW t \in Tokens, NEW p \in Pids, erase_pid(t, p)
      PROVE  IInv'
  <2> DEFINE e == [token |-> t, replica |-> g_map[t].replica, pid |-> p]
  <2>1. t \in DOMAIN g_map /\ g_map[t].agent_pids[p] > 0
    BY <1>3 DEF erase_pid
  <2>2. /\ g_map' \in Table /\ DOMAIN g_map' \subseteq DOMAIN g_map
        /\ \A u \in DOMAIN g_map' :
               g_map'[u].replica = g_map[u].replica /\ \E q \in Pids : g_map'[u].agent_pids[q] > 0
    BY <1>3, <1>t, <2>1, ErasePidTable DEF erase_pid
  <2>3. e \in RestorableEntry /\ e.token = t /\ e.replica = g_map[t].replica
    BY <1>e, <2>1 DEF RestorableEntry, Entry
  <2>4. restorable' = restorable \cup {e} /\ issued' = issued
    BY <1>3 DEF erase_pid
  <2> HIDE DEF e
  <2>5. RestorableAgrees'
    <3> SUFFICES ASSUME NEW a \in restorable'
                 PROVE  /\ a.token \in issued'
                        /\ a.token \in DOMAIN g_map' => g_map'[a.token].replica = a.replica
                        /\ \A f \in restorable' : f.token = a.token => f.replica = a.replica
      BY DEF RestorableAgrees
    <3>1. \A b \in restorable : b.token = t => b.replica = e.replica
      BY <2>1, <2>3 DEF IInv, RestorableAgrees
    <3>2. CASE a = e
      BY <1>t, <2>1, <2>2, <2>3, <2>4, <3>1, <3>2
    <3>3. CASE a \in restorable
      BY <1>t, <2>1, <2>2, <2>3, <2>4, <3>1, <3>3 DEF IInv, RestorableAgrees
    <3> QED
      BY <2>4, <3>2, <3>3
  <2> QED
    BY <1>t, <2>2, <2>3, <2>4, <2>5 DEF IInv, TypeOK, IssuedTokens, EntriesAreHeld
<1>4. ASSUME NEW p \in Pids, erase_exiting_pid(p)
      PROVE  IInv'
  <2>1. /\ g_map' \in Table /\ DOMAIN g_map' \subseteq DOMAIN g_map
        /\ \A u \in DOMAIN g_map' :
               g_map'[u].replica = g_map[u].replica /\ \E q \in Pids : g_map'[u].agent_pids[q] > 0
    BY <1>4, <1>t, EraseAllOfPidTable DEF erase_exiting_pid
  <2>2. restorable' \subseteq restorable /\ issued' = issued
    BY <1>4 DEF erase_exiting_pid
  <2> QED
    BY <1>t, <2>1, <2>2 DEF IInv, TypeOK, IssuedTokens, EntriesAreHeld, RestorableAgrees
<1>5. ASSUME NEW e \in restorable, restore(e)
      PROVE  IInv'
  <2>1. e \in RestorableEntry /\ e.token \in issued /\ e.token \in Tokens
    BY <1>t DEF IInv, RestorableAgrees
  <2>2. e.replica \in Replicas /\ e.pid \in Pids
    BY <2>1 DEF RestorableEntry
  <2>3. restorable' \subseteq restorable /\ issued' = issued
    BY <1>5 DEF restore
  <2>4. CASE e.token \in DOMAIN g_map
    <3>1. /\ g_map' \in Table /\ DOMAIN g_map' = DOMAIN g_map
          /\ g_map'[e.token].agent_pids[e.pid] > 0
          /\ \A u \in DOMAIN g_map : g_map'[u].replica = g_map[u].replica
          /\ \A u \in DOMAIN g_map \ {e.token} : g_map'[u] = g_map[u]
      BY <1>5, <1>t, <2>2, <2>4, PushPidTable DEF restore, RestoreEntry
    <3> QED
      BY <1>t, <2>2, <2>3, <3>1 DEF IInv, TypeOK, IssuedTokens, EntriesAreHeld, RestorableAgrees
  <2>5. CASE e.token \notin DOMAIN g_map
    <3>0. g_map' = Insert(g_map, e.token, e.replica, e.pid)
      BY <1>5, <2>5 DEF restore, RestoreEntry
    <3>1. /\ g_map' \in Table /\ DOMAIN g_map' = DOMAIN g_map \cup {e.token}
          /\ g_map'[e.token].replica = e.replica /\ g_map'[e.token].agent_pids[e.pid] > 0
      <4>1. Insert(g_map, e.token, e.replica, e.pid) \in Table
        BY <1>t, <2>1, <2>2, InsertTable
      <4>2. DOMAIN Insert(g_map, e.token, e.replica, e.pid) = DOMAIN g_map \cup {e.token}
        BY DEF Insert
      <4>3. Insert(g_map, e.token, e.replica, e.pid)[e.token].replica = e.replica
        BY DEF Insert
      <4>4. Insert(g_map, e.token, e.replica, e.pid)[e.token].agent_pids[e.pid] > 0
        BY <1>t, <2>1, <2>2, InsertTable
      <4> QED
        BY <3>0, <4>1, <4>2, <4>3, <4>4
    <3>2. \A u \in DOMAIN g_map : u # e.token => g_map'[u] = g_map[u]
      BY <3>0 DEF Insert
    <3>3. EntriesAreHeld'
      BY <2>2, <3>1, <3>2 DEF IInv, EntriesAreHeld
    <3>4. RestorableAgrees'
      BY <2>3, <2>5, <3>1, <3>2 DEF IInv, RestorableAgrees
    <3> QED
      BY <1>t, <2>1, <2>3, <3>1, <3>3, <3>4 DEF IInv, TypeOK, IssuedTokens
  <2> QED
    BY <2>4, <2>5
<1>6. CASE UNCHANGED vars
  BY <1>6 DEF vars, IInv, TypeOK, IssuedTokens, EntriesAreHeld, RestorableAgrees
<1> QED
  BY <1>1, <1>2, <1>3, <1>4, <1>5, <1>6 DEF Next

\* Every entry of the table is held by an agent (erase_pid drops an entry with
\* its last PID), in every reachable state of the table.
THEOREM TableEntriesAreHeld == Spec => []EntriesAreHeld
<1>1. Init => IInv
  BY InitIInv
<1>2. IInv /\ [Next]_vars => IInv'
  BY NextIInv
<1>3. IInv => EntriesAreHeld
  BY DEF IInv
<1> QED
  BY <1>1, <1>2, <1>3, PTL DEF Spec

\* A token keeps naming the replica it was created for while the entry is
\* erased and restored, so restore never rejects an entry of erase_pid.
THEOREM RestoredEntriesAgree == Spec => []RestorableAgrees
<1>1. Init => IInv
  BY InitIInv
<1>2. IInv /\ [Next]_vars => IInv'
  BY NextIInv
<1>3. IInv => RestorableAgrees
  BY DEF IInv
<1> QED
  BY <1>1, <1>2, <1>3, PTL DEF Spec

\* The table, the issued tokens and the restorable entries keep their types.
THEOREM TableType == Spec => []TypeOK
<1>1. Init => IInv
  BY InitIInv
<1>2. IInv /\ [Next]_vars => IInv'
  BY NextIInv
<1>3. IInv => TypeOK
  BY DEF IInv
<1> QED
  BY <1>1, <1>2, <1>3, PTL DEF Spec

-----------------------------------------------------------------------------

\* Two tables with the same entries are the same table.
LEMMA TableExtensionality ==
    ASSUME NEW m \in Table, NEW n \in Table, DOMAIN m = DOMAIN n,
           \A u \in DOMAIN m : m[u].replica = n[u].replica,
           \A u \in DOMAIN m, q \in Pids : m[u].agent_pids[q] = n[u].agent_pids[q]
    PROVE  m = n
<1>1. m \in [DOMAIN m -> Entry] /\ n \in [DOMAIN n -> Entry]
  BY TableMembership
<1>2. ASSUME NEW u \in DOMAIN m PROVE m[u] = n[u]
  <2>1. m[u] \in Entry /\ n[u] \in Entry
    BY <1>1
  <2>2. m[u].agent_pids \in [Pids -> Occurrences] /\ n[u].agent_pids \in [Pids -> Occurrences]
    BY <2>1 DEF Entry
  <2>3. m[u].agent_pids = n[u].agent_pids
    BY <2>2, SMT
  <2> QED
    BY <2>1, <2>3, SMT DEF Entry
<1> QED
  BY <1>1, <1>2, SMT

\* What restore finds in the table right after erase_pid.
LEMMA ErasedTable ==
    ASSUME NEW m \in Table, NEW t \in DOMAIN m, NEW p \in Pids, m[t].agent_pids[p] > 0,
           \A u \in DOMAIN m : \E q \in Pids : m[u].agent_pids[q] > 0
    PROVE  LET n == ErasePid(m, t, p) IN
           /\ n \in Table
           /\ \A u \in DOMAIN m \ {t} : u \in DOMAIN n /\ n[u] = m[u]
           /\ DOMAIN n \subseteq DOMAIN m
           /\ t \in DOMAIN n =>
                /\ n[t].replica = m[t].replica
                /\ n[t].agent_pids = [m[t].agent_pids EXCEPT ![p] = @ - 1]
           /\ t \notin DOMAIN n => \A q \in Pids : m[t].agent_pids[q] = OnlyPid(p)[q]
<1> DEFINE c == [m[t].agent_pids EXCEPT ![p] = @ - 1]
           w == WithPids(m, t, c)
           n == DropEmpty(w)
<1>1. m[t].agent_pids \in [Pids -> Occurrences]
  BY TableMembership DEF Entry
<1>2. c \in [Pids -> Occurrences] /\ c[p] = m[t].agent_pids[p] - 1
      /\ \A q \in Pids \ {p} : c[q] = m[t].agent_pids[q]
  BY <1>1, BoundAssumption, SMT DEF Occurrences
<1>3. ErasePid(m, t, p) = n
  BY DEF ErasePid
<1>c. c = [m[t].agent_pids EXCEPT ![p] = @ - 1]
  OBVIOUS
<1> HIDE DEF c
<1>4. /\ w \in Table /\ DOMAIN w = DOMAIN m /\ w[t].agent_pids = c
      /\ \A u \in DOMAIN m : w[u].replica = m[u].replica
      /\ \A u \in DOMAIN m \ {t} : w[u] = m[u]
  BY <1>2, WithPidsTable
<1> HIDE DEF w
<1>5. /\ n \in Table
      /\ DOMAIN n = {u \in DOMAIN w : \E q \in Pids : w[u].agent_pids[q] > 0}
      /\ \A u \in DOMAIN n : n[u] = w[u]
  BY <1>4, DropEmptyTable
<1> HIDE DEF n
<1>6. \A u \in DOMAIN m \ {t} : u \in DOMAIN n /\ n[u] = m[u]
  BY <1>4, <1>5
<1>7. DOMAIN n \subseteq DOMAIN m
  BY <1>4, <1>5
<1>8. t \in DOMAIN n => n[t].replica = m[t].replica /\ n[t].agent_pids = c
  BY <1>4, <1>5
<1>9. t \notin DOMAIN n => \A q \in Pids : m[t].agent_pids[q] = OnlyPid(p)[q]
  <2> SUFFICES ASSUME t \notin DOMAIN n, NEW q \in Pids
               PROVE  m[t].agent_pids[q] = OnlyPid(p)[q]
    OBVIOUS
  <2>1. ~ (c[p] > 0) /\ ~ (c[q] > 0)
    BY <1>4, <1>5
  <2>2. m[t].agent_pids[q] \in Nat /\ m[t].agent_pids[p] \in Nat
    BY <1>1, BoundAssumption, SMT DEF Occurrences
  <2>3. OnlyPid(p)[q] = IF q = p THEN 1 ELSE 0
    BY DEF OnlyPid
  <2> QED
    BY <1>2, <2>1, <2>2, <2>3, SMT
<1> QED
  BY <1>3, <1>5, <1>6, <1>7, <1>8, <1>9, <1>c

\* "The entry will appear as if it was never removed": whatever the table
\* holds, restore right after erase_pid gives back the table, whether erase_pid
\* shortened the PID list or dropped the entry with its last PID.  That no entry
\* is empty (EntriesAreHeld) is what makes it true: erase_pid drops every empty
\* entry it meets, not only the one it emptied.
THEOREM RestoreUndoes == Spec => []RestoreUndoesErase
<1>1. Init => IInv
  BY InitIInv
<1>2. IInv /\ [Next]_vars => IInv'
  BY NextIInv
<1>3. IInv => RestoreUndoesErase
  <2> SUFFICES ASSUME IInv, NEW t \in DOMAIN g_map, NEW p \in Pids, g_map[t].agent_pids[p] > 0
               PROVE  RestoreEntry(ErasePid(g_map, t, p),
                          [token |-> t, replica |-> g_map[t].replica, pid |-> p]) = g_map
    BY DEF RestoreUndoesErase
  <2> DEFINE n == ErasePid(g_map, t, p)
             e == [token |-> t, replica |-> g_map[t].replica, pid |-> p]
  <2>1. g_map \in Table /\ t \in Tokens /\ g_map[t] \in Entry
    BY TableMembership DEF IInv, TypeOK
  <2>2. /\ n \in Table
        /\ \A u \in DOMAIN g_map \ {t} : u \in DOMAIN n /\ n[u] = g_map[u]
        /\ DOMAIN n \subseteq DOMAIN g_map
        /\ t \in DOMAIN n =>
             /\ n[t].replica = g_map[t].replica
             /\ n[t].agent_pids = [g_map[t].agent_pids EXCEPT ![p] = @ - 1]
        /\ t \notin DOMAIN n => \A q \in Pids : g_map[t].agent_pids[q] = OnlyPid(p)[q]
    BY <2>1, ErasedTable DEF IInv, EntriesAreHeld
  <2> HIDE DEF n
  <2>3. g_map[t].agent_pids \in [Pids -> Occurrences] /\ g_map[t].replica \in Replicas
    BY <2>1 DEF Entry
  <2>4. CASE t \in DOMAIN n
    <3> DEFINE k == PushPid(n, t, p)
               f == [n[t].agent_pids EXCEPT ![p] = @ + 1]
    <3>1. RestoreEntry(n, e) = k
      BY <2>4 DEF RestoreEntry
    <3>2. n[t].agent_pids[p] = g_map[t].agent_pids[p] - 1
      BY <2>2, <2>3, <2>4
    <3>3. n[t].agent_pids[p] < MaxOpens
      BY <2>3, <3>2, BoundAssumption, SMT DEF Occurrences
    <3>4. f \in [Pids -> Occurrences] /\ \A q \in Pids : f[q] = g_map[t].agent_pids[q]
      BY <2>2, <2>3, <2>4, <3>2, <3>3, BoundAssumption, SMT DEF Occurrences
    <3>5. k = WithPids(n, t, f)
      BY DEF PushPid
    <3> HIDE DEF f
    <3>6. /\ k \in Table /\ DOMAIN k = DOMAIN n /\ k[t].agent_pids = f
          /\ k[t].replica = n[t].replica /\ \A u \in DOMAIN n \ {t} : k[u] = n[u]
      BY <2>2, <2>4, <3>4, <3>5, WithPidsTable, SMT
    <3> HIDE DEF k
    <3>7. DOMAIN k = DOMAIN g_map
      BY <2>2, <2>4, <3>6
    <3>8. \A u \in DOMAIN k : /\ k[u].replica = g_map[u].replica
                              /\ \A q \in Pids : k[u].agent_pids[q] = g_map[u].agent_pids[q]
      BY <2>2, <2>4, <3>4, <3>6, <3>7
    <3>9. k = g_map
      BY <2>1, <3>6, <3>7, <3>8, TableExtensionality
    <3> QED
      BY <3>1, <3>9 DEF n
  <2>5. CASE t \notin DOMAIN n
    <3> DEFINE k == Insert(n, t, g_map[t].replica, p)
    <3>1. RestoreEntry(n, e) = k
      BY <2>5 DEF RestoreEntry
    <3>2. k \in Table
      BY <2>1, <2>2, <2>3, InsertTable
    <3>3. /\ DOMAIN k = DOMAIN n \cup {t} /\ k[t].replica = g_map[t].replica
          /\ k[t].agent_pids = OnlyPid(p) /\ \A u \in DOMAIN n : k[u] = n[u]
      BY <2>5 DEF Insert
    <3> HIDE DEF k
    <3>4. DOMAIN k = DOMAIN g_map
      BY <2>2, <3>3
    <3>5. \A u \in DOMAIN k : /\ k[u].replica = g_map[u].replica
                              /\ \A q \in Pids : k[u].agent_pids[q] = g_map[u].agent_pids[q]
      BY <2>2, <2>5, <3>3, <3>4
    <3>6. k = g_map
      BY <2>1, <3>2, <3>4, <3>5, TableExtensionality
    <3> QED
      BY <3>1, <3>6 DEF n
  <2> QED
    BY <2>4, <2>5
<1> QED
  BY <1>1, <1>2, <1>3, PTL DEF Spec

\* No operation gives a token of the table to another replica: not even restore,
\* because a token that comes back after its entry was dropped comes back for the
\* replica that the restorable entry names (RestorableAgrees), and a created entry
\* has a token that was never issued.
THEOREM TokensKeepTheirReplica == Spec => EntryKeepsItsReplica
<1>1. IInv /\ [Next]_vars =>
        [\A t \in DOMAIN g_map \cap DOMAIN g_map' : g_map'[t].replica = g_map[t].replica]_vars
  <2> SUFFICES ASSUME IInv, Next, NEW t \in DOMAIN g_map, t \in DOMAIN g_map'
               PROVE  g_map'[t].replica = g_map[t].replica
    OBVIOUS
  <2>0. g_map \in Table /\ DOMAIN g_map \subseteq issued /\ restorable \subseteq RestorableEntry
    BY DEF IInv, TypeOK, IssuedTokens
  <2>1. ASSUME NEW r \in Replicas, NEW p \in Pids, create_new_entry(r, p)
        PROVE  g_map'[t].replica = g_map[t].replica
    BY <2>0, <2>1 DEF create_new_entry, Insert
  <2>2. ASSUME NEW u \in Tokens, NEW r \in Replicas, NEW p \in Pids, append_pid(u, r, p)
        PROVE  g_map'[t].replica = g_map[t].replica
    BY <2>0, <2>2, PushPidTable DEF append_pid, ContainsToken
  <2>3. ASSUME NEW u \in Tokens, NEW p \in Pids, erase_pid(u, p)
        PROVE  g_map'[t].replica = g_map[t].replica
    BY <2>0, <2>3, ErasePidTable DEF erase_pid
  <2>4. ASSUME NEW p \in Pids, erase_exiting_pid(p)
        PROVE  g_map'[t].replica = g_map[t].replica
    BY <2>0, <2>4, EraseAllOfPidTable DEF erase_exiting_pid
  <2>5. ASSUME NEW e \in restorable, restore(e)
        PROVE  g_map'[t].replica = g_map[t].replica
    <3>1. e.pid \in Pids
      BY <2>0 DEF RestorableEntry
    <3>2. CASE e.token \in DOMAIN g_map
      BY <2>0, <2>5, <3>1, <3>2, PushPidTable DEF restore, RestoreEntry
    <3>3. CASE e.token \notin DOMAIN g_map
      BY <2>5, <3>3 DEF restore, RestoreEntry, Insert
    <3> QED
      BY <3>2, <3>3
  <2> QED
    BY <2>1, <2>2, <2>3, <2>4, <2>5 DEF Next
<1> QED
  BY <1>1, InitIInv, NextIInv, PTL DEF Spec, EntryKeepsItsReplica
=============================================================================
