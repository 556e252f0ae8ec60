------------------------- MODULE ReplicaAccessTable -------------------------
(***************************************************************************)
(* The replica access table (server/core/src/replica_access_table.cpp):    *)
(* a map in shared memory from replica tokens to the replica that is open  *)
(* for writing and the PIDs of the agents that have it open.  Every        *)
(* operation holds the table's named mutex from its first to its last      *)
(* access of the map, so each one is a single step.  An operation that     *)
(* throws leaves the table alone: it is an action whose guard is false.    *)
(***************************************************************************)
EXTENDS ReplicaAccessMap

VARIABLES
    g_map,      \* the table
    issued,     \* tokens generated so far (a UUID is never drawn twice)
    restorable  \* restorable_entry objects held by agents between erase and restore

vars == <<g_map, issued, restorable>>

-----------------------------------------------------------------------------

Init ==
    /\ g_map = << >>
    /\ issued = {}
    /\ restorable = {}

\* Mutant: the token only has to differ from the live ones.
create_new_entry_reuses_token(r, p) ==
    /\ ~ ContainsReplica(g_map, r)
    /\ \E t \in Tokens \ DOMAIN g_map :
        /\ g_map' = Insert(g_map, t, r, p)
        /\ issued' = issued \cup {t}
    /\ UNCHANGED restorable

\* Mutant: the token may be one that is in use.
create_new_entry_any_token(r, p) ==
    /\ ~ ContainsReplica(g_map, r)
    /\ \E t \in Tokens :
        /\ g_map' = Insert(g_map, t, r, p)
        /\ issued' = issued \cup {t}
    /\ UNCHANGED restorable

\* Throws "Entry already exists" when the replica has an entry.
create_new_entry(r, p) ==
    /\ ~ ContainsReplica(g_map, r)
    /\ \E t \in Tokens \ issued :
        /\ g_map' = Insert(g_map, t, r, p)
        /\ issued' = issued \cup {t}
    /\ UNCHANGED restorable

\* Throws "Invalid token" or "Invalid data id or replica number".
append_pid(t, r, p) ==
    /\ ContainsToken(g_map, t, r)
    /\ g_map[t].agent_pids[p] < MaxOpens
    /\ g_map' = PushPid(g_map, t, p)
    /\ UNCHANGED <<issued, restorable>>

\* Mutant: the PID is removed without having been found.
erase_pid_unchecked(t, p) ==
    /\ t \in DOMAIN g_map
    /\ g_map' = ErasePid(g_map, t, p)
    /\ restorable' = restorable \cup {[token |-> t, replica |-> g_map[t].replica, pid |-> p]}
    /\ UNCHANGED issued

\* erase_pid(token, pid) returns what restore() needs to undo it.
erase_pid(t, p) ==
    /\ t \in DOMAIN g_map
    /\ g_map[t].agent_pids[p] > 0
    /\ g_map' = ErasePid(g_map, t, p)
    /\ restorable' = restorable \cup {[token |-> t, replica |-> g_map[t].replica, pid |-> p]}
    /\ UNCHANGED issued

\* erase_pid(pid), called by an agent that is about to exit: what the agent
\* could still have restored dies with it.
erase_exiting_pid(p) ==
    /\ g_map' = EraseAllOfPid(g_map, p)
    /\ restorable' = {e \in restorable : e.pid # p}
    /\ UNCHANGED issued

\* Throws "Invalid data id or replica number" when the token is in the table
\* for another replica.
restore(e) ==
    /\ e.token \in DOMAIN g_map =>
        /\ g_map[e.token].replica = e.replica
        /\ g_map[e.token].agent_pids[e.pid] < MaxOpens
    /\ g_map' = RestoreEntry(g_map, e)
    /\ restorable' = restorable \ {e}
    /\ UNCHANGED issued

Next ==
    \/ \E r \in Replicas, p \in Pids : create_new_entry(r, p)
    \/ \E t \in Tokens, r \in Replicas, p \in Pids : append_pid(t, r, p)
    \/ \E t \in Tokens, p \in Pids : erase_pid(t, p)
    \/ \E p \in Pids : erase_exiting_pid(p)
    \/ \E e \in restorable : restore(e)

Spec == Init /\ [][Next]_vars

-----------------------------------------------------------------------------

\* Tables, issued tokens and the entries agents may restore have their types.
TypeOK ==
    /\ g_map \in Table
    /\ issued \in SUBSET Tokens
    /\ restorable \in SUBSET RestorableEntry

\* erase_pid drops an entry with its last PID: every entry of the table is
\* held open by some agent, so contains(data_id, replica_number) never
\* answers for a replica that every agent has left.
EntriesAreHeld ==
    \A t \in DOMAIN g_map : \E p \in Pids : g_map[t].agent_pids[p] > 0

\* A token stands for one replica for ever.  What an agent may restore names
\* the replica that the token names in the table, although the entry may have
\* been dropped, restored by another agent and extended in between: restore
\* never takes its "Invalid data id or replica number" branch.
RestorableAgrees ==
    \A e \in restorable :
        /\ e.token \in issued
        /\ e.token \in DOMAIN g_map => g_map[e.token].replica = e.replica
        /\ \A f \in restorable : f.token = e.token => f.replica = e.replica

\* "The entry will appear as if it was never removed": restore right after
\* erase_pid gives back the table, also when erase_pid dropped the entry.
RestoreUndoesErase ==
    \A t \in DOMAIN g_map : \A p \in Pids :
        g_map[t].agent_pids[p] > 0 =>
            RestoreEntry(ErasePid(g_map, t, p),
                         [token |-> t, replica |-> g_map[t].replica, pid |-> p]) = g_map

\* No operation gives a token of the table to another replica, and a PID
\* enters an entry only through that entry's own token.
EntryKeepsItsReplica ==
    [][\A t \in DOMAIN g_map \cap DOMAIN g_map' : g_map'[t].replica = g_map[t].replica]_vars
=============================================================================
