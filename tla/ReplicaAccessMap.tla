-------------------------- MODULE ReplicaAccessMap --------------------------
(***************************************************************************)
(* The map of the replica access table                                     *)
(* (server/core/src/replica_access_table.cpp) as a value: a function whose *)
(* domain is the set of live tokens.  The pair (data id, replica number)   *)
(* is one member of Replicas.  agent_pids is a vector in which only the    *)
(* number of occurrences of a PID matters.  The modules that have the      *)
(* table as a variable apply these operators to it.                        *)
(***************************************************************************)
EXTENDS Integers, FiniteSets

CONSTANTS
    Replicas,   \* (data id, replica number) pairs
    Pids,       \* process IDs of agents
    Tokens,     \* the UUIDs that random_generator can return
    MaxOpens    \* bound: how often one PID may occur in one entry

ASSUME BoundAssumption == MaxOpens \in Nat \ {0}

Occurrences == 0 .. MaxOpens

Entry == [replica : Replicas, agent_pids : [Pids -> Occurrences]]

RestorableEntry == [token : Tokens, replica : Replicas, pid : Pids]

\* The table is a partial function from tokens to entries.
Table == UNION {[T -> Entry] : T \in SUBSET Tokens}

OnlyPid(p) == [q \in Pids |-> IF q = p THEN 1 ELSE 0]

\* bool contains(data_id, replica_number)
ContainsReplica(m, r) == \E t \in DOMAIN m : m[t].replica = r

\* bool contains(token, data_id, replica_number)
ContainsToken(m, t, r) == t \in DOMAIN m /\ m[t].replica = r

\* Insertion of a token that is not in the table.
Insert(m, t, r, p) ==
    [u \in DOMAIN m \cup {t} |->
        IF u = t THEN [replica |-> r, agent_pids |-> OnlyPid(p)] ELSE m[u]]

\* The table with another PID list in the entry of a token that is in it.
WithPids(m, t, pids) ==
    [m EXCEPT ![t] = [replica |-> m[t].replica, agent_pids |-> pids]]

\* push_back of a PID on the entry of a token that is in the table.
PushPid(m, t, p) ==
    WithPids(m, t, [m[t].agent_pids EXCEPT ![p] = @ + 1])

\* Mutant: an entry outlives its last PID.
DropEmpty_keeps(m) == m

\* Entries whose PID list became empty are removed from the table.
DropEmpty(m) ==
    [t \in {u \in DOMAIN m : \E p \in Pids : m[u].agent_pids[p] > 0} |-> m[t]]

\* Removal of one occurrence of a PID from the entry of one token.
ErasePid(m, t, p) ==
    DropEmpty(WithPids(m, t, [m[t].agent_pids EXCEPT ![p] = @ - 1]))

\* Removal of every occurrence of a PID from every entry.
EraseAllOfPid(m, p) ==
    DropEmpty([t \in DOMAIN m |->
        [replica |-> m[t].replica, agent_pids |-> [m[t].agent_pids EXCEPT ![p] = 0]]])

\* Mutant: an entry that was dropped is not put back.
RestoreEntry_append_only(m, e) ==
    IF e.token \in DOMAIN m THEN PushPid(m, e.token, e.pid) ELSE m

\* Undoes the removal of a PID; drops nothing and looks for no other entry of
\* the same replica.
RestoreEntry(m, e) ==
    IF e.token \in DOMAIN m THEN PushPid(m, e.token, e.pid)
                            ELSE Insert(m, e.token, e.replica, e.pid)

\* Entries of one replica share one token.
UniqueReplicas(m) == \A t, u \in DOMAIN m : m[t].replica = m[u].replica => t = u
=============================================================================
