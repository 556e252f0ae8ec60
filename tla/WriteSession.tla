---------------------------- MODULE WriteSession ----------------------------
(***************************************************************************)
(* What opening a data object for writing promises to everybody else: the  *)
(* object is locked for one session at a time, the session has one target  *)
(* replica, and only its end changes which replicas are good: the target   *)
(* becomes the only good replica, or the replicas are as good as they were *)
(* except, perhaps, the target.  How many agents share the session, and    *)
(* what they do to reach the end, is not seen.                             *)
(***************************************************************************)
CONSTANTS Replicas, NoReplica

VARIABLES
    replicas,   \* the replicas that are registered
    good,       \* those that hold the truth when nobody has the object locked
    locked,     \* a session is on
    target      \* the replica that the session modifies, once it is known

session == <<replicas, good, locked, target>>

Init ==
    /\ replicas \in SUBSET Replicas
    /\ good \in SUBSET replicas
    /\ locked = FALSE
    /\ target = NoReplica

\* A replica is opened for writing, or a replica is going to be created.
Begin ==
    /\ ~ locked /\ replicas # {}
    /\ target' \in replicas \cup {NoReplica}
    /\ locked' = TRUE
    /\ UNCHANGED <<replicas, good>>

\* The replica to be created is registered; for the first replica of an object
\* this begins the session.
Register ==
    /\ target = NoReplica /\ (locked <=> replicas # {})
    /\ target' \in Replicas \ replicas
    /\ replicas' = replicas \cup {target'}
    /\ locked' = TRUE
    /\ UNCHANGED good

Over == locked' = FALSE /\ target' = NoReplica /\ UNCHANGED replicas

\* The truth moves to the target.
Commit ==
    /\ locked /\ target # NoReplica
    /\ good' = {target}
    /\ Over

\* The truth does not move; the target may be lost.
Abort ==
    /\ locked
    /\ good' \in {good, good \ {target}}
    /\ Over

Next == Begin \/ Register \/ Commit \/ Abort

Spec == Init /\ [][Next]_session

\* Every session ends.
LiveSpec == Spec /\ WF_session(Commit \/ Abort)
=============================================================================
