------------------------- MODULE ReplicatedSession --------------------------
(***************************************************************************)
(* WriteSession for an object that is also replicated: a session may end   *)
(* with its target as good as the replica it was copied from.  A           *)
(* replication never takes the truth from another replica.                 *)
(***************************************************************************)
EXTENDS WriteSession

\* The target joins the good replicas.
Replicated ==
    /\ locked /\ target # NoReplica /\ good \ {target} # {}
    /\ good' = good \cup {target}
    /\ Over

ReplicatedSpec == Init /\ [][Next \/ Replicated]_session
=============================================================================
