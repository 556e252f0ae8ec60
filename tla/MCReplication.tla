---------------------------- MODULE MCReplication ---------------------------
(* Two agents on two replicas of one data object. *)
EXTENDS Replication, TLC

Symmetry ==
    Permutations(Pids) \cup Permutations(Tokens) \cup Permutations(Replicas)
    \cup Permutations(Versions)
=============================================================================
