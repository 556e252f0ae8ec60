------------------------ MODULE MCReplicaAccessTable ------------------------
(* Two replicas, two agents, three tokens; the three sets are symmetric.   *)
EXTENDS ReplicaAccessTable, TLC

Symmetry == Permutations(Replicas) \cup Permutations(Pids) \cup Permutations(Tokens)
=============================================================================
