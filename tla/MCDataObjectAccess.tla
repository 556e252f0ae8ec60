------------------------- MODULE MCDataObjectAccess -------------------------
(* A few agents on a few replicas of one data object.  Pids, tokens,     *)
(* replicas and versions are only compared with each other.                *)
EXTENDS DataObjectSession, TLC

Symmetry ==
    Permutations(Pids) \cup Permutations(Tokens) \cup Permutations(Replicas)
    \cup Permutations(Versions)
=============================================================================
