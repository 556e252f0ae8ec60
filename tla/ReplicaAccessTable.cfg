CONSTANTS
    Replicas = {r1, r2}
    Pids = {p1, p2}
    Tokens = {t1, t2, t3}
    MaxOpens = 2
SPECIFICATION Spec
SYMMETRY Symmetry
INVARIANTS
    TypeOK
    EntriesAreHeld
    RestorableAgrees
    RestoreUndoesErase
PROPERTY EntryKeepsItsReplica
CHECK_DEADLOCK FALSE
