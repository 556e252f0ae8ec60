CONSTANTS
    Pids = {a1, a2}
    MaxOpens = 1
    Replicas = {r1, r2}
    Tokens = {t1, t2, t3}
    NoToken = NoToken
    NoReplica = NoReplica
    Versions = {v1, v2, v3}
    Clients = {"close", "replica_close", "status_only", "size_only", "join", "exit"}
    Faults = {"storage", "lock", "publish", "metadata", "crash"}
SPECIFICATION Spec
SYMMETRY Symmetry
CHECK_DEADLOCK FALSE
INVARIANTS
    WritersHoldTheLock
    GoodReplicasAgree
