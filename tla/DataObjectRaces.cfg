CONSTANTS
    Pids = {a1, a2}
    MaxOpens = 1
    Replicas = {r1, r2}
    Tokens = {t1, t2}
    NoToken = NoToken
    NoReplica = NoReplica
    Versions = {v1, v2, v3}
    Clients = {"close", "replica_close", "create", "truncate", "read_token", "overlap", "join", "exit"}
    Faults = {"create_file", "open_file", "publish", "republish", "lost_stream"}
SPECIFICATION Spec
SYMMETRY Symmetry
INVARIANTS
    TypeOK
    OneTokenPerReplica
    LockedRowsRememberStatus
