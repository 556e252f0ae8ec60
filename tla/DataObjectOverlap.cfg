CONSTANTS
    Pids = {a1, a2}
    MaxOpens = 1
    Replicas = {r1, r2}
    Tokens = {t1, t2, t3}
    NoToken = NoToken
    NoReplica = NoReplica
    Versions = {v1, v2, v3}
    Clients = {"close", "overlap"}
    Faults = {}
SPECIFICATION Spec
SYMMETRY Symmetry
INVARIANTS
    OnePrimary
