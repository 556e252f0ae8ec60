CONSTANTS
    Pids = {a1, a2}
    MaxOpens = 1
    Replicas = {r1, r2}
    Tokens = {t1}
    NoToken = NoToken
    NoReplica = NoReplica
    Versions = {v1, v2, v3}
    Clients = {"close", "create", "truncate"}
    Faults = {}
    Mishaps = {}
SPECIFICATION RSpec
INVARIANTS
    SourceIsGood
