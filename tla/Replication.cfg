CONSTANTS
    Pids = {a1, a2}
    MaxOpens = 1
    Replicas = {r1, r2, r3}
    Tokens = {t1}
    NoToken = NoToken
    NoReplica = NoReplica
    Versions = {v1, v2, v3, v4}
    Clients = {"close", "create", "truncate"}
    Faults = {"storage"}
    Mishaps = {"copy", "finalize", "notify"}
SPECIFICATION RSpec
SYMMETRY Symmetry
INVARIANTS
    WritersHoldTheLock
    QuiescentIsAtRest
    TableMatchesDescriptors
    GoodReplicasAgreeUnlessExcused
PROPERTIES
    IsReplicatedSession
