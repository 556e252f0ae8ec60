CONSTANTS
    Pids = {a1, a2}
    MaxOpens = 1
    Replicas = {r1, r2}
    Tokens = {t1, t2, t3}
    NoToken = NoToken
    NoReplica = NoReplica
    Versions = {v1, v2, v3}
    Clients = {"close", "create", "join", "exit"}
    Faults = {"storage"}
SPECIFICATION FairSpec
INVARIANTS
    WritersHoldTheLock
    OnePrimary
    GoodReplicasAgree
    QuiescentIsAtRest
    IdleAgentHasNoEntry
    TableMatchesDescriptors
PROPERTIES
    IsWriteSession
    LockIsReleased
