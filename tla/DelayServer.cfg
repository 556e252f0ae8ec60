CONSTANTS
    s1 = s1
    s2 = s2
    h1 = h1
    h2 = h2
    r1 = r1
    r2 = r2
    Servers = {s1, s2}
    Threads = {t1, t2}
    Rules = {r1}
    Hosts = {h1, h2}
    HostOf <- TwoHosts
    Priority <- FirstIsUrgent
    Frequencies <- OnceOrSuccess
    MaxQueue = 2
    MaxCount = 4
    MaxUnlocks = 1
    NoRow = NoRow
    NoLock = NoLock
    NoRule = NoRule
    NoFrequency = NoFrequency
    Environment = {"leader", "term", "crash", "unlock", "reply", "fail", "lost", "catalog"}
SYMMETRY ThreadSymmetry
SPECIFICATION Spec
INVARIANTS
    TypeOK
    OneExecutor
    BudgetIsKept
    NotDroppedUnexecuted
