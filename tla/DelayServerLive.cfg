CONSTANTS
    s1 = s1
    s2 = s2
    h1 = h1
    h2 = h2
    r1 = r1
    r2 = r2
    Servers = {s1}
    Threads = {t1}
    Rules = {r1, r2}
    Hosts = {h1, h2}
    HostOf <- OneHost
    Priority <- FirstIsUrgent
    Frequencies <- OnceOrTwice
    MaxQueue = 1
    MaxCount = 4
    MaxUnlocks = 1
    NoRow = NoRow
    NoLock = NoLock
    NoRule = NoRule
    NoFrequency = NoFrequency
    Environment = {"delete", "leader", "term", "crash", "connect", "reply", "fail", "lost", "catalog"}
SPECIFICATION FairSpec
PROPERTIES
    DueRulesAreTaken
