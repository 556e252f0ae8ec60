SPECIFICATION FairSpec
CONSTANTS
    Hosts = {h1}
    Agents = {a1}
    Pids = {1, 2, 3, 4, 5}
    MaxConfig = 2
    MaxRequests = 0
    MaxFaults = 0
    None = None
    Environment = {"term", "quit", "invalid"}
INVARIANTS TypeOK ChildrenAreKnown
PROPERTIES ReloadIsServed ShutdownCompletes
CHECK_DEADLOCK FALSE
