SPECIFICATION FairSpec
CONSTANTS
    Hosts = {h1, h2}
    Agents = {}
    Pids = {1, 2, 3}
    MaxConfig = 0
    MaxRequests = 2
    MaxFaults = 1
    None = None
    Environment = {}
INVARIANTS ChildrenAreKnown
PROPERTIES MigrationCompletes
