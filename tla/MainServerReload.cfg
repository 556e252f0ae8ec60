SPECIFICATION Spec
CONSTANTS
    Hosts = {h1}
    Agents = {a1}
    Pids = {1, 2, 3, 4, 5}
    MaxConfig = 1
    MaxRequests = 0
    MaxFaults = 0
    None = None
    Environment = {}
PROPERTIES ReloadLaunchesFactory
CHECK_DEADLOCK FALSE
