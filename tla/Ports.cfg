CONSTANTS
    Requests = {r1}
    MaxPid = 2
    MaxPort = 2
    MaxFd = 2
    Addresses = {"any", "loop"}
    Sockets <- MCSockets
    Protected = {1}
    MaxChanges = 2
SPECIFICATION Spec
INVARIANTS
    NobodyIsMissed
PROPERTIES
    ListingIsExact
CHECK_DEADLOCK FALSE
