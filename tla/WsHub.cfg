CONSTANTS
    Clients = {c1, c2}
    HubCap = 2
    SendCap = 1
    MaxMsgs = 3
SPECIFICATION HubSpec
INVARIANTS
    KnownClientsOpen
PROPERTIES
    SlowClientsDoNotStall
    DeadConnectionsLeave
    WritersEndOnShutdown
CHECK_DEADLOCK FALSE
