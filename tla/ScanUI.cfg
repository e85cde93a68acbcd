SPECIFICATION FairSpec
CONSTANTS
    Paths = {a}
    Scans = {s1, s2}
    NoPath = NoPath
    Fetches = {f1, f2}
    WireCap = 1
    Faults = {"request", "status", "socket"}
INVARIANTS
    WakeUpNotLost
PROPERTIES
    FinishedScanIsShown
