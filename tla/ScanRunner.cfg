CONSTANTS
    Paths = {p1, p2}
    Scans = {s1, s2}
    NoScan = NoScan
    NoPath = NoPath
    MaxTTL = 2
SPECIFICATION FairSpec
INVARIANTS
    NoOrphanScan
PROPERTIES
    ServiceSpec
    CancelledScanEnds
    RunningResolves
