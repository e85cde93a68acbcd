SPECIFICATION FairSpec
CONSTANTS
    Paths = {a}
    Scans = {s1, s2}
    NoPath = NoPath
    Fetches = {f1}
    WireCap = 1
    Faults = {}
PROPERTIES
    FailedScanIsShown
