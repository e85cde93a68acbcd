CONSTANTS
    Requests = {r1, r2}
    Subs = {s1}
    Intervals <- MCIntervals
    FirstInterval = 2
    SubCap = 2
    MaxTime = 4
    Never = Never
SPECIFICATION CollectorFairSpec
INVARIANTS
    IntervalInForce
PROPERTIES
    IntervalTakesEffect
CHECK_DEADLOCK FALSE
