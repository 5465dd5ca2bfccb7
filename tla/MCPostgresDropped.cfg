\* Two connections whose transactions wait for each other.
CONSTANTS
    Sessions = {s1, s2}
    Signals = {}
    MaxAttempts = 2
    LeaseTTL = 1
    Skew = 0
    MaxNow = 1
    MaxVersion = 1
SPECIFICATION Spec
SYMMETRY SessionSymmetry
CHECK_DEADLOCK FALSE
INVARIANTS
    DroppedReportIsStale
