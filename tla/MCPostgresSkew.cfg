\* Two connections of processes whose clocks differ by one.
CONSTANTS
    Sessions = {s1, s2}
    Signals = {}
    MaxAttempts = 2
    LeaseTTL = 2
    Skew = 1
    MaxNow = 1
    MaxVersion = 1
SPECIFICATION Spec
SYMMETRY SessionSymmetry
CHECK_DEADLOCK FALSE
INVARIANTS
    DroppedClaimIsRedundant
