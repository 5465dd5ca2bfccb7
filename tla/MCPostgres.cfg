\* Two connections running any two transactions of one run and one of its tasks.
CONSTANTS
    Sessions = {s1, s2}
    Signals = {sig}
    MaxAttempts = 2
    LeaseTTL = 2
    Skew = 1
    MaxNow = 1
    MaxVersion = 1
SPECIFICATION Spec
SYMMETRY SessionSymmetry
CHECK_DEADLOCK FALSE
INVARIANTS
    TypeOK
    DecidedOnCurrentRow
    LeaseHeldIsSkew
PROPERTIES
    ImplementsMemory
