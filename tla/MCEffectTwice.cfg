\* Two attempts that overlap are enough; nobody else is needed.
CONSTANTS
    Classes = {"QUERYABLE"}
    MaxAttempts = 2
    Sweepers = {}
    Batch = 1
    Backlog = 0
    Operator = FALSE
SPECIFICATION Spec
CHECK_DEADLOCK FALSE
INVARIANT
    ActsOnce
