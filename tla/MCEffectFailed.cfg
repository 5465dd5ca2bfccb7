\* Two attempts, which may overlap; nobody else is needed.
CONSTANTS
    Classes = {"IDEMPOTENT_BY_KEY"}
    MaxAttempts = 2
    Sweepers = {}
    Batch = 1
    Backlog = 0
    Operator = FALSE
SPECIFICATION Spec
CHECK_DEADLOCK FALSE
INVARIANT
    FailedIsTrue
