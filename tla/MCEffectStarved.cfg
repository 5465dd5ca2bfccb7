\* A sweep of one row, and one other row that no sweep can settle.
CONSTANTS
    Classes = {"QUERYABLE"}
    MaxAttempts = 1
    Sweepers = {r1}
    Batch = 1
    Backlog = 1
    Operator = FALSE
SPECIFICATION LiveSpec
CHECK_DEADLOCK FALSE
PROPERTY
    UnsettleableStopsNone
