\* Every class, two attempts, a reconciler and an operator.
CONSTANTS
    Classes = {"IDEMPOTENT_BY_KEY", "QUERYABLE", "UNRECONCILABLE"}
    MaxAttempts = 2
    Sweepers = {r1}
    Batch = 1
    Backlog = 1
    Operator = TRUE
SPECIFICATION LiveSpec
CHECK_DEADLOCK FALSE
INVARIANTS
    TypeOK
    IntentFirst
    UnreconcilableActsOnce
    CommittedIsTrue
    CompletedIsRecorded
PROPERTIES
    CommittedIsFinal
    QueryableSettles
