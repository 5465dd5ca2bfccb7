\* One task, two workers, two attempts: overlap of an old and a new owner,
\* duplicate deliveries, a lost channel and a buried task are all reached.
CONSTANTS
    Tasks = {t1}
    Workers = {w1, w2}
    NoTask = NoTask
    MaxAttempts = 2
    QueueCap = 2
SPECIFICATION LiveSpec
CHECK_DEADLOCK FALSE
INVARIANTS
    TypeOK
    OneCurrentOwner
    LatestAttemptWins
    HistoryAgreesWithRow
    RetryBudget
    DeliveryIntent
PROPERTIES
    SettledIsFinal
    TokensGrow
    ImplementsContract
    EveryTaskSettles
