\* Both transports; one task delivered, dropped and repeated to two workers.
\* Tasks share nothing but the workers, so one of them is enough; three faults
\* allow any pair of them to meet and then a third.
CONSTANTS
    Tasks = {t1}
    Workers = {w1, w2}
    Junk = Junk
    Transports = {"jetstream", "postgres"}
    MaxAttempts = 3
    MaxCopies = 2
    MaxFaults = 3
\* Every task settled and every queue empty is the proper end.
CHECK_DEADLOCK FALSE
SPECIFICATION Spec
INVARIANTS
    TypeOK
    NothingUnaccounted
PROPERTIES
    EveryPendingTaskIsClaimed
    PoisonLeaves
