\* A retry that is backing off, found by the scan or by the poller.
CONSTANTS
    Tasks = {t1}
    Workers = {w1}
    Junk = Junk
    Transports = {"jetstream", "postgres"}
    MaxAttempts = 2
    MaxCopies = 1
    MaxFaults = 0
CHECK_DEADLOCK FALSE
SPECIFICATION Spec
INVARIANTS
    BackoffIsKept
