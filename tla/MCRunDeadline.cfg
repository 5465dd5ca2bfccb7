CONSTANTS
    Program <- SleepWait
    Ending = "COMPLETE"
    Callers = {c1, c2}
    Signals = {}
    SignalName <- NoNames
    Rank <- SomeRank
    Paths = {}
    NoSignal = NoSignal
    Burials = FALSE
    MaxCrashes = 0
SPECIFICATION Spec
CHECK_DEADLOCK FALSE
INVARIANT
    DeadlineKept
