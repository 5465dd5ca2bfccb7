CONSTANTS
    Program <- CallOnly
    Ending = "COMPLETE"
    Callers = {c1}
    Signals = {}
    SignalName <- NoNames
    Rank <- SomeRank
    Paths = {}
    NoSignal = NoSignal
    Burials = TRUE
    MaxCrashes = 0
SPECIFICATION EagerSpec
CHECK_DEADLOCK FALSE
PROPERTY
    DeadTaskEndsRun
