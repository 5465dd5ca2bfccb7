CONSTANTS
    Program <- OneWait
    Ending = "COMPLETE"
    Callers = {c1, c2}
    Signals = {s1, s2}
    SignalName <- OneStray
    Rank <- SomeRank
    Paths = {"CLI"}
    NoSignal = NoSignal
    Burials = FALSE
    MaxCrashes = 0
SPECIFICATION EagerSpec
CHECK_DEADLOCK FALSE
PROPERTY
    StoredSignalIsTaken
