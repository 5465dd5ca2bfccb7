CONSTANTS
    Program <- OneWait
    Ending = "COMPLETE"
    Callers = {c1, c2}
    Signals = {s1, s2}
    SignalName <- AllGo
    Rank <- SomeRank
    Paths = {"HTTP"}
    NoSignal = NoSignal
    Burials = FALSE
    MaxCrashes = 0
SPECIFICATION Spec
CHECK_DEADLOCK FALSE
INVARIANT
    TakenAsTheyArrived
