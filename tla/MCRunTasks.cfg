\* A fan-out whose losers outlive its join, then a sleep, then a cancel.
CONSTANTS
    Program <- FanSleep
    Ending = "CANCEL"
    Callers = {c1, c2}
    Signals = {}
    SignalName <- NoNames
    Rank <- SomeRank
    Paths = {}
    NoSignal = NoSignal
    Burials = TRUE
    MaxCrashes = 1
SPECIFICATION LiveSpec
CHECK_DEADLOCK FALSE
PROPERTIES
    FinishedStaysFinished
    ImplementsContract
    RunSettles
