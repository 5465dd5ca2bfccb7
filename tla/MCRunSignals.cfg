\* Two waits on one name and three signals: early, late, repeated, competing,
\* and one under another name, which releases the run without satisfying it.
CONSTANTS
    Program <- TwoWaits
    Ending = "COMPLETE"
    Callers = {c1, c2}
    Signals = {s1, s2, s3}
    SignalName <- OneStray
    Rank <- SomeRank
    Paths = {"HTTP", "CLI"}
    NoSignal = NoSignal
    Burials = FALSE
    MaxCrashes = 1
SYMMETRY CallerSymmetry
SPECIFICATION Spec
CHECK_DEADLOCK FALSE
INVARIANTS
    TypeOK
    OneTimeline
    TakenInOrder
    WakesAreOwed
    ParkMatchesHistory
PROPERTIES
    FinishedStaysFinished
