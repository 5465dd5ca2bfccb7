\* A decision and a tool call in flight together, two sessions, the second after
\* a reconnect, a second instance or a deploy.
CONSTANTS
    Decisions = {d}
    ToolCalls = {t}
    MaxSessions = 2
    Offers <- Fleet
    Pinned = "v1"
SPECIFICATION LiveSpec
CHECK_DEADLOCK FALSE
INVARIANTS
    TypeOK
    AnswersMatch
    CertaintyIsHonest
    NobodyWaitsOnClosed
    RightWorkerActs
PROPERTIES
    GoneIsTold
