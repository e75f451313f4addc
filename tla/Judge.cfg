CONSTANTS
    Public = 1
    Hidden = 1
    TimeLimit = 2
    Overhead = 4
    Cap = 6
    Startup = 1
    Durations = {0, 1, 2}
    Faults = TRUE
    MaxRetries = 2
CHECK_DEADLOCK FALSE
SPECIFICATION FairSpec
INVARIANTS
    VerdictIsEarned
    BlameIsFair
    ContainersAreRemoved
    GeneratedProblemsRan
PROPERTIES
    CallsAreAnswered
