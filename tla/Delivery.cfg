CONSTANTS
    p = p
    q = q
    Problem = {p, q}
    NoSession = NoSession
    NoProblem = NoProblem
    MaxBatch = 2
    FlushSize = 2
    MaxRetries = 1
    MaxRecorded = 2
    MaxMoves = 1
    MaxBlips = 1
CHECK_DEADLOCK FALSE
SPECIFICATION FairSpec
INVARIANTS
    TypeOK
    OrderIsKept
    NothingIsForgotten
    ProblemsAreApart
    SessionsAreShared
    EditsPrecedeResults
PROPERTIES
    EventsAreSettled
