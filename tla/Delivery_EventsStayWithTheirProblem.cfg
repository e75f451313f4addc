CONSTANTS
    p = p
    q = q
    Problem = {p, q}
    NoSession = NoSession
    NoProblem = NoProblem
    MaxBatch = 1
    FlushSize = 2
    MaxRetries = 1
    MaxRecorded = 2
    MaxMoves = 1
    MaxBlips = 0
CHECK_DEADLOCK FALSE
SPECIFICATION Spec
INVARIANTS
    EventsStayWithTheirProblem
