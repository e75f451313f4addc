CONSTANTS
    Students = {ann}
    Problems = {p, q}
    Requests = {r1, r2}
    None = None
    Earlier = {0, 3}
    MaxAssignments = 1
CHECK_DEADLOCK FALSE
SYMMETRY Symmetry
SPECIFICATION Spec
INVARIANTS
    DashboardIsCurrent
    CreditFollowsTheResult
PROPERTIES
    RiskFallsOnSolving
