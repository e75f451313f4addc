CONSTANTS
    p = p
    q = q
    algo = algo
    MaxRequests = 3
    Problem = {p, q}
    Course = {algo}
    Private = Private
    Listed <- MCListed
    Assignment <- MCAssignment
    Reward = 2
    Cost = 1
    NoKey = NoKey
    Body <- MCBody
CHECK_DEADLOCK FALSE
SPECIFICATION Spec
INVARIANTS
    SolutionReachesCourses
