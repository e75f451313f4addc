CONSTANTS
    sA = sA
    sB = sB
    sBad = sBad
    act = act
    cT = cT
    cA = cA
    cB = cB
    MaxRequests = 2
    ClientEvent <- MCClientEvent
    Snapshot <- MCSnapshot
    Code <- MCCode
    Template = cT
    CodeOf <- MCCodeOf
    NoCode = NoCode
    NoId = NoId
    Batch <- MCBatch
    RunBody <- MCRunBody
CHECK_DEADLOCK FALSE
SPECIFICATION Spec
INVARIANTS
    BackstopReportsAll
