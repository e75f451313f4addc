CONSTANTS
    sA = sA
    sB = sB
    sBad = sBad
    act = act
    cT = cT
    cA = cA
    cB = cB
    MaxRequests = 3
    ClientEvent <- MCClientEvent
    Snapshot <- MCSnapshot
    Code <- MCCode
    Template = cT
    CodeOf <- MCCodeOf
    NoCode = NoCode
    NoId = NoId
    Batch <- MCBatch
    RunBody <- MCRunBody
CHECK_DEADLOCK FALSE
SPECIFICATION FairSpec
INVARIANTS
    SeqsAreGapless
    StoredAtMostOnce
    SnapshotsFormAChain
    EventsNameTheirCode
    AnswersAreTrue
    JudgedCodeIsStored
PROPERTIES
    PollingMissesNothing
    BatchesAreAtomic
    ImplementsLog
    EveryRequestEnds
