CONSTANTS
    Calls = {1, 2, 3}
    NoCall = 0
    Earlier = 1
    MaxPolls = 1
SPECIFICATION FairSpec
INVARIANTS
    OnlyWhatWasMeantIsSaid
    TheTutorRemembers
    NothingSlipsPast
PROPERTIES
    ChatsAreAnswered
