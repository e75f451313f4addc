CONSTANTS
    NoProgressSeconds = 1
    SameResultThreshold = 2
    SameRegionThreshold = 1
    ConsecutiveErrorThreshold = 2
    CooldownSeconds = 1
    EditChurnThreshold = 2
    IdleEditSeconds = 1
    PasteSettleSeconds = 1
    IdleNoActivitySeconds = 1
    Slot = {1, 2}
    Runner = {1}
    MaxNow = 1
    MaxEvents = 3
    Edit <- MCSmall
    LateEdit <- MCLarge
    Input <- MCInput
    Verdict <- MCVerdict
SPECIFICATION FairSpec
INVARIANTS
    TypeOK
    CooldownHolds
    TriggersAreEarned
PROPERTIES
    HintsAreHeard
    IdleStudentIsNudged
