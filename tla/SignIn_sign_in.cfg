SPECIFICATION FairSpec
CONSTANTS
    MaxRequests = 3
    MaxPairs = 2
    MayLose = TRUE
    MayKill = TRUE
INVARIANT
    ExpiredOnlyForCause
    KeystoreMatchesMemory
PROPERTY
    EndedStaysEnded
    EveryRequestEnds
CHECK_DEADLOCK FALSE
