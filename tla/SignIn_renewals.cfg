SPECIFICATION Spec
CONSTANTS
    MaxRequests = 3
    MaxPairs = 3
    MayLose = TRUE
    MayKill = FALSE
INVARIANT
    OneLiveTokenPerSignIn
CHECK_DEADLOCK FALSE
