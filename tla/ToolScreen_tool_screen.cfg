SPECIFICATION FairSpec
CONSTANTS
    MaxCalls = 4
    Limit = 2
CHECK_DEADLOCK FALSE
INVARIANT
    OneRunAtATime
    BadgeIsExact
PROPERTY
    LoadingEnds
