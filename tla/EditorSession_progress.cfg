SPECIFICATION FairSpec
CONSTANTS
    Requests = {r1, r2}
    BadEdits = {r2}
    MaxOps = 2
    MaxInFlight = 2
    MayCrash = TRUE
PROPERTY
    EveryRequestEnds
