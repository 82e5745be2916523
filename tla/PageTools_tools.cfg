SPECIFICATION Spec
CONSTANTS
    MaxPages = 4
    MaxRanges = 2
    MaxFiles = 2
    Requests <- MCRequests
CHECK_DEADLOCK FALSE
INVARIANT
    ResultIsWhatWasAsked
    LoggedPagesHandedOut
    SoundRequestsGranted
