SPECIFICATION Spec
CONSTANTS
    MaxCalls = 4
    Pages = 2
    MayLose = TRUE
CHECK_DEADLOCK FALSE
INVARIANT
    SettledFrameIsCurrent
    WritesOverlapOnlyWhenLate
    LockedOnlyWhileWorking
    SavedDocumentDropped
