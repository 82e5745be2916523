SPECIFICATION Spec
CONSTANTS
    Requests = {r1, r2, r3}
    BadEdits = {r3}
    MaxOps = 2
    MaxInFlight = 3
    MayCrash = TRUE
SYMMETRY RequestSymmetry
INVARIANT
    AnswersMatch
    LoneEditsKept
    RepeatedSaveNotCharged
    LoneCloseLeavesNothing
    OpenHasOriginal
    BilledSavesAnswered
PROPERTY
    ClosedIsFinal
    ImplementsDocumentLog
