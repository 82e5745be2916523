SPECIFICATION Spec
CONSTANTS
    Jobs = {j1, j2, j3}
    LastTime = 2
SYMMETRY JobSymmetry
CHECK_DEADLOCK FALSE
INVARIANT
    SettledCopyIsRight
    PremiumEndWasGranted
PROPERTY
    RowsOnlyEnd
