SPECIFICATION Spec
CONSTANTS
    Width = 6
    TextLayouts <- MCTextLayouts
    Placements <- OwnResources
    MaxOps = 2
INVARIANT
    TextMatchesLog
    UntouchedTextKeepsFont
    ImagesMatchLog
PROPERTY
    EditsTouchOneObject
