SPECIFICATION Spec
CONSTANTS
    Width = 6
    TextLayouts <- MCTextLayouts
    Placements <- SharedResource
    MaxOps = 1
INVARIANT
    ImagesMatchLog
