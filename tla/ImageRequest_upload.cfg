CONSTANTS
    MaxDimension = 90
    Backends = {"govips", "purego"}
    Widths <- MCWidths
    Qualities <- MCQualities
    Sides <- MCSides
    TextWidth = 6
    TextHeight = 3
SPECIFICATION Spec
INVARIANTS TypeOK UploadIsClosed RefusalWritesNothing AcceptedIsUsable SizeIsRequested
    BoxIsFitted
CHECK_DEADLOCK FALSE
