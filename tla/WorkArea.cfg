SPECIFICATION QuietSpec
CHECK_DEADLOCK FALSE
CONSTANTS
    Tiles = {t1, t2}
    MaxFrames = 1
    MaxInputs = 3
INVARIANTS
    RenderingIsTrue
    QueuedIsTrue
    RefreshPending
PROPERTY PreviewUpdated
