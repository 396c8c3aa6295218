SPECIFICATION CloseSpec
CHECK_DEADLOCK FALSE
CONSTANTS
    Tiles = {t1}
    MaxFrames = 1
    MaxInputs = 1
INVARIANT NothingQueuedWhenGone
