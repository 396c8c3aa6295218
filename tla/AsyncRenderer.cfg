SPECIFICATION Spec
CONSTANTS
    Tiles = {t1, t2, t3}
    MaxFrames = 2
INVARIANTS
    TypeOK
    FrameComplete
    NoStrayTile
    QueueServed
    CompletionReported
    NothingAfterFinished
PROPERTIES
    StopReturns
    RenderEnds
