SPECIFICATION DocumentSpec
CHECK_DEADLOCK FALSE
CONSTANTS
    project = project
    picture = picture
    images = images
    top = top
    Dirs = {images}
    Plain = {project, picture}
    Root = top
    Parent <- MCParent
    Data = {d1, d2}
    Torn = torn
    Absent = absent
    Lost = lost
    Closed = closed
    Damaged = damaged
    Files = {f1, f2}
    NoFile = nofile
    MaxTmps = 3
    MaxCalls = 8
    MaxStrokes = 1
SYMMETRY Symmetric
INVARIANTS
    TypeOK
    HistoryOffered
    
PROPERTY
    ImplementsFileStore
