SPECIFICATION FlatSpec
CHECK_DEADLOCK FALSE
CONSTANTS
    pa = pa
    pb = pb
    la = la
    na = na
    nb = nb
    Layers = {la}
    Params = {pa, pb}
    LayerOf <- MCLayerOf
    MaxObjects = 14
    MaxValue = 1
    Ids = {na, nb}
    NoId = noid
    None = none
    StartDocs <- MCStartDocs
    MaxActions = 2
INVARIANT
    RedoRepeats
