SPECIFICATION Spec
CHECK_DEADLOCK FALSE
CONSTANTS
    Tiles = {t1, t2}
    MaxLayers = 5
    MaxRefreshes = 3
INVARIANTS
    AllLayersShown
