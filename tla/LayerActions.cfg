SPECIFICATION SoundSpec
CHECK_DEADLOCK FALSE
CONSTANTS
    la = la
    lb = lb
    le = le
    ln = ln
    lg = lg
    lh = lh
    group1 = group1
    group2 = group2
    Root = root
    s1 = s1
    Layers = {la, lb, le, ln, lg, lh}
    Groups = {s1, s2}
    Sub <- MCSub
    NoGroup = nogroup
    NoCanvas = nocanvas
    Blank = blank
    StartDoc <- MCStart
    Selections <- MCSelections
    MaxActions = 2
INVARIANTS
    TreeShape
    SetsListed
    UndoWorks
PROPERTY
    ImplementsHistory
