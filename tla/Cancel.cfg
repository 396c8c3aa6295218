SPECIFICATION ForwardSpec
CONSTANTS
    Docs = {d1, d2}
    MaxStack = 3
    MaxGroups = 1
    MaxCount = 3
INVARIANT UnsavedFlagged
