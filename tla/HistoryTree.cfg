SPECIFICATION TreeSpec
CONSTANTS
    Docs = {d1, d2}
    MaxStack = 3
    MaxGroups = 2
    MaxCount = 3
INVARIANTS
    UndoChain
    GroupDiscipline
    CancelRestores
    MenusAgree
    TitleFollowsCount
    WindowShowsTimeline
PROPERTY ImplementsHistory
