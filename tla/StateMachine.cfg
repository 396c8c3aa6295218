SPECIFICATION Spec
CHECK_DEADLOCK FALSE
CONSTANTS
    Tools = {draw, sketch}
    StackSize = 2
    MaxContexts = 6
INVARIANTS
    ContextsPaired
    HandlerAlive
    ToolAskedFor
    ToolboxShows
    ViewGone
PROPERTIES
    StrokeHeard
    CallsReturn
