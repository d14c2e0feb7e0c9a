CONSTANTS
    o1 = o1
    o2 = o2
    l1 = l1
    t1 = t1
    t2 = t2
    x1 = x1
    Outputs = {o1}
    NumWorkspaces = 2
    NoOutput = NoOutput
    Toplevels = {t1}
    NoToplevel = NoToplevel
    XWindows = {x1}
    Parents = {}
    Layers = {}
    LayerOutput <- NoLayers
    Layouts = {"floating"}
    Rules <- NoRules
    Animations = FALSE
    KeyboardMayLeave = FALSE
    FocusFollowsMouse = FALSE
    LockAllowed = FALSE
SPECIFICATION DesktopSpec
CHECK_DEADLOCK FALSE
INVARIANT
    BareNeverFollowed
