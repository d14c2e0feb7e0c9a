CONSTANTS
    o1 = o1
    o2 = o2
    l1 = l1
    t1 = t1
    t2 = t2
    x1 = x1
    Outputs = {o1, o2}
    NumWorkspaces = 2
    NoOutput = NoOutput
    Toplevels = {t1}
    NoToplevel = NoToplevel
    XWindows = {}
    Parents = {}
    Layers = {l1}
    LayerOutput <- OneLayer
    Layouts = {"floating"}
    Rules <- NoRules
    Animations = FALSE
    KeyboardMayLeave = TRUE
    FocusFollowsMouse = TRUE
    LockAllowed = TRUE
SPECIFICATION DesktopSpec
CHECK_DEADLOCK FALSE
INVARIANTS
    DesktopTypeOK
    LockedSeat
    FocusedMapped
    SeatOnMappedLayer
PROPERTIES
    ImplementsKeyboard
