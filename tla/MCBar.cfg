CONSTANTS
    o1 = o1
    o2 = o2
    Outputs = {o1, o2}
    NumWorkspaces = 3
    NoOutput = NoOutput
    MaxLink = 6
    MaxRead = 4
    MaxLosses = 1
SPECIFICATION BarSpec
CHECK_DEADLOCK FALSE
INVARIANTS
    BarTypeOK
    ActiveFollowed
    WorkspacesTypeOK
    ActiveDistinct
    TreeOnIffShown
    PressTwiceReturns
PROPERTY
    ImplementsScreens
