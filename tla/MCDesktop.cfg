CONSTANTS
    Windows <- Windows3
    NULL = NULL
    ScreenW = 4
    ScreenH = 4
    Reserved = 1
    MinW = 3
    MinH = 2
    TitleH = 1
    BtnSize = 1
    BtnMargin = 0
    Terminal = "terminal"
    Place <- Places
    StartButton <- Start
    AppButton <- Buttons
    MenuItem <- Menu
    Points <- Cells
SPECIFICATION DSpec
INVARIANTS
    DTypeOK
    ListIsWhole
    FocusOnTop
    InWorkArea
    DragHeld
    MaximizedFills
PROPERTIES
    OrderKept
