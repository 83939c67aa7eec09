SPECIFICATION Spec
CONSTANTS
    o1 = o1
    o2 = o2
    o3 = o3
    Obs <- MCObs
    Value <- MCValue
    Dimension <- MCDimension
    Levels = {"SUMMARY", "DETAILED"}
    TicksPerSecond = 2
    Window = 2
    Interval = 1
    ExportTime = 1
    MaxTime = 6
CHECK_DEADLOCK FALSE
INVARIANTS
    WindowExact
    NothingSkipped
PROPERTIES
    LastWindowExported
