\* Three rows at a time, pages of one or two, a clock of four instants.
CONSTANTS
    NULL = NULL
    d1 = d1
    Device = {d1}
    Reason = {1, 2}
    Shape <- Shapes
    Filter <- Filters
    Window <- Windows
    MaxTime = 3
    MaxId = 3
    MaxLimit = 2
    DefaultWindow = 2
    Retention = 2
    FlushDelay = 1
    Rung <- Rungs
    DayWidth = 2
SPECIFICATION Spec
INVARIANTS WalkIsComplete HistogramIsExact
