SPECIFICATION Spec
CONSTANTS
    Order = {1, 2}
    Session = {s1, s2}
    l1 = l1
    l2 = l2
    Line = {l1, l2}
    Free = Free
    InitStock <- TwoLines
    Need <- OneEach
    Kind = "data"
    Segments = 1
    RawSettings <- NoSwitch
    InitStatuses = {"pending_ship"}
    Sources = {"live"}
    IMFaults = {}
    Cancellable = {}
    Overlapping = {}
    SlowDelivery = FALSE
    MaxStarts = 2
    MaxCrashes = 0
INVARIANT LineSoldOnce
