SPECIFICATION Spec
CONSTANTS
    Order = {1}
    Session = {s1, s2}
    l1 = l1
    l2 = l2
    Line = {l1, l2}
    Free = Free
    InitStock <- TwoLines
    Need <- OneEach
    Kind = "text"
    Segments = 1
    RawSettings <- NoSwitch
    InitStatuses = {"pending_ship"}
    Sources = {"live"}
    IMFaults = {}
    Cancellable = {}
    Overlapping = {1}
    SlowDelivery = FALSE
    MaxStarts = 2
    MaxCrashes = 0
INVARIANT OneWholeCard
