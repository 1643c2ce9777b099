SPECIFICATION FairSpec
CONSTANTS
    Order = {1}
    Session = {s1}
    l1 = l1
    l2 = l2
    Line = {l1, l2}
    Free = Free
    InitStock <- TwoLines
    Need <- OneEach
    Kind = "text"
    Segments = 1
    RawSettings <- NoSwitch
    InitStatuses = {"pending_ship"}
    Sources = {"live", "scan"}
    IMFaults = {}
    Cancellable = {}
    Overlapping = {}
    SlowDelivery = FALSE
    MaxStarts = 2
    MaxCrashes = 1
PROPERTY SendingResolves
