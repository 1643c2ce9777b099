SPECIFICATION FairSpec
CONSTANTS
    Order = {1, 2}
    Session = {s1, s2}
    l1 = l1
    l2 = l2
    Line = {l1, l2}
    Free = Free
    InitStock <- TwoLines
    Need <- OneEach
    Kind = "text"
    Segments = 1
    RawSettings <- AllSettings
    InitStatuses = {"pending_ship"}
    Sources = {"live", "scan"}
    IMFaults = {"refused"}
    Cancellable = {}
    Overlapping = {1, 2}
    SlowDelivery = FALSE
    MaxStarts = 2
    MaxCrashes = 0
PROPERTIES RequestEnds SendingResolves
