SPECIFICATION Spec
CONSTANTS
    Order = {1, 2}
    Session = {s1}
    l1 = l1
    l2 = l2
    Line = {l1, l2}
    Free = Free
    InitStock <- TwoLines
    Need <- TwoForSecond
    Kind = "data"
    Segments = 2
    RawSettings <- AllSettings
    InitStatuses = {"absent", "pending_ship"}
    Sources = {"live", "manual", "scan", "no_logistics"}
    IMFaults = {"refused", "unacknowledged"}
    Cancellable = {1}
    Overlapping = {}
    SlowDelivery = FALSE
    MaxStarts = 3
    MaxCrashes = 1
INVARIANTS TypeOK LineSoldOnce NoLineLost FailedIsRetriable
