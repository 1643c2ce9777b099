SPECIFICATION Spec
CONSTANTS
    Order = {1, 2}
    Session = {s1, s2}
    l1 = l1
    l2 = l2
    Line = {l1, l2}
    Free = Free
    InitStock <- TwoLines
    Need <- OneEach
    Kind = "data"
    Segments = 2
    RawSettings <- AllSettings
    InitStatuses = {"absent", "pending_ship"}
    Sources = {"live", "scan"}
    IMFaults = {"refused"}
    Cancellable = {2}
    Overlapping = {1}
    SlowDelivery = TRUE
    MaxStarts = 2
    MaxCrashes = 1
SYMMETRY Symmetry
INVARIANTS SentMeansWhole DeliveredIsReal ShippedMeansConfirmed OnlySendCardNeverConfirms NoAttemptAfterSent
