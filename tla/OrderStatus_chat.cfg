CONSTANTS
    o1 = o1
    o2 = o2
    b1 = b1
    i1 = i1
    i2 = i2
    s1 = s1
    s2 = s2
    seller = seller
    unsaid = unsaid
    Order = {o1, o2}
    Buyer <- OneBuyer
    Item <- TwoItems
    Session = {s1, s2}
    Seller = seller
    Unsaid = unsaid
    Jobs = {"live", "history", "reconcile", "sync", "send"}
    Unbound = {"pending_payment"}
    Bare = {"refunded"}
    Senders = {b1, seller}
    Words = {"refunded"}
    Reminds = TRUE
    Edits = {"cancelled"}
    ListGaps = TRUE
    Page = 2
    MaxMessages = 2
    MaxStarts = 3
SPECIFICATION Spec
SYMMETRY Sessions
INVARIANTS TypeOK Justified
PROPERTIES ChatSetsBackOnlyStale ChatCatchesUp
