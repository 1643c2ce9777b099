SPECIFICATION WorkSpec
CONSTANTS
    MaxSessions = 2
    MaxRequests = 3
    MaxOpens = 2
    MaxLate = 1
    Account = {a1, a2}
    Socket = {w1, w2, w3}
    NoSocket = NoSocket
    Batch = {1, 2}
    MaxAsks = 2
    JobBatch = {1}
    Seller = {a1, a2}
    Material = {m1}
    RetryLimit = 2
    Visitor = {v1}
    Person = {p1}
    Quota = 1
    MaxWorkers = 1
    MaxPolls = 2
INVARIANTS WorkTypeOK PollIsCurrent NoAbandonedSession FollowsShown NoDoubleListing
PROPERTIES LoginSettles LinksAreKept WantedOpens PageLearnsEnd BatchesProgress ScanSettles
CHECK_DEADLOCK FALSE
