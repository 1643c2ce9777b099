SPECIFICATION FairSpec
CONSTANTS
    User = {u1, u2}
    Request = {r1}
    Verify = {v1, v2}
    None = None
    MaxTokens = 3
    MaxReloads = 1
INVARIANTS TypeOK OneUser ShownHasSession
PROPERTIES RefreshIsSingleFlight CallsEnd RouteDecides
