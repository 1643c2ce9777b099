\* The chat page with five user actions, pushed messages or dropped accounts; four
\* changes of keyword rules; four lists of items.
SPECIFICATION PagesSpec

CONSTANTS
    a1 = a1
    a2 = a2
    c1 = c1
    c2 = c2
    c3 = c3
    i1 = i1
    i2 = i2
    None = None
    Conv <- MCConv
    AccountOf <- MCAccountOf
    MaxEvents = 5
    Tab = {t1, t2}
    Keyword = {k1, k2}
    Item = {g1}
    General = General
    MaxRules = 4
    Listing <- MCListing
    SellerOf <- MCSellerOf
    All = All
    MaxLoads = 4
    Visitor = {v1}
    Person = {p1, p2}
    Quota = 1
    MaxWorkers = 2
    MaxPolls = 2

INVARIANTS PagesTypeOK CachesBelong PushesAreShown BlockedIsOfShown RulesStay QuotaKept
PROPERTIES ImageStays PlatformDeleteOwn

\* The bounds, a late answer and an overwritten list end an instance.
CHECK_DEADLOCK FALSE
