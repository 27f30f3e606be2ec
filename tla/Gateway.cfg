\* Three requests to a route of every policy, two slots, a cache of two entries.
SPECIFICATION Spec
CONSTANTS
    Clients = {"client"}
    Keys = {1, 2, 3}
    Capacity = 2
    Window = 60
    Limit = 2
    MaxSize = 2
    NegativeTtl = 3
    MaxRequests = 3
    Leaps = {65}
    MaxNow = 65
INVARIANTS
    SlotsConserved
    RateHolds
    CacheIsPublic
    MarksBlameUpstream
    CallersActAsThemselves
PROPERTIES
    EvictionOrder
CHECK_DEADLOCK FALSE
