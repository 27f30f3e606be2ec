\* Three requests, either backend, with or without coalescing.
\* Every request may have been answered: the system stops there.
SPECIFICATION FairSpec
CONSTANTS
    Requests = {r1, r2, r3}
    Keys = {k1, k2}
    None = None
    BackendModes = {TRUE, FALSE}
    CoalesceModes = {TRUE, FALSE}
INVARIANTS
    FlightInv
    SingleFetch
    EmptyHandedOnlyIfLeaderCancelled
PROPERTIES
    MemoryNeverRefetches
    ImplementsFetchOnce
    EveryRequestAnswered
CHECK_DEADLOCK FALSE
