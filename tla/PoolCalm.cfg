\* One worker, no crash, no cancellation: what a failure alone can do.
\* Every request may have been answered: the system stops there.
SPECIFICATION FairSpec
CONSTANTS
    Requests = {r1, r2}
    Workers = {w1}
    Accounts = {a1}
    None = None
    MaxKey = 3
    MaxStarts = 1
    MayCancel = FALSE
INVARIANTS
    ReplacedKeysLeaveThePool
PROPERTIES
    EveryRequestAnswered
CHECK_DEADLOCK FALSE
