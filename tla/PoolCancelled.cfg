\* As PoolCalm, with requests cancelled by the server.
SPECIFICATION Spec
CONSTANTS
    Requests = {r1}
    Workers = {w1}
    Accounts = {a1}
    None = None
    MaxKey = 2
    MaxStarts = 1
    MayCancel = TRUE
SYMMETRY PoolSymmetry
INVARIANTS
    ReplacedKeysLeaveThePool
CHECK_DEADLOCK FALSE
