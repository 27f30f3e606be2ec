\* One worker process, which may crash and start again; requests are cancelled.
\* Every request may have been answered: the system stops there.
SPECIFICATION Spec
CONSTANTS
    Requests = {r1, r2}
    Workers = {w1}
    Accounts = {a1, a2}
    None = None
    MaxKey = 1
    MaxStarts = 2
    MayCancel = TRUE
SYMMETRY PoolSymmetry
INVARIANTS
    PoolInv
    RefreshWorksOnThePoolKey
    CallersStayApart
    CondemnedStaysOut
CHECK_DEADLOCK FALSE
