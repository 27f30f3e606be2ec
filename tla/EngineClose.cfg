\* Bodies that never end are allowed.
\* Every operation and every close may have ended: the system stops there.
SPECIFICATION LifeFairSpec
CONSTANTS
    Ops = {o1, o2, o3}
    Closers = {c1, c2}
    None = None
INVARIANTS
    CloseInv
    TransportOutlivesOperations
PROPERTIES
    NobodyWaitsForEver
CHECK_DEADLOCK FALSE
