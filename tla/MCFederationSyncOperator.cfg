\* The operator sets a later last timestamp while a sync is in flight.
CONSTANTS
    s1 = s1
    s2 = s2
    lockQ = lockQ
    q1 = q1
    Procs <- MCProcs
    LockIDs <- MCLockIDs
    LockOf <- MCLockOf
    QueryIDs <- MCQueryIDs
    QueryOf <- MCQueryOf
    TTL = 2
    WorkBound = 2
    Skew = 0
    Offset <- MCOffset
    MaxTs = 2
    MaxSyncs = 2
    OperatorCursors = {0, 2}
SPECIFICATION Spec
PROPERTY CursorNeverRegresses
