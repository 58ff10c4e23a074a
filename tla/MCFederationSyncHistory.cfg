\* A sync outlives its lock TTL, a second sync of the query runs beside it,
\* and the operator re-adds the query: the history rows stay an audit log.
CONSTANTS
    s1 = s1
    s2 = s2
    lockQ = lockQ
    q1 = q1
    Procs <- MCProcs
    LockIDs <- MCLockIDs
    LockOf <- MCLockOf
    QueryIDs <- MCQueryIDs
    QueryOf <- MCQueryOf
    TTL = 2
    WorkBound = 3
    Skew = 0
    Offset <- MCOffset
    MaxTs = 2
    MaxSyncs = 2
    OperatorCursors = {0, 2}
SPECIFICATION Spec
PROPERTY HistoryRowFinal
