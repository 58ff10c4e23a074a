\* The bookkeeping implements the sync ledger when the sync fits in the lock TTL
\* and the operator only re-adds queries with the default (zero) last timestamp.
CONSTANTS
    s1 = s1
    s2 = s2
    lockQ = lockQ
    q1 = q1
    Procs <- MCProcs
    LockIDs <- MCLockIDs
    LockOf <- MCLockOf
    QueryIDs <- MCQueryIDs
    QueryOf <- MCQueryOf
    TTL = 2
    WorkBound = 2
    Skew = 0
    Offset <- MCOffset
    MaxTs = 2
    MaxSyncs = 2
    OperatorCursors = {0}
SPECIFICATION Spec
PROPERTY LedgerRefined
