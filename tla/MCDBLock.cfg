\* Safety of the lock when the caller's work fits in the TTL.
CONSTANTS
    p1 = p1
    p2 = p2
    p3 = p3
    lockA = lockA
    Procs <- MCProcs
    LockIDs <- MCLockIDs
    LockOf <- MCLockOf
    TTL = 2
    WorkBound = 2
    Skew = 0
    Offset <- MCOffset
SPECIFICATION Spec
INVARIANT TypeOK
INVARIANT LeaseExclusion
