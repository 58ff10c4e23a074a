\* The lock with one host's clock a tick ahead and no margin for it in the TTL.
CONSTANTS
    p1 = p1
    p2 = p2
    p3 = p3
    lockA = lockA
    Procs <- MCProcs
    LockIDs <- MCLockIDs
    LockOf <- MCLockOf
    TTL = 2
    WorkBound = 2
    Skew = 1
    Offset <- MCSkewOffset
SPECIFICATION Spec
INVARIANT LeaseExclusion
