\* The caller works one tick past the TTL: the late UnlockFn deletes a stolen lock.
CONSTANTS
    p1 = p1
    p2 = p2
    p3 = p3
    lockA = lockA
    Procs <- MCProcs
    LockIDs <- MCLockIDs
    LockOf <- MCLockOf
    TTL = 2
    WorkBound = 3
    Skew = 0
    Offset <- MCOffset
SPECIFICATION Spec
INVARIANT LeaseExclusion
