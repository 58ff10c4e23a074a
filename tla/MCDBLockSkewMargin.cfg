\* Safety of the lock when one host's clock runs a tick ahead and the TTL
\* leaves a tick of margin for it beyond the caller's work.
CONSTANTS
    p1 = p1
    p2 = p2
    p3 = p3
    lockA = lockA
    Procs <- MCProcs
    LockIDs <- MCLockIDs
    LockOf <- MCLockOf
    TTL = 3
    WorkBound = 2
    Skew = 1
    Offset <- MCSkewOffset
SPECIFICATION Spec
INVARIANT LeaseExclusion
