\* Self-healing of an abandoned lock under the scheduler's fairness.
CONSTANTS
    p1 = p1
    p2 = p2
    p3 = p3
    lockA = lockA
    Procs <- MCProcs
    LockIDs <- MCLockIDs
    LockOf <- MCLockOf
    TTL = 2
    WorkBound = 2
    Skew = 0
    Offset <- MCOffset
SPECIFICATION FairSpec
PROPERTY AbandonedLockHeals
