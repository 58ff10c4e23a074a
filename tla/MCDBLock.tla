------------------------------ MODULE MCDBLock ------------------------------
(* Instance of DBLock for TLC: three invocations racing for one lock, so  *)
(* that two stealers can race while a third holds or releases.           *)
EXTENDS DBLock

CONSTANTS p1, p2, p3, lockA

MCProcs == {p1, p2, p3}
MCLockIDs == {lockA}
MCLockOf == [p \in MCProcs |-> lockA]
\* Every host's clock agrees.
MCOffset == [p \in MCProcs |-> 0]
\* The host running p2 has its clock one tick ahead of the others.
MCSkewOffset == [p \in MCProcs |-> IF p = p2 THEN 1 ELSE 0]

=============================================================================
