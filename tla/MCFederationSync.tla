------------------------- MODULE MCFederationSync -------------------------
(* Instance of FederationSync for TLC: two sync invocations of one query,  *)
(* sharing that query's lock.                                              *)
EXTENDS FederationSync

CONSTANTS s1, s2, lockQ, q1

MCProcs == {s1, s2}
MCLockIDs == {lockQ}
MCLockOf == [p \in MCProcs |-> lockQ]
\* Every host's clock agrees.
MCOffset == [p \in MCProcs |-> 0]
MCQueryIDs == {q1}
MCQueryOf == [p \in MCProcs |-> q1]

=============================================================================
