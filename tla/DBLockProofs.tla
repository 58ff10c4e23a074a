---------------------------- MODULE DBLockProofs ----------------------------
(***************************************************************************)
(* Proofs about the TTL lock of lock.go (module DBLock), for every set of  *)
(* invocations and lock ids, every TTL and work bound, and every clock     *)
(* offset of the hosts within Skew.                                        *)
(***************************************************************************)
EXTENDS DBLock, TLAPS

USE LockOfAssumption, TTLAssumption, WorkBoundAssumption, SkewAssumption,
    OffsetAssumption

(* MarkConflicts only turns flags on: it keeps the type of conflict.       *)
LEMMA MarkConflictsType ==
    ASSUME NEW p \in Procs, NEW l \in LockIDs,
           conflict \in [Procs -> BOOLEAN]
    PROVE  MarkConflicts(p, l) \in [Procs -> BOOLEAN]
BY DEF MarkConflicts

(* A tick keeps an expiry within Expiry.                                   *)
LEMMA ElapseType ==
    ASSUME NEW e \in Expiry
    PROVE  Elapse(e) \in Expiry
BY DEF Elapse, Expiry

(* The write of DB.Lock keeps the types of the Lock table and of the      *)
(* conflict flags.                                                         *)
LEMMA WriteLockType ==
    ASSUME TypeOK, NEW p \in Procs, WriteLock(p)
    PROVE  /\ rowExists' \in [LockIDs -> BOOLEAN]
           /\ rowExpires' \in [LockIDs -> Expiry]
           /\ conflict' \in [Procs -> BOOLEAN]
<1> DEFINE l == LockOf[p]
<1>1. l \in LockIDs /\ Deadline(p) \in Expiry
  BY DEF Expiry, Deadline
<1>2. conflict' \in [Procs -> BOOLEAN]
  BY MarkConflictsType, <1>1 DEF WriteLock, TypeOK
<1>3. CASE snapExists[p]
  <2>1. rowExpires' = [rowExpires EXCEPT ![l] = Deadline(p)] /\ rowExists' = rowExists
    BY <1>3 DEF WriteLock
  <2>2. QED
    BY <2>1, <1>1, <1>2 DEF TypeOK
<1>4. CASE ~snapExists[p]
  <2>1. rowExpires' = [rowExpires EXCEPT ![l] = Deadline(p)]
        /\ rowExists' = [rowExists EXCEPT ![l] = TRUE]
    BY <1>4 DEF WriteLock
  <2>2. QED
    BY <2>1, <1>1, <1>2 DEF TypeOK
<1>5. QED
  BY <1>2, <1>3, <1>4

-----------------------------------------------------------------------------
(* Every step keeps TypeOK.                                               *)
LEMMA TypeStep == TypeOK /\ [Next]_vars => TypeOK'
<1> SUFFICES ASSUME TypeOK, [Next]_vars PROVE TypeOK'
  OBVIOUS
<1>1. ASSUME NEW p \in Procs, LockRead(p) PROVE TypeOK'
  BY <1>1 DEF LockRead, TypeOK
<1>2. ASSUME NEW p \in Procs, LockAcquire(p) PROVE TypeOK'
  BY <1>2, WriteLockType DEF LockAcquire, ForgetRead, TypeOK, Expiry, Deadline
<1>3. ASSUME NEW p \in Procs, LockAlreadyLocked(p) PROVE TypeOK'
  BY <1>3 DEF LockAlreadyLocked, ForgetRead, TypeOK, Expiry
<1>4. ASSUME NEW p \in Procs, LockAbort(p) PROVE TypeOK'
  BY <1>4 DEF LockAbort, ForgetRead, TypeOK, Expiry
<1>5. ASSUME NEW p \in Procs, LockAckLost(p) PROVE TypeOK'
  BY <1>5, WriteLockType DEF LockAckLost, ForgetRead, TypeOK, Expiry
<1>6. ASSUME NEW p \in Procs, Unlock(p) PROVE TypeOK'
  <2>1. LockOf[p] \in LockIDs /\ -1 \in Expiry
    BY DEF Expiry
  <2>2. conflict' \in [Procs -> BOOLEAN]
    BY <1>6, <2>1, MarkConflictsType DEF Unlock, TypeOK
  <2>3. rowExists' = [rowExists EXCEPT ![LockOf[p]] = FALSE]
        /\ rowExpires' = [rowExpires EXCEPT ![LockOf[p]] = -1]
    BY <1>6 DEF Unlock
  <2>4. /\ pc' = [pc EXCEPT ![p] = "idle"]
        /\ lease' = [lease EXCEPT ![p] = -1]
        /\ UNCHANGED <<snapExists, snapExpires>>
    BY <1>6 DEF Unlock
  <2>5. QED
    BY <2>1, <2>2, <2>3, <2>4 DEF TypeOK
<1>7. ASSUME NEW p \in Procs, UnlockFail(p) PROVE TypeOK'
  BY <1>7 DEF UnlockFail, TypeOK, Expiry
<1>8. CASE Tick
  BY <1>8, ElapseType DEF Tick, TypeOK
<1>9. CASE UNCHANGED vars
  BY <1>9 DEF vars, TypeOK
<1>10. QED
  BY <1>1, <1>2, <1>3, <1>4, <1>5, <1>6, <1>7, <1>8, <1>9 DEF Next

(* Type correctness: every reachable state has TypeOK.                     *)
THEOREM TypeCorrect == Spec => []TypeOK
<1>1. Init => TypeOK
  BY DEF Init, TypeOK, Expiry
<1>2. QED
  BY <1>1, TypeStep, PTL DEF Spec

-----------------------------------------------------------------------------
(* The inductive invariant.                                                *)

(* A transaction no concurrent commit has written over still sees the     *)
(* current row: what it read is what the store holds.  Serializable        *)
(* isolation is what makes a decision taken on the read valid at commit.   *)
SnapshotCurrent ==
    \A p \in Procs :
        pc[p] = "reading" /\ ~conflict[p]
        => /\ snapExists[p] = rowExists[LockOf[p]]
           /\ snapExpires[p] = rowExpires[LockOf[p]]

(* A holder's row is still there with the expiry it wrote, and the holder  *)
(* has worked at most WorkBound ticks since it wrote Deadline(p).          *)
HolderOwnsRow ==
    \A p \in Procs :
        Holding(p) => /\ rowExists[LockOf[p]]
                      /\ rowExpires[LockOf[p]] = lease[p]
                      /\ lease[p] >= Deadline(p) - WorkBound

(* At most one invocation holds each lock.                                 *)
SingleHolder ==
    \A p, q \in Procs :
        Holding(p) /\ Holding(q) /\ LockOf[p] = LockOf[q] => p = q

SnapInv == TypeOK /\ SnapshotCurrent

IInv == SnapInv /\ HolderOwnsRow /\ SingleHolder

(* The write of DB.Lock touches only the row of LockOf[p], and flags every *)
(* other open transaction on that lock.                                    *)
LEMMA WriteLockFrame ==
    ASSUME TypeOK, NEW p \in Procs, WriteLock(p)
    PROVE  /\ \A k \in LockIDs \ {LockOf[p]} :
                 rowExists'[k] = rowExists[k] /\ rowExpires'[k] = rowExpires[k]
           /\ \A r \in Procs \ {p} :
                 conflict'[r] = MarkConflicts(p, LockOf[p])[r]
<1> DEFINE l == LockOf[p]
<1>1. l \in LockIDs
  OBVIOUS
<1>2. \A r \in Procs \ {p} : conflict'[r] = MarkConflicts(p, l)[r]
  BY DEF WriteLock, MarkConflicts
<1>3. CASE snapExists[p]
  <2>1. rowExpires' = [rowExpires EXCEPT ![l] = Deadline(p)] /\ rowExists' = rowExists
    BY <1>3 DEF WriteLock
  <2>2. QED
    BY <2>1, <1>1, <1>2 DEF TypeOK
<1>4. CASE ~snapExists[p]
  <2>1. rowExpires' = [rowExpires EXCEPT ![l] = Deadline(p)]
        /\ rowExists' = [rowExists EXCEPT ![l] = TRUE]
    BY <1>4 DEF WriteLock
  <2>2. QED
    BY <2>1, <1>1, <1>2 DEF TypeOK
<1>5. QED
  BY <1>3, <1>4

(* Every step keeps the snapshots of the open transactions current.        *)
LEMMA SnapshotStep == SnapInv /\ [Next]_vars => SnapshotCurrent'
<1> SUFFICES ASSUME TypeOK, SnapshotCurrent, [Next]_vars,
                    NEW r \in Procs, pc'[r] = "reading", ~conflict'[r]
             PROVE  /\ snapExists'[r] = rowExists'[LockOf[r]]
                    /\ snapExpires'[r] = rowExpires'[LockOf[r]]
  BY DEF SnapInv, SnapshotCurrent
<1>1. ASSUME NEW p \in Procs, LockRead(p)
      PROVE  /\ snapExists'[r] = rowExists'[LockOf[r]]
             /\ snapExpires'[r] = rowExpires'[LockOf[r]]
  <2>1. CASE r = p
    BY <1>1, <2>1 DEF LockRead, TypeOK
  <2>2. CASE r # p
    BY <1>1, <2>2 DEF LockRead, TypeOK, SnapshotCurrent
  <2>3. QED
    BY <2>1, <2>2
<1>2. ASSUME NEW p \in Procs, LockAcquire(p) \/ LockAckLost(p)
      PROVE  /\ snapExists'[r] = rowExists'[LockOf[r]]
             /\ snapExpires'[r] = rowExpires'[LockOf[r]]
  <2>1. WriteLock(p) /\ pc[p] = "reading" /\ ForgetRead(p)
        /\ pc'[p] # "reading"
    BY <1>2 DEF LockAcquire, LockAckLost, TypeOK
  <2>2. r # p /\ pc[r] = "reading"
    BY <1>2, <2>1 DEF LockAcquire, LockAckLost, TypeOK
  <2>3. conflict'[r] = IF LockOf[r] = LockOf[p] THEN TRUE ELSE conflict[r]
    <3>1. conflict'[r] = MarkConflicts(p, LockOf[p])[r]
      BY <2>1, <2>2, WriteLockFrame
    <3>2. MarkConflicts(p, LockOf[p])[r]
          = IF LockOf[r] = LockOf[p] THEN TRUE ELSE conflict[r]
      BY <2>2 DEF MarkConflicts
    <3>3. QED
      BY <3>1, <3>2
  <2>4. LockOf[r] # LockOf[p] /\ ~conflict[r]
    BY <2>3
  <2>5. /\ rowExists'[LockOf[r]] = rowExists[LockOf[r]]
        /\ rowExpires'[LockOf[r]] = rowExpires[LockOf[r]]
    BY <2>1, <2>4, WriteLockFrame
  <2>6. snapExists'[r] = snapExists[r] /\ snapExpires'[r] = snapExpires[r]
    BY <2>1, <2>2 DEF ForgetRead, TypeOK
  <2>7. QED
    BY <2>2, <2>4, <2>5, <2>6 DEF SnapshotCurrent
<1>3. ASSUME NEW p \in Procs, LockAlreadyLocked(p) \/ LockAbort(p)
      PROVE  /\ snapExists'[r] = rowExists'[LockOf[r]]
             /\ snapExpires'[r] = rowExpires'[LockOf[r]]
  <2>1. r # p
    BY <1>3 DEF LockAlreadyLocked, LockAbort, TypeOK
  <2>2. QED
    BY <1>3, <2>1 DEF LockAlreadyLocked, LockAbort, ForgetRead, TypeOK,
                      SnapshotCurrent
<1>4. ASSUME NEW p \in Procs, Unlock(p)
      PROVE  /\ snapExists'[r] = rowExists'[LockOf[r]]
             /\ snapExpires'[r] = rowExpires'[LockOf[r]]
  <2>1. r # p /\ pc[r] = "reading"
    BY <1>4 DEF Unlock, TypeOK
  <2>2. conflict'[r] = IF LockOf[r] = LockOf[p] THEN TRUE ELSE conflict[r]
    <3>1. conflict' = MarkConflicts(p, LockOf[p])
      BY <1>4 DEF Unlock
    <3>2. MarkConflicts(p, LockOf[p])[r]
          = IF LockOf[r] = LockOf[p] THEN TRUE ELSE conflict[r]
      BY <2>1 DEF MarkConflicts
    <3>3. QED
      BY <3>1, <3>2
  <2>3. LockOf[r] # LockOf[p] /\ ~conflict[r]
    BY <2>2
  <2>4. QED
    BY <1>4, <2>1, <2>3 DEF Unlock, TypeOK, SnapshotCurrent
<1>5. ASSUME NEW p \in Procs, UnlockFail(p)
      PROVE  /\ snapExists'[r] = rowExists'[LockOf[r]]
             /\ snapExpires'[r] = rowExpires'[LockOf[r]]
  BY <1>5 DEF UnlockFail, TypeOK, SnapshotCurrent
<1>6. CASE Tick
  BY <1>6 DEF Tick, TypeOK, SnapshotCurrent
<1>7. CASE UNCHANGED vars
  BY <1>7 DEF vars, SnapshotCurrent
<1>8. QED
  BY <1>1, <1>2, <1>3, <1>4, <1>5, <1>6, <1>7 DEF Next

(* The only step that takes an invocation from an open transaction to      *)
(* holding the lock is its own successful DB.Lock.                         *)
LEMMA OnlyAcquireTakes ==
    ASSUME TypeOK, [Next]_vars, NEW p \in Procs,
           pc[p] = "reading", pc'[p] = "holding"
    PROVE  LockAcquire(p)
<1>1. ASSUME NEW q \in Procs,
             \/ LockRead(q) \/ LockAlreadyLocked(q) \/ LockAbort(q)
             \/ LockAckLost(q) \/ Unlock(q) \/ UnlockFail(q)
      PROVE  FALSE
  <2>1. CASE q = p
    BY <1>1, <2>1 DEF LockRead, LockAlreadyLocked, LockAbort, LockAckLost,
                      Unlock, UnlockFail, TypeOK
  <2>2. CASE q # p
    BY <1>1, <2>2 DEF LockRead, LockAlreadyLocked, LockAbort, LockAckLost,
                      Unlock, UnlockFail, TypeOK
  <2>3. QED
    BY <2>1, <2>2
<1>2. ASSUME NEW q \in Procs, LockAcquire(q), q # p PROVE FALSE
  BY <1>2 DEF LockAcquire, TypeOK
<1>3. ~Tick /\ ~UNCHANGED vars
  BY DEF Tick, vars
<1>4. QED
  BY <1>1, <1>2, <1>3 DEF Next

(* DB.Lock never overwrites a live lock (StealOnlyExpired), for every TTL  *)
(* and whatever the callers' timing: serializable isolation alone makes    *)
(* the read-then-write of lock.go atomic.                                  *)
THEOREM StealOnlyExpiredHolds == Spec => StealOnlyExpired
<1>1. Init => SnapInv
  BY DEF Init, SnapInv, TypeOK, SnapshotCurrent, Expiry
<1>2. SnapInv /\ [Next]_vars => SnapInv'
  BY TypeStep, SnapshotStep DEF SnapInv
<1>3. SnapInv /\ [Next]_vars
      => [\A p \in Procs :
             pc[p] = "reading" /\ pc'[p] = "holding"
             => ~(rowExists[LockOf[p]] /\ ~Expired(p, rowExpires[LockOf[p]]))]_vars
  <2> SUFFICES ASSUME SnapInv, [Next]_vars, NEW p \in Procs,
                      pc[p] = "reading", pc'[p] = "holding"
               PROVE  ~(rowExists[LockOf[p]] /\ ~Expired(p, rowExpires[LockOf[p]]))
    OBVIOUS
  <2>1. LockAcquire(p)
    BY OnlyAcquireTakes DEF SnapInv
  <2>2. SawFree(p) /\ ~conflict[p]
    BY <2>1 DEF LockAcquire
  <2>3. snapExists[p] = rowExists[LockOf[p]]
        /\ snapExpires[p] = rowExpires[LockOf[p]]
    BY <2>2 DEF SnapInv, SnapshotCurrent
  <2>4. QED
    BY <2>2, <2>3 DEF SawFree, Expired, SnapInv, TypeOK, Expiry
<1>4. QED
  BY <1>1, <1>2, <1>3, PTL DEF Spec, StealOnlyExpired

-----------------------------------------------------------------------------
(* Mutual exclusion when the caller's work fits in the TTL.                *)

(* With WorkBound + Skew <= TTL, a lock whose row is absent or expired by  *)
(* the clock of some invocation a has no holder: every holder's row is     *)
(* there, with an expiry at least Skew ticks ahead.                        *)
LEMMA FreeRowHasNoHolder ==
    ASSUME WorkBound + Skew <= TTL, TypeOK, HolderOwnsRow,
           NEW a \in Procs, NEW l \in LockIDs,
           ~rowExists[l] \/ rowExpires[l] < Offset[a],
           NEW q \in Procs, Holding(q), LockOf[q] = l
    PROVE  FALSE
BY DEF HolderOwnsRow, TypeOK, Expiry, Deadline

(* Every step keeps HolderOwnsRow and SingleHolder.                        *)
LEMMA HolderStep ==
    ASSUME WorkBound + Skew <= TTL
    PROVE  IInv /\ [Next]_vars => (HolderOwnsRow /\ SingleHolder)'
<1> SUFFICES ASSUME TypeOK, SnapshotCurrent, HolderOwnsRow, SingleHolder,
                    [Next]_vars
             PROVE  (HolderOwnsRow /\ SingleHolder)'
  BY DEF IInv, SnapInv
<1>1. ASSUME NEW p \in Procs,
             LockRead(p) \/ LockAlreadyLocked(p) \/ LockAbort(p)
      PROVE  (HolderOwnsRow /\ SingleHolder)'
  BY <1>1 DEF LockRead, LockAlreadyLocked, LockAbort, ForgetRead, TypeOK,
              HolderOwnsRow, SingleHolder, Holding
<1>2. ASSUME NEW p \in Procs, LockAcquire(p) \/ LockAckLost(p)
      PROVE  (HolderOwnsRow /\ SingleHolder)'
  <2> DEFINE l == LockOf[p]
  <2>1. WriteLock(p) /\ pc[p] = "reading" /\ SawFree(p) /\ ~conflict[p]
    BY <1>2 DEF LockAcquire, LockAckLost
  <2>2. snapExists[p] = rowExists[l] /\ snapExpires[p] = rowExpires[l]
    BY <2>1 DEF SnapshotCurrent
  <2>3. ~rowExists[l] \/ rowExpires[l] < Offset[p]
    BY <2>1, <2>2 DEF SawFree, Expired
  <2>4. \A q \in Procs : Holding(q) => LockOf[q] # l
    BY <2>3, FreeRowHasNoHolder
  <2>5. rowExists'[l] /\ rowExpires'[l] = Deadline(p)
    BY <2>1, <2>2 DEF WriteLock, TypeOK
  <2>6. \A k \in LockIDs \ {l} :
           rowExists'[k] = rowExists[k] /\ rowExpires'[k] = rowExpires[k]
    BY <2>1, WriteLockFrame
  <2>7. \A q \in Procs \ {p} : pc'[q] = pc[q] /\ lease'[q] = lease[q]
    BY <1>2 DEF LockAcquire, LockAckLost, TypeOK
  <2>8. /\ pc'[p] \in {"holding", "idle"}
        /\ pc'[p] = "holding" => lease'[p] = Deadline(p)
    BY <1>2 DEF LockAcquire, LockAckLost, TypeOK
  <2>9. Deadline(p) >= Deadline(p) - WorkBound
    BY DEF Deadline
  <2>10. HolderOwnsRow'
    BY <2>4, <2>5, <2>6, <2>7, <2>8, <2>9 DEF HolderOwnsRow, Holding
  <2>11. SingleHolder'
    BY <2>4, <2>7, <2>8 DEF SingleHolder, Holding
  <2>12. QED
    BY <2>10, <2>11
<1>3. ASSUME NEW p \in Procs, Unlock(p)
      PROVE  (HolderOwnsRow /\ SingleHolder)'
  <2> DEFINE l == LockOf[p]
  <2>1. \A q \in Procs \ {p} : Holding(q) => LockOf[q] # l
    BY <1>3 DEF Unlock, SingleHolder, Holding
  <2>2. \A k \in LockIDs \ {l} :
           rowExists'[k] = rowExists[k] /\ rowExpires'[k] = rowExpires[k]
    BY <1>3 DEF Unlock, TypeOK
  <2>3. pc'[p] = "idle" /\ \A q \in Procs \ {p} : pc'[q] = pc[q] /\ lease'[q] = lease[q]
    BY <1>3 DEF Unlock, TypeOK
  <2>4. QED
    BY <2>1, <2>2, <2>3 DEF HolderOwnsRow, SingleHolder, Holding
<1>4. ASSUME NEW p \in Procs, UnlockFail(p)
      PROVE  (HolderOwnsRow /\ SingleHolder)'
  <2>1. pc'[p] = "idle" /\ \A q \in Procs \ {p} : pc'[q] = pc[q] /\ lease'[q] = lease[q]
    BY <1>4 DEF UnlockFail, TypeOK
  <2>2. QED
    BY <1>4, <2>1 DEF UnlockFail, HolderOwnsRow, SingleHolder, Holding
<1>5. CASE Tick
  <2>1. SUFFICES ASSUME NEW q \in Procs, Holding(q)
                 PROVE  /\ rowExists'[LockOf[q]]
                        /\ rowExpires'[LockOf[q]] = lease'[q]
                        /\ lease'[q] >= Deadline(q) - WorkBound
    BY <1>5 DEF Tick, HolderOwnsRow, SingleHolder, Holding
  <2>2. Deadline(q) - Elapse(lease[q]) <= WorkBound
    BY <1>5, <2>1 DEF Tick
  <2>3. QED
    BY <1>5, <2>1, <2>2 DEF Tick, HolderOwnsRow, TypeOK, Elapse, Expiry, Deadline
<1>6. CASE UNCHANGED vars
  BY <1>6 DEF vars, HolderOwnsRow, SingleHolder, Holding
<1>7. QED
  BY <1>1, <1>2, <1>3, <1>4, <1>5, <1>6 DEF Next

(* The initial state satisfies the inductive invariant of mutual          *)
(* exclusion.                                                              *)
LEMMA IInvInit == Init => IInv
BY DEF Init, IInv, SnapInv, TypeOK, SnapshotCurrent, HolderOwnsRow,
       SingleHolder, Holding, Expiry

(* The inductive invariant of mutual exclusion, stated once for the       *)
(* modules that compose the lock with its callers.                         *)
LEMMA IInvStep ==
    ASSUME WorkBound + Skew <= TTL
    PROVE  IInv /\ [Next]_vars => IInv'
BY TypeStep, SnapshotStep, HolderStep DEF IInv, SnapInv

(* Lock mutual exclusion (LeaseExclusion) for every set of invocations and *)
(* locks and every TTL and clock offsets, provided the caller's work under *)
(* the lock plus the clock skew between hosts never outlasts the TTL.     *)
THEOREM LeaseExclusionHolds ==
    ASSUME WorkBound + Skew <= TTL
    PROVE  Spec => []LeaseExclusion
<1>1. Init => IInv
  BY DEF Init, IInv, SnapInv, TypeOK, SnapshotCurrent, HolderOwnsRow,
         SingleHolder, Holding, Expiry
<1>2. IInv /\ [Next]_vars => IInv'
  BY TypeStep, SnapshotStep, HolderStep DEF IInv, SnapInv
<1>3. IInv => LeaseExclusion
  BY DEF IInv, SingleHolder, LeaseExclusion
<1>4. QED
  BY <1>1, <1>2, <1>3, PTL DEF Spec


=============================================================================
