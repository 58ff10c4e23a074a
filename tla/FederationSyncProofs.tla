------------------------- MODULE FederationSyncProofs -------------------------
(***************************************************************************)
(* Proofs about the federation-sync bookkeeping composed with its lock     *)
(* (module FederationSync), for every set of invocations, queries and      *)
(* locks and every bound.  The lock's own facts come from DBLockProofs,    *)
(* instantiated on the shared lock variables.                              *)
(***************************************************************************)
EXTENDS FederationSync, TLAPS

USE LockConstantsAssumption, QueryOfAssumption, MaxTsAssumption,
    MaxSyncsAssumption, OperatorCursorsAssumption

(* Every step of the composition moves the lock variables by a step of     *)
(* the lock module or leaves them alone.                                   *)
LEMMA LockProjection == [Next]_vars => [Lk!Next]_lockVars
<1> SUFFICES ASSUME [Next]_vars PROVE [Lk!Next]_lockVars
  OBVIOUS
<1>1. ASSUME NEW p \in Procs,
             \/ SyncLockStep(p) \/ SyncLockAcquire(p) \/ SyncUnlock(p)
             \/ SyncAbandon(p)
      PROVE  Lk!Next
  BY <1>1 DEF SyncLockStep, SyncLockAcquire, SyncUnlock, SyncAbandon, Lk!Next
<1>2. ASSUME NEW p \in Procs,
             \/ LoadQuery(p) \/ StartSync(p) \/ Pull(p) \/ Finalize(p)
             \/ SyncStepFails(p)
      PROVE  UNCHANGED lockVars
  BY <1>2 DEF LoadQuery, StartSync, Pull, Finalize, SyncStepFails
<1>3. CASE AddQuery \/ PeerPublish \/ UNCHANGED vars
  BY <1>3 DEF AddQuery, AddFederationQuery, PeerPublish, vars
<1>4. CASE Tick
  BY <1>4 DEF Tick, Lk!Next
<1>5. QED
  BY <1>1, <1>2, <1>3, <1>4 DEF Next

(* The lock's type is kept: the lock module's own lemma, on the shared     *)
(* variables.                                                              *)
LEMMA LockTypeStep == Lk!TypeOK /\ [Next]_vars => Lk!TypeOK'
BY LockProjection, Lk!TypeStep DEF Lk!vars, lockVars

-----------------------------------------------------------------------------
(* Type correctness.                                                       *)

(* The history row a sync pulls and finalizes for is one it inserted.      *)
SyncRowInRange ==
    \A p \in Procs : phase[p] \in {"pull", "finalize"}
                     => syncRow[p] \in 1..Len(history)

FedTypeInv == TypeOK /\ SyncRowInRange

LEMMA FedTypeStep == FedTypeInv /\ [Next]_vars => FedTypeInv'
<1> SUFFICES ASSUME TypeOK, SyncRowInRange, [Next]_vars
             PROVE  FedTypeInv'
  BY DEF FedTypeInv
<1>0. Lk!TypeOK'
  BY LockTypeStep DEF TypeOK
<1>1. ASSUME NEW p \in Procs, SyncLockStep(p)
      PROVE  FedTypeInv'
  <2>1. UNCHANGED <<queryExists, cursor, history, peerMax, phase, readCursor,
                    syncRow, pulledMax, pulledN>>
    BY <1>1 DEF SyncLockStep, fedVars, syncVars
  <2>2. QED
    BY <1>0, <2>1 DEF FedTypeInv, TypeOK, SyncRowInRange
<1>2. ASSUME NEW p \in Procs, SyncLockAcquire(p)
      PROVE  FedTypeInv'
  <2>1. UNCHANGED <<queryExists, cursor, history, peerMax, readCursor,
                    syncRow, pulledMax, pulledN>>
    BY <1>2 DEF SyncLockAcquire, fedVars
  <2>2. phase' = [phase EXCEPT ![p] = "load"]
    BY <1>2 DEF SyncLockAcquire
  <2>3. QED
    BY <1>0, <2>1, <2>2 DEF FedTypeInv, TypeOK, SyncRowInRange, Phases
<1>3. ASSUME NEW p \in Procs, LoadQuery(p)
      PROVE  FedTypeInv'
  <2>1. UNCHANGED <<queryExists, cursor, history, peerMax, syncRow, pulledMax,
                    pulledN>>
    BY <1>3 DEF LoadQuery, fedVars
  <2>2. phase'[p] \in {"start", "done"} /\ phase' \in [Procs -> Phases]
        /\ \A r \in Procs \ {p} : phase'[r] = phase[r]
    BY <1>3 DEF LoadQuery, TypeOK, Phases
  <2>3. readCursor' \in [Procs -> Ts]
    BY <1>3 DEF LoadQuery, TypeOK
  <2>4. QED
    BY <1>0, <2>1, <2>2, <2>3 DEF FedTypeInv, TypeOK, SyncRowInRange
<1>4. ASSUME NEW p \in Procs, StartSync(p)
      PROVE  FedTypeInv'
  <2>1. UNCHANGED <<queryExists, cursor, peerMax, readCursor, pulledMax,
                    pulledN>>
    BY <1>4 DEF StartSync
  <2>2. [query |-> QueryOf[p], completed |-> FALSE, insertions |-> 0,
         maxTs |-> 0] \in SyncRow
    BY DEF SyncRow, Ts
  <2>3. history' \in Seq(SyncRow) /\ Len(history') = Len(history) + 1
        /\ Len(history') <= MaxSyncs
    BY <1>4, <2>2 DEF StartSync, TypeOK
  <2>4. syncRow' \in [Procs -> 0..MaxSyncs] /\ syncRow'[p] = Len(history')
        /\ \A r \in Procs \ {p} : syncRow'[r] = syncRow[r]
    BY <1>4, <2>3 DEF StartSync, TypeOK
  <2>5. phase' = [phase EXCEPT ![p] = "pull"]
    BY <1>4 DEF StartSync
  <2>6. SyncRowInRange'
    BY <2>3, <2>4, <2>5 DEF SyncRowInRange, TypeOK
  <2>7. QED
    BY <1>0, <2>1, <2>3, <2>4, <2>5, <2>6 DEF FedTypeInv, TypeOK, Phases
<1>5. ASSUME NEW p \in Procs, Pull(p)
      PROVE  FedTypeInv'
  <2>1. UNCHANGED <<queryExists, cursor, history, peerMax, readCursor, syncRow>>
    BY <1>5 DEF Pull, fedVars
  <2>2. pulledMax' \in [Procs -> Ts] /\ pulledN' \in [Procs -> {0, 1}]
    <3>1. CASE peerMax > readCursor[p]
      <4>1. PICK m \in readCursor[p] + 1..peerMax :
                  /\ pulledMax' = [pulledMax EXCEPT ![p] = m]
                  /\ pulledN' = [pulledN EXCEPT ![p] = 1]
        BY <1>5, <3>1 DEF Pull
      <4>2. m \in Ts
        BY DEF TypeOK, Ts
      <4>3. QED
        BY <4>1, <4>2 DEF TypeOK
    <3>2. CASE ~(peerMax > readCursor[p])
      <4>1. /\ pulledMax' = [pulledMax EXCEPT ![p] = 0]
            /\ pulledN' = [pulledN EXCEPT ![p] = 0]
        BY <1>5, <3>2 DEF Pull
      <4>2. QED
        BY <4>1 DEF TypeOK, Ts
    <3>3. QED
      BY <3>1, <3>2
  <2>3. phase' = [phase EXCEPT ![p] = "finalize"] /\ phase[p] = "pull"
    BY <1>5 DEF Pull
  <2>4. QED
    BY <1>0, <2>1, <2>2, <2>3 DEF FedTypeInv, TypeOK, SyncRowInRange, Phases
<1>6. ASSUME NEW p \in Procs, Finalize(p)
      PROVE  FedTypeInv'
  <2> DEFINE i == syncRow[p]
             r == [history[i] EXCEPT !.completed = TRUE,
                     !.insertions = pulledN[p], !.maxTs = pulledMax[p]]
  <2>1. UNCHANGED <<queryExists, peerMax, readCursor, syncRow, pulledMax,
                    pulledN>>
    BY <1>6 DEF Finalize
  <2>2. i \in 1..Len(history)
    BY <1>6 DEF Finalize, SyncRowInRange
  <2>3. r \in SyncRow
    <3>1. history[i] \in SyncRow
      BY <2>2 DEF TypeOK
    <3>2. pulledN[p] \in {0, 1} /\ pulledMax[p] \in Ts
      BY DEF TypeOK
    <3>3. QED
      BY <3>1, <3>2 DEF SyncRow
  <2>4. history' = [history EXCEPT ![i] = r]
    BY <1>6 DEF Finalize
  <2>5. history' \in Seq(SyncRow) /\ Len(history') = Len(history)
    BY <2>2, <2>3, <2>4 DEF TypeOK
  <2>6. cursor' \in [QueryIDs -> Ts]
    BY <1>6 DEF Finalize, TypeOK
  <2>7. phase' = [phase EXCEPT ![p] = "done"]
    BY <1>6 DEF Finalize
  <2>8. QED
    BY <1>0, <2>1, <2>5, <2>6, <2>7 DEF FedTypeInv, TypeOK, SyncRowInRange,
                                        Phases
<1>7. ASSUME NEW p \in Procs, SyncStepFails(p)
      PROVE  FedTypeInv'
  <2>1. UNCHANGED <<queryExists, cursor, history, peerMax, readCursor,
                    syncRow, pulledMax, pulledN>>
    BY <1>7 DEF SyncStepFails, fedVars
  <2>2. phase' = [phase EXCEPT ![p] = "done"]
    BY <1>7 DEF SyncStepFails
  <2>3. QED
    BY <1>0, <2>1, <2>2 DEF FedTypeInv, TypeOK, SyncRowInRange, Phases
<1>8. ASSUME NEW p \in Procs, SyncUnlock(p) \/ SyncAbandon(p)
      PROVE  FedTypeInv'
  <2>1. UNCHANGED <<queryExists, cursor, history, peerMax>>
    BY <1>8 DEF SyncUnlock, SyncAbandon, fedVars
  <2>2. EndSync(p)
    BY <1>8 DEF SyncUnlock, SyncAbandon
  <2>3. /\ phase' = [phase EXCEPT ![p] = "idle"]
        /\ readCursor' = [readCursor EXCEPT ![p] = 0]
        /\ syncRow' = [syncRow EXCEPT ![p] = 0]
        /\ pulledMax' = [pulledMax EXCEPT ![p] = 0]
        /\ pulledN' = [pulledN EXCEPT ![p] = 0]
    BY <2>2 DEF EndSync
  <2>4. QED
    BY <1>0, <2>1, <2>3 DEF FedTypeInv, TypeOK, SyncRowInRange, Phases, Ts
<1>9. CASE AddQuery
  <2>1. PICK q \in QueryIDs, c \in OperatorCursors : AddFederationQuery(q, c)
    BY <1>9 DEF AddQuery
  <2>2. UNCHANGED <<history, peerMax, phase, readCursor, syncRow, pulledMax,
                    pulledN>>
    BY <2>1 DEF AddFederationQuery, syncVars
  <2>3. queryExists' \in [QueryIDs -> BOOLEAN] /\ cursor' \in [QueryIDs -> Ts]
    BY <2>1 DEF AddFederationQuery, TypeOK, Ts
  <2>4. QED
    BY <1>0, <2>2, <2>3 DEF FedTypeInv, TypeOK, SyncRowInRange
<1>10. CASE PeerPublish \/ Tick \/ UNCHANGED vars
  <2>1. UNCHANGED <<queryExists, cursor, history, phase, readCursor, syncRow,
                    pulledMax, pulledN>>
    BY <1>10 DEF PeerPublish, Tick, vars, fedVars, syncVars
  <2>2. peerMax' \in Ts
    BY <1>10 DEF PeerPublish, Tick, vars, fedVars, TypeOK, Ts
  <2>3. QED
    BY <1>0, <2>1, <2>2 DEF FedTypeInv, TypeOK, SyncRowInRange
<1>11. QED
  BY <1>1, <1>2, <1>3, <1>4, <1>5, <1>6, <1>7, <1>8, <1>9, <1>10 DEF Next

(* Every reachable state of the composition is well typed (TypeOK), for    *)
(* every set of invocations, queries and locks and every bound.            *)
THEOREM FedTypeCorrect == Spec => []TypeOK
<1>1. Init => FedTypeInv
  BY DEF Init, Lk!Init, FedTypeInv, TypeOK, Lk!TypeOK, SyncRowInRange,
         Phases, Ts, Lk!Expiry
<1>2. QED
  BY <1>1, FedTypeStep, PTL DEF Spec, FedTypeInv

-----------------------------------------------------------------------------
(* Cursor monotonicity.                                                    *)

(* A sync invocation is past its lock acquisition exactly while it holds   *)
(* the lock: it takes the lock first and releases or drops it last.        *)
LockDiscipline == \A p \in Procs : phase[p] # "idle" <=> Lk!Holding(p)

(* While a sync runs, the stored cursor is at most the cursor it read.     *)
CursorBehindRead ==
    \A p \in Procs : phase[p] \in {"start", "pull", "finalize"}
                     => cursor[QueryOf[p]] <= readCursor[p]

(* What a sync pulled is newer than the cursor it read.                   *)
PulledAhead ==
    \A p \in Procs : phase[p] = "finalize" /\ pulledN[p] > 0
                     => pulledMax[p] > readCursor[p]

CursorInv ==
    /\ FedTypeInv /\ Lk!IInv
    /\ LockDiscipline /\ CursorBehindRead /\ PulledAhead

(* The lock's inductive invariant holds of the composition as well.        *)
LEMMA LockIInvStep ==
    ASSUME WorkBound + Skew <= TTL
    PROVE  Lk!IInv /\ [Next]_vars => Lk!IInv'
BY LockProjection, Lk!IInvStep DEF Lk!vars, lockVars

LEMMA DisciplineStep ==
    TypeOK /\ LockDiscipline /\ [Next]_vars => LockDiscipline'
<1> SUFFICES ASSUME TypeOK, LockDiscipline, [Next]_vars
             PROVE  LockDiscipline'
  OBVIOUS
<1> USE DEF LockDiscipline, Lk!Holding
<1>1. ASSUME NEW p \in Procs, SyncLockStep(p)
      PROVE  LockDiscipline'
  <2>1. /\ pc[p] \in {"idle", "reading"} /\ pc'[p] \in {"idle", "reading"}
        /\ \A r \in Procs \ {p} : pc'[r] = pc[r]
    BY <1>1 DEF SyncLockStep, Lk!LockRead, Lk!LockAlreadyLocked, Lk!LockAbort,
                Lk!LockAckLost, TypeOK, Lk!TypeOK
  <2>2. phase' = phase
    BY <1>1 DEF SyncLockStep, syncVars
  <2>3. QED
    BY <2>1, <2>2
<1>2. ASSUME NEW p \in Procs, SyncLockAcquire(p)
      PROVE  LockDiscipline'
  <2>1. pc' = [pc EXCEPT ![p] = "holding"] /\ phase' = [phase EXCEPT ![p] = "load"]
    BY <1>2 DEF SyncLockAcquire, Lk!LockAcquire
  <2>2. QED
    BY <2>1 DEF TypeOK, Lk!TypeOK
<1>3. ASSUME NEW p \in Procs,
             \/ LoadQuery(p) \/ StartSync(p) \/ Pull(p) \/ Finalize(p)
             \/ SyncStepFails(p)
      PROVE  LockDiscipline'
  <2>1. pc' = pc /\ pc[p] = "holding"
    BY <1>3 DEF LoadQuery, StartSync, Pull, Finalize, SyncStepFails, lockVars
  <2>2. phase'[p] # "idle" /\ \A r \in Procs \ {p} : phase'[r] = phase[r]
    BY <1>3 DEF LoadQuery, StartSync, Pull, Finalize, SyncStepFails, TypeOK
  <2>3. QED
    BY <2>1, <2>2
<1>4. ASSUME NEW p \in Procs, SyncUnlock(p) \/ SyncAbandon(p)
      PROVE  LockDiscipline'
  <2>1. pc' = [pc EXCEPT ![p] = "idle"]
    BY <1>4 DEF SyncUnlock, SyncAbandon, Lk!Unlock, Lk!UnlockFail
  <2>2. phase' = [phase EXCEPT ![p] = "idle"]
    BY <1>4 DEF SyncUnlock, SyncAbandon, EndSync
  <2>3. QED
    BY <2>1, <2>2 DEF TypeOK, Lk!TypeOK
<1>5. CASE AddQuery \/ PeerPublish \/ Tick \/ UNCHANGED vars
  <2>1. pc' = pc /\ phase' = phase
    BY <1>5 DEF AddQuery, AddFederationQuery, PeerPublish, Tick, Lk!Tick,
                vars, lockVars, syncVars
  <2>2. QED
    BY <2>1
<1>6. QED
  BY <1>1, <1>2, <1>3, <1>4, <1>5 DEF Next

(* What cursor monotonicity rests on: the work under the lock plus the    *)
(* clock skew between hosts fits in the TTL, the operator only re-adds     *)
(* queries with the default (zero) --last-timestamp, and all syncs of a    *)
(* query take the same lock.                                               *)
SyncHypotheses ==
    /\ WorkBound + Skew <= TTL
    /\ OperatorCursors \subseteq {0}
    /\ \A p, r \in Procs : QueryOf[p] = QueryOf[r] => LockOf[p] = LockOf[r]

(* Two running syncs of one query are the same invocation.                *)
LEMMA OneSyncPerQuery ==
    ASSUME SyncHypotheses, CursorInv,
           NEW p \in Procs, NEW r \in Procs,
           phase[p] # "idle", phase[r] # "idle", QueryOf[p] = QueryOf[r]
    PROVE  p = r
<1>1. Lk!Holding(p) /\ Lk!Holding(r) /\ LockOf[p] = LockOf[r]
  BY DEF CursorInv, LockDiscipline, SyncHypotheses
<1>2. QED
  BY <1>1 DEF CursorInv, Lk!IInv, Lk!SingleHolder

LEMMA CursorStep ==
    ASSUME SyncHypotheses
    PROVE  CursorInv /\ [Next]_vars => (CursorBehindRead /\ PulledAhead)'
<1> SUFFICES ASSUME CursorInv, [Next]_vars
             PROVE  (CursorBehindRead /\ PulledAhead)'
  OBVIOUS
<1> TI == TypeOK
<1>0. TI
  BY DEF CursorInv, FedTypeInv
<1> USE DEF CursorBehindRead, PulledAhead
<1> HIDE DEF TI
<1>1. ASSUME NEW p \in Procs, SyncLockStep(p) \/ SyncStepFails(p)
      PROVE  (CursorBehindRead /\ PulledAhead)'
  <2>1. UNCHANGED <<cursor, readCursor, pulledMax, pulledN>>
    BY <1>1 DEF SyncLockStep, SyncStepFails, fedVars, syncVars
  <2>2. \A r \in Procs : phase'[r] = phase[r] \/ phase'[r] = "done"
    BY <1>1, <1>0 DEF SyncLockStep, SyncStepFails, syncVars, TI, TypeOK
  <2>3. QED
    BY <2>1, <2>2 DEF CursorInv
<1>2. ASSUME NEW p \in Procs, SyncLockAcquire(p)
      PROVE  (CursorBehindRead /\ PulledAhead)'
  <2>1. UNCHANGED <<cursor, readCursor, pulledMax, pulledN>>
    BY <1>2 DEF SyncLockAcquire, fedVars
  <2>2. phase' = [phase EXCEPT ![p] = "load"]
    BY <1>2 DEF SyncLockAcquire
  <2>3. QED
    BY <1>0, <2>1, <2>2 DEF CursorInv, TI, TypeOK
<1>3. ASSUME NEW p \in Procs, LoadQuery(p)
      PROVE  (CursorBehindRead /\ PulledAhead)'
  <2>1. UNCHANGED <<cursor, pulledMax, pulledN>>
    BY <1>3 DEF LoadQuery, fedVars
  <2>2. phase[p] = "load" /\ phase'[p] \in {"start", "done"}
        /\ \A r \in Procs \ {p} : phase'[r] = phase[r] /\ readCursor'[r] = readCursor[r]
    BY <1>3, <1>0 DEF LoadQuery, TI, TypeOK
  <2>3. phase'[p] = "start" => readCursor'[p] = cursor[QueryOf[p]]
    BY <1>3, <1>0 DEF LoadQuery, TI, TypeOK
  <2>4. SUFFICES ASSUME NEW r \in Procs
                 PROVE  /\ phase'[r] \in {"start", "pull", "finalize"}
                           => cursor'[QueryOf[r]] <= readCursor'[r]
                        /\ phase'[r] = "finalize" /\ pulledN'[r] > 0
                           => pulledMax'[r] > readCursor'[r]
    OBVIOUS
  <2>5. CASE r = p
    <3>1. cursor[QueryOf[p]] \in Int
      BY <1>0 DEF TI, TypeOK, Ts
    <3>2. QED
      BY <2>1, <2>2, <2>3, <2>5, <3>1
  <2>6. CASE r # p
    BY <2>1, <2>2, <2>6 DEF CursorInv
  <2>7. QED
    BY <2>5, <2>6
<1>4. ASSUME NEW p \in Procs, StartSync(p)
      PROVE  (CursorBehindRead /\ PulledAhead)'
  <2>1. UNCHANGED <<cursor, readCursor, pulledMax, pulledN>>
    BY <1>4 DEF StartSync
  <2>2. phase[p] = "start" /\ phase' = [phase EXCEPT ![p] = "pull"]
    BY <1>4 DEF StartSync
  <2>3. QED
    BY <1>0, <2>1, <2>2 DEF CursorInv, TI, TypeOK
<1>5. ASSUME NEW p \in Procs, Pull(p)
      PROVE  (CursorBehindRead /\ PulledAhead)'
  <2>1. UNCHANGED <<cursor, readCursor>>
    BY <1>5 DEF Pull, fedVars
  <2>2. phase[p] = "pull" /\ phase' = [phase EXCEPT ![p] = "finalize"]
    BY <1>5 DEF Pull
  <2>3. /\ pulledN'[p] > 0 => pulledMax'[p] > readCursor[p]
        /\ \A r \in Procs \ {p} : pulledN'[r] = pulledN[r] /\ pulledMax'[r] = pulledMax[r]
    <3>1. CASE peerMax > readCursor[p]
      <4>1. PICK m \in readCursor[p] + 1..peerMax :
                  /\ pulledMax' = [pulledMax EXCEPT ![p] = m]
                  /\ pulledN' = [pulledN EXCEPT ![p] = 1]
        BY <1>5, <3>1 DEF Pull
      <4>2. QED
        BY <4>1, <1>0 DEF TI, TypeOK, Ts
    <3>2. CASE ~(peerMax > readCursor[p])
      <4>1. /\ pulledMax' = [pulledMax EXCEPT ![p] = 0]
            /\ pulledN' = [pulledN EXCEPT ![p] = 0]
        BY <1>5, <3>2 DEF Pull
      <4>2. QED
        BY <4>1, <1>0 DEF TI, TypeOK
    <3>3. QED
      BY <3>1, <3>2
  <2>4. QED
    BY <1>0, <2>1, <2>2, <2>3 DEF CursorInv, TI, TypeOK
<1>6. ASSUME NEW p \in Procs, Finalize(p)
      PROVE  (CursorBehindRead /\ PulledAhead)'
  <2> DEFINE q == QueryOf[p]
  <2>1. UNCHANGED <<readCursor, pulledMax, pulledN>>
    BY <1>6 DEF Finalize
  <2>2. phase[p] = "finalize" /\ phase' = [phase EXCEPT ![p] = "done"]
    BY <1>6 DEF Finalize
  <2>3. \A k \in QueryIDs \ {q} : cursor'[k] = cursor[k]
    BY <1>6, <1>0 DEF Finalize, TI, TypeOK
  <2>4. \A r \in Procs \ {p} : phase[r] # "idle" => QueryOf[r] # q
    BY <2>2, OneSyncPerQuery
  <2>5. QED
    BY <1>0, <2>1, <2>2, <2>3, <2>4 DEF CursorInv, TI, TypeOK
<1>7. ASSUME NEW p \in Procs, SyncUnlock(p) \/ SyncAbandon(p)
      PROVE  (CursorBehindRead /\ PulledAhead)'
  <2>1. UNCHANGED cursor
    BY <1>7 DEF SyncUnlock, SyncAbandon, fedVars
  <2>2. /\ phase'[p] = "idle"
        /\ \A r \in Procs \ {p} :
              /\ phase'[r] = phase[r] /\ readCursor'[r] = readCursor[r]
              /\ pulledMax'[r] = pulledMax[r] /\ pulledN'[r] = pulledN[r]
    BY <1>7, <1>0 DEF SyncUnlock, SyncAbandon, EndSync, TI, TypeOK
  <2>3. QED
    BY <2>1, <2>2 DEF CursorInv
<1>8. CASE AddQuery
  <2>1. PICK k \in QueryIDs, c \in OperatorCursors : AddFederationQuery(k, c)
    BY <1>8 DEF AddQuery
  <2>2. UNCHANGED <<phase, readCursor, pulledMax, pulledN>>
    BY <2>1 DEF AddFederationQuery, syncVars
  <2>3. cursor' = [cursor EXCEPT ![k] = c] /\ c = 0
    BY <2>1 DEF AddFederationQuery, SyncHypotheses
  <2>4. QED
    BY <1>0, <2>2, <2>3 DEF CursorInv, TI, TypeOK, Ts
<1>9. CASE PeerPublish \/ Tick \/ UNCHANGED vars
  <2>1. UNCHANGED <<cursor, phase, readCursor, pulledMax, pulledN>>
    BY <1>9 DEF PeerPublish, Tick, vars, fedVars, syncVars
  <2>2. QED
    BY <2>1 DEF CursorInv
<1>10. QED
  BY <1>1, <1>2, <1>3, <1>4, <1>5, <1>6, <1>7, <1>8, <1>9 DEF Next

(* A step that ends a sync's finalize phase never lowers a cursor.          *)
LEMMA FinalizeMonotone ==
    ASSUME SyncHypotheses, CursorInv, [Next]_vars,
           NEW p \in Procs, phase[p] = "finalize", phase'[p] = "done"
    PROVE  \A k \in QueryIDs : cursor'[k] >= cursor[k]
<1>0. TypeOK
  BY DEF CursorInv, FedTypeInv
<1>1. CASE Finalize(p)
  <2> DEFINE q == QueryOf[p]
  <2>1. cursor[q] <= readCursor[p]
    BY DEF CursorInv, CursorBehindRead
  <2>2. pulledN[p] > 0 => pulledMax[p] > readCursor[p]
    BY DEF CursorInv, PulledAhead
  <2>3. CASE pulledN[p] > 0 /\ queryExists[q]
    <3>1. cursor' = [cursor EXCEPT ![q] = pulledMax[p]]
      BY <1>1, <2>3 DEF Finalize
    <3>2. QED
      BY <1>0, <2>1, <2>2, <2>3, <3>1 DEF TypeOK, Ts
  <2>4. CASE ~(pulledN[p] > 0 /\ queryExists[q])
    <3>1. cursor' = cursor
      BY <1>1, <2>4 DEF Finalize
    <3>2. QED
      BY <1>0, <3>1 DEF TypeOK, Ts
  <2>5. QED
    BY <2>3, <2>4
<1>2. ASSUME NEW r \in Procs, r # p, Finalize(r)
      PROVE  FALSE
  BY <1>0, <1>2 DEF Finalize, TypeOK
<1>3. CASE AddQuery
  <2>1. phase' = phase
    BY <1>3 DEF AddQuery, AddFederationQuery, syncVars
  <2>2. QED
    BY <2>1
<1>4. CASE ~AddQuery /\ ~\E r \in Procs : Finalize(r)
  <2>1. cursor' = cursor
    BY <1>4 DEF Next, vars, SyncLockStep, SyncLockAcquire, LoadQuery,
                StartSync, Pull, SyncStepFails, SyncUnlock, SyncAbandon,
                PeerPublish, Tick, fedVars
  <2>2. QED
    BY <1>0, <2>1 DEF TypeOK, Ts
<1>5. QED
  BY <1>1, <1>2, <1>3, <1>4

(* The initial state satisfies the inductive invariant of cursor          *)
(* monotonicity.                                                           *)
LEMMA CursorInvInit == Init => CursorInv
<1> SUFFICES ASSUME Init PROVE CursorInv
  OBVIOUS
<1>1. FedTypeInv
  BY DEF Init, Lk!Init, FedTypeInv, TypeOK, Lk!TypeOK, SyncRowInRange,
         Phases, Ts, Lk!Expiry
<1>2. Lk!IInv
  BY Lk!IInvInit DEF Init
<1>3. LockDiscipline /\ CursorBehindRead /\ PulledAhead
  BY DEF Init, Lk!Init, LockDiscipline, CursorBehindRead, PulledAhead,
         Lk!Holding
<1>4. QED
  BY <1>1, <1>2, <1>3 DEF CursorInv

(* Every step keeps the inductive invariant of cursor monotonicity.       *)
LEMMA CursorInvStep ==
    ASSUME SyncHypotheses
    PROVE  CursorInv /\ [Next]_vars => CursorInv'
<1> SUFFICES ASSUME CursorInv, [Next]_vars PROVE CursorInv'
  OBVIOUS
<1>1. FedTypeInv'
  BY FedTypeStep DEF CursorInv
<1>2. Lk!IInv'
  BY LockIInvStep DEF CursorInv, SyncHypotheses
<1>3. LockDiscipline'
  BY DisciplineStep DEF CursorInv, FedTypeInv
<1>4. (CursorBehindRead /\ PulledAhead)'
  BY CursorStep
<1>5. QED
  BY <1>1, <1>2, <1>3, <1>4 DEF CursorInv

(* Cursor monotonicity (CursorNeverRegresses) for every set of            *)
(* invocations, queries and locks and every bound: no finalize moves a    *)
(* query's cursor backward, provided the sync fits in its lock's TTL, the  *)
(* operator re-adds queries only with the default timestamp, and the syncs *)
(* of a query share its lock.  Each of these is needed: the runs          *)
(* sync_overrun and sync_operator_edit break the first two.                *)
THEOREM CursorNeverRegressesHolds ==
    ASSUME SyncHypotheses
    PROVE  Spec => CursorNeverRegresses
<1>1. Init => CursorInv
  BY CursorInvInit
<1>2. CursorInv /\ [Next]_vars => CursorInv'
  BY CursorInvStep
<1>3. CursorInv /\ [Next]_vars
      => [\A p \in Procs :
             phase[p] = "finalize" /\ phase'[p] = "done"
             => \A q \in QueryIDs : cursor'[q] >= cursor[q]]_vars
  BY FinalizeMonotone
<1>4. QED
  BY <1>1, <1>2, <1>3, PTL DEF Spec, CursorNeverRegresses


-----------------------------------------------------------------------------
(* History rows.  No hypothesis on timing or on the operator: the finalize *)
(* closure is bound to the sync_id its StartFederationSync generated.      *)

(* A sync between StartFederationSync and the end of its finalize.         *)
RunningSync(p) == phase[p] \in {"pull", "finalize"}

(* The row a running sync will finalize is not completed yet.              *)
OwnRowOpen ==
    \A p \in Procs : RunningSync(p) => ~history[syncRow[p]].completed

(* The row a running sync will finalize belongs to the sync's query.       *)
OwnRowQuery ==
    \A p \in Procs : RunningSync(p) => history[syncRow[p]].query = QueryOf[p]

(* Two running syncs finalize different rows (fresh sync_ids).             *)
RowsDistinct ==
    \A p, r \in Procs :
        RunningSync(p) /\ RunningSync(r) /\ p # r => syncRow[p] # syncRow[r]

RowInv == OwnRowOpen /\ OwnRowQuery /\ RowsDistinct

HistInv == FedTypeInv /\ RowInv


(* A step that leaves the history and the sync rows alone, and that takes *)
(* at most one sync p out of the running ones without adding any, keeps   *)
(* RowInv.                                                                 *)
LEMMA HistFrame ==
    ASSUME RowInv, NEW p \in Procs,
           history' = history, syncRow' = syncRow,
           \A r \in Procs \ {p} : phase'[r] = phase[r],
           RunningSync(p)' => RunningSync(p)
    PROVE  RowInv'
BY DEF RowInv, OwnRowOpen, OwnRowQuery, RowsDistinct, RunningSync

(* Every step keeps the history invariant.                                 *)
LEMMA HistStep == HistInv /\ [Next]_vars => HistInv'
<1> SUFFICES ASSUME FedTypeInv, RowInv, [Next]_vars
             PROVE  RowInv'
  BY FedTypeStep DEF HistInv
<1> USE DEF FedTypeInv
<1>1. ASSUME NEW p \in Procs,
             \/ SyncLockStep(p) \/ SyncLockAcquire(p) \/ LoadQuery(p)
             \/ Pull(p) \/ SyncStepFails(p)
      PROVE  RowInv'
  <2>1. history' = history /\ syncRow' = syncRow
    BY <1>1 DEF SyncLockStep, SyncLockAcquire, LoadQuery, Pull, SyncStepFails,
                fedVars, syncVars
  <2>2. \A r \in Procs \ {p} : phase'[r] = phase[r]
    BY <1>1 DEF SyncLockStep, SyncLockAcquire, LoadQuery, Pull, SyncStepFails,
                syncVars, TypeOK
  <2>3. RunningSync(p)' => RunningSync(p)
    BY <1>1 DEF SyncLockStep, SyncLockAcquire, LoadQuery, Pull, SyncStepFails,
                syncVars, TypeOK, RunningSync
  <2>4. QED
    BY <2>1, <2>2, <2>3, HistFrame
<1>2. ASSUME NEW p \in Procs, SyncUnlock(p) \/ SyncAbandon(p)
      PROVE  RowInv'
  <2>1. EndSync(p) /\ history' = history
    BY <1>2 DEF SyncUnlock, SyncAbandon, fedVars
  <2>2. phase' = [phase EXCEPT ![p] = "idle"]
        /\ syncRow' = [syncRow EXCEPT ![p] = 0]
    BY <2>1 DEF EndSync
  <2>3. \A r \in Procs : RunningSync(r)' => r # p /\ syncRow'[r] = syncRow[r]
    BY <2>2 DEF TypeOK, RunningSync
  <2>4. QED
    BY <2>1, <2>2, <2>3 DEF RowInv, OwnRowOpen, OwnRowQuery, RowsDistinct,
                            RunningSync, TypeOK
<1>3. ASSUME NEW p \in Procs, StartSync(p)
      PROVE  RowInv'
  <2> DEFINE n == Len(history) + 1
  <2>1. phase[p] = "start" /\ phase' = [phase EXCEPT ![p] = "pull"]
        /\ syncRow' = [syncRow EXCEPT ![p] = n]
    BY <1>3 DEF StartSync
  <2>2. history' = Append(history, [query |-> QueryOf[p], completed |-> FALSE,
                                   insertions |-> 0, maxTs |-> 0])
    BY <1>3 DEF StartSync
  <2>3. history \in Seq(SyncRow)
    BY DEF TypeOK
  <2>4. \A i \in 1..Len(history) : history'[i] = history[i]
    BY <2>2, <2>3
  <2>5. ~history'[n].completed
    BY <2>2, <2>3
  <2>6. \A r \in Procs \ {p} :
           RunningSync(r)' => /\ RunningSync(r) /\ syncRow'[r] = syncRow[r]
                              /\ syncRow[r] \in 1..Len(history)
    BY <2>1 DEF TypeOK, RunningSync, SyncRowInRange
  <2>7. OwnRowOpen'
    BY <2>1, <2>4, <2>5, <2>6 DEF RowInv, OwnRowOpen, TypeOK
  <2>8. history'[n].query = QueryOf[p]
    BY <2>2, <2>3
  <2>9. OwnRowQuery'
    BY <2>1, <2>4, <2>6, <2>8 DEF RowInv, OwnRowQuery, TypeOK
  <2>10. RowsDistinct'
    BY <2>1, <2>6 DEF RowInv, RowsDistinct, TypeOK
  <2>11. QED
    BY <2>7, <2>9, <2>10 DEF RowInv
<1>4. ASSUME NEW p \in Procs, Finalize(p)
      PROVE  RowInv'
  <2> DEFINE j == syncRow[p]
  <2>1. phase[p] = "finalize" /\ phase' = [phase EXCEPT ![p] = "done"]
        /\ syncRow' = syncRow
    BY <1>4 DEF Finalize
  <2>2. history' = [history EXCEPT ![j] =
                     [@ EXCEPT !.completed = TRUE, !.insertions = pulledN[p],
                               !.maxTs = pulledMax[p]]]
    BY <1>4 DEF Finalize
  <2>3. \A r \in Procs \ {p} :
           RunningSync(r)' => /\ RunningSync(r) /\ syncRow[r] # j
                              /\ history'[syncRow[r]] = history[syncRow[r]]
    <3> SUFFICES ASSUME NEW r \in Procs \ {p}, RunningSync(r)'
                 PROVE  /\ RunningSync(r) /\ syncRow[r] # j
                        /\ history'[syncRow[r]] = history[syncRow[r]]
      OBVIOUS
    <3>1. RunningSync(r)
      BY <2>1 DEF TypeOK, RunningSync
    <3>2. syncRow[r] # j
      BY <2>1, <3>1 DEF RowInv, RowsDistinct, RunningSync
    <3>3. QED
      BY <2>2, <3>1, <3>2
  <2>4. ~RunningSync(p)'
    BY <2>1 DEF TypeOK, RunningSync
  <2>5. OwnRowOpen'
    BY <2>1, <2>3, <2>4 DEF RowInv, OwnRowOpen
  <2>6. OwnRowQuery'
    BY <2>1, <2>3, <2>4 DEF RowInv, OwnRowQuery
  <2>7. RowsDistinct'
    BY <2>1, <2>3, <2>4 DEF RowInv, RowsDistinct
  <2>8. QED
    BY <2>5, <2>6, <2>7 DEF RowInv
<1>5. CASE AddQuery \/ PeerPublish \/ Tick \/ UNCHANGED vars
  <2>1. UNCHANGED <<history, phase, syncRow>>
    BY <1>5 DEF AddQuery, AddFederationQuery, PeerPublish, Tick, vars,
                fedVars, syncVars
  <2>2. QED
    BY <2>1 DEF RowInv, OwnRowOpen, OwnRowQuery, RowsDistinct, RunningSync
<1>6. QED
  BY <1>1, <1>2, <1>3, <1>4, <1>5 DEF Next


(* Each step keeps every history row of the step before: a row is never   *)
(* removed, keeps its query, and a completed row keeps all of its fields.  *)
LEMMA HistoryRowStep ==
    ASSUME HistInv, [Next]_vars, NEW i \in 1..Len(history)
    PROVE  /\ i <= Len(history')
           /\ history'[i].query = history[i].query
           /\ history[i].completed => history'[i] = history[i]
<1> USE DEF HistInv, FedTypeInv
<1>1. CASE history' = history
  BY <1>1
<1>2. ASSUME NEW p \in Procs, StartSync(p)
      PROVE  /\ i <= Len(history')
             /\ history'[i].query = history[i].query
             /\ history[i].completed => history'[i] = history[i]
  <2>1. history' = Append(history, [query |-> QueryOf[p], completed |-> FALSE,
                                   insertions |-> 0, maxTs |-> 0])
    BY <1>2 DEF StartSync
  <2>2. history \in Seq(SyncRow)
    BY DEF TypeOK
  <2>3. QED
    BY <2>1, <2>2
<1>3. ASSUME NEW p \in Procs, Finalize(p)
      PROVE  /\ i <= Len(history')
             /\ history'[i].query = history[i].query
             /\ history[i].completed => history'[i] = history[i]
  <2> DEFINE j == syncRow[p]
  <2>1. history' = [history EXCEPT ![j] =
                     [@ EXCEPT !.completed = TRUE, !.insertions = pulledN[p],
                               !.maxTs = pulledMax[p]]]
    BY <1>3 DEF Finalize
  <2>2. history \in Seq(SyncRow) /\ j \in 1..Len(history)
        /\ ~history[j].completed
    BY <1>3 DEF Finalize, TypeOK, SyncRowInRange, RowInv, OwnRowOpen,
                RunningSync
  <2>3. history[i] \in SyncRow
    BY <2>2
  <2>4. QED
    BY <2>1, <2>2, <2>3 DEF SyncRow
<1>4. QED
  <2>1. ASSUME NEW p \in Procs,
               \/ SyncLockStep(p) \/ SyncLockAcquire(p) \/ LoadQuery(p)
               \/ Pull(p) \/ SyncStepFails(p) \/ SyncUnlock(p)
               \/ SyncAbandon(p)
        PROVE  history' = history
    BY <2>1 DEF SyncLockStep, SyncLockAcquire, LoadQuery, Pull, SyncStepFails,
                SyncUnlock, SyncAbandon, fedVars
  <2>2. AddQuery \/ PeerPublish \/ Tick \/ UNCHANGED vars => history' = history
    BY DEF AddQuery, AddFederationQuery, PeerPublish, Tick, vars, fedVars
  <2>3. QED
    BY <1>1, <1>2, <1>3, <2>1, <2>2 DEF Next

(* History rows are an audit log (HistoryRowFinal): for every instance and *)
(* whatever the timing, even when a sync outlives its lock and two syncs   *)
(* of a query overlap, no FederationSync row is removed or moved to        *)
(* another query, and no completed row is written again, because each     *)
(* finalize closure writes only the fresh sync_id StartFederationSync      *)
(* generated for it.                                                       *)
THEOREM HistoryRowFinalHolds == Spec => HistoryRowFinal
<1>1. Init => HistInv
  BY DEF Init, Lk!Init, HistInv, FedTypeInv, TypeOK, Lk!TypeOK,
         SyncRowInRange, RowInv, OwnRowOpen, OwnRowQuery, RowsDistinct,
         RunningSync, Phases, Ts,
         Lk!Expiry
<1>2. HistInv /\ [Next]_vars => HistInv'
  BY HistStep
<1>3. HistInv /\ [Next]_vars
      => [\A i \in 1..Len(history) :
             /\ i <= Len(history')
             /\ history'[i].query = history[i].query
             /\ history[i].completed => history'[i] = history[i]]_vars
  BY HistoryRowStep
<1>4. QED
  BY <1>1, <1>2, <1>3, PTL DEF Spec, HistoryRowFinal


-----------------------------------------------------------------------------
(* Refinement of the sync ledger.                                          *)

ledgerVars == <<queryExists, cursor, history>>

(* The finalize of sync p is the ledger's Close of p's own row, with the  *)
(* count and the newest timestamp p pulled.                                *)
LEMMA FinalizeIsClose ==
    ASSUME CursorInv, RowInv, NEW p \in Procs, Finalize(p)
    PROVE  Ledger!Close(syncRow[p], pulledN[p], pulledMax[p])
<1> DEFINE q == QueryOf[p]
           i == syncRow[p]
           n == pulledN[p]
           m == pulledMax[p]
<1>1. phase[p] = "finalize" /\ i \in 1..Len(history)
  BY DEF Finalize, CursorInv, FedTypeInv, SyncRowInRange
<1>2. ~history[i].completed /\ history[i].query = q
  BY <1>1 DEF RowInv, OwnRowOpen, OwnRowQuery, RunningSync
<1>3. n > 0 => m > cursor[q]
  BY <1>1 DEF CursorInv, FedTypeInv, CursorBehindRead, PulledAhead, TypeOK,
              Ts
<1>4. /\ history' = [history EXCEPT ![i] = [@ EXCEPT !.completed = TRUE,
                                                    !.insertions = n,
                                                    !.maxTs = m]]
      /\ UNCHANGED queryExists
  BY DEF Finalize
<1>5. CASE n > 0 /\ queryExists[q]
  <2>1. cursor' = [cursor EXCEPT ![q] = m]
    BY <1>5 DEF Finalize
  <2>2. QED
    BY <1>2, <1>3, <1>4, <1>5, <2>1 DEF Ledger!Close
<1>6. CASE ~(n > 0 /\ queryExists[q])
  <2>1. cursor' = cursor
    BY <1>6 DEF Finalize
  <2>2. QED
    BY <1>2, <1>4, <1>6, <2>1 DEF Ledger!Close
<1>7. QED
  BY <1>5, <1>6

(* Every step of the composition is a step of the ledger or leaves the    *)
(* query table and the history alone.                                      *)
LEMMA LedgerStep ==
    ASSUME CursorInv, RowInv, [Next]_vars
    PROVE  [Ledger!Next]_ledgerVars
<1> USE DEF CursorInv, FedTypeInv
<1>1. ASSUME NEW p \in Procs, StartSync(p) PROVE Ledger!Next
  <2>1. Ledger!Open(QueryOf[p])
    BY <1>1 DEF StartSync, Ledger!Open
  <2>2. QED
    BY <2>1 DEF Ledger!Next
<1>2. ASSUME NEW p \in Procs, Finalize(p) PROVE Ledger!Next
  <2>1. Ledger!Close(syncRow[p], pulledN[p], pulledMax[p])
    BY <1>2, FinalizeIsClose
  <2>2. syncRow[p] \in 1..Len(history) /\ pulledN[p] \in {0, 1}
        /\ pulledMax[p] \in Ledger!Ts
    BY <1>2 DEF Finalize, SyncRowInRange, TypeOK, Ts, Ledger!Ts
  <2>3. QED
    BY <2>1, <2>2 DEF Ledger!Next
<1>3. CASE AddQuery
  <2>1. PICK k \in QueryIDs, c \in OperatorCursors : AddFederationQuery(k, c)
    BY <1>3 DEF AddQuery
  <2>2. Ledger!Define(k, c)
    BY <2>1 DEF AddFederationQuery, Ledger!Define
  <2>3. QED
    BY <2>2 DEF Ledger!Next
<1>4. ASSUME NEW p \in Procs,
             \/ SyncLockStep(p) \/ SyncLockAcquire(p) \/ LoadQuery(p)
             \/ Pull(p) \/ SyncStepFails(p) \/ SyncUnlock(p)
             \/ SyncAbandon(p)
      PROVE  UNCHANGED ledgerVars
  BY <1>4 DEF SyncLockStep, SyncLockAcquire, LoadQuery, Pull, SyncStepFails,
              SyncUnlock, SyncAbandon, fedVars, ledgerVars
<1>5. CASE PeerPublish \/ Tick \/ UNCHANGED vars
  BY <1>5 DEF PeerPublish, Tick, vars, fedVars, ledgerVars
<1>6. QED
  BY <1>1, <1>2, <1>3, <1>4, <1>5 DEF Next

(* The bookkeeping implements the sync ledger (LedgerRefined) for every   *)
(* set of invocations, queries and locks and every bound, under the same  *)
(* hypotheses as cursor monotonicity: each StartFederationSync opens a    *)
(* row, each finalize closes its own open row and moves its query's       *)
(* cursor strictly forward when it inserted keys, the CLI redefines        *)
(* queries, and nothing else touches the query table or the history.       *)
THEOREM RefinesSyncLedger ==
    ASSUME SyncHypotheses
    PROVE  Spec => LedgerRefined
<1>1. Init => CursorInv /\ RowInv
  <2>1. Init => RowInv
    BY DEF Init, RowInv, OwnRowOpen, OwnRowQuery, RowsDistinct, RunningSync
  <2>2. QED
    BY <2>1, CursorInvInit
<1>2. CursorInv /\ RowInv /\ [Next]_vars => (CursorInv /\ RowInv)'
  BY CursorInvStep, HistStep DEF HistInv, CursorInv
<1>3. Init => Ledger!Init
  BY DEF Init, Ledger!Init
<1>4. CursorInv /\ RowInv /\ [Next]_vars => [Ledger!Next]_ledgerVars
  BY LedgerStep
<1>5. QED
  BY <1>1, <1>2, <1>3, <1>4, PTL DEF Spec, LedgerRefined, Ledger!Spec,
                                     ledgerVars

=============================================================================
