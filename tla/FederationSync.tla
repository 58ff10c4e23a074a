--------------------------- MODULE FederationSync ---------------------------
(***************************************************************************)
(* The federation-sync bookkeeping of the database package (the            *)
(* FederationQuery and FederationSync tables), driven by sync invocations  *)
(* that each hold the DBLock lock of their query.                          *)
(*                                                                         *)
(* A query row holds the resumption cursor (last_timestamp).  A sync       *)
(* invocation takes its lock, reads the query (GetFederationQuery),        *)
(* inserts a history row (StartFederationSync), pulls the peer's keys      *)
(* newer than the cursor it read, and calls the finalize closure, which    *)
(* in one serializable transaction sets the cursor to the newest key       *)
(* pulled (only when it inserted any) and completes the history row.  The  *)
(* operator's CLI rewrites a query (AddFederationQuery) at any time,       *)
(* without the lock.  Key timestamps are absolute, 0..MaxTs, 0 being the   *)
(* zero time.Time; the peer's newest key is peerMax.                       *)
(***************************************************************************)
EXTENDS Integers, Sequences

CONSTANTS
    Procs, LockIDs, LockOf, TTL, WorkBound, Skew, Offset, \* as in DBLock
    QueryIDs,         \* federation query ids
    QueryOf,          \* QueryOf[p]: the query sync invocation p runs
    MaxTs,            \* the newest key timestamp the peer ever holds
    MaxSyncs,         \* bound on the FederationSync history rows
    OperatorCursors   \* the last_timestamp values the operator sets

ASSUME LockConstantsAssumption ==
    /\ LockOf \in [Procs -> LockIDs] /\ TTL \in Nat /\ WorkBound \in Nat
    /\ Skew \in Nat /\ Offset \in [Procs -> 0..Skew]
ASSUME QueryOfAssumption == QueryOf \in [Procs -> QueryIDs]
ASSUME MaxTsAssumption == MaxTs \in Nat
ASSUME MaxSyncsAssumption == MaxSyncs \in Nat
ASSUME OperatorCursorsAssumption == OperatorCursors \subseteq 0..MaxTs

VARIABLES
    pc, rowExists, rowExpires, snapExists, snapExpires, conflict, lease,
    queryExists,  \* queryExists[q]: the FederationQuery table has a row for q
    cursor,       \* cursor[q]: its last_timestamp
    history,      \* the FederationSync rows, in insertion order
    phase,        \* phase[p]: where sync invocation p is
    readCursor,   \* readCursor[p]: q.LastTimestamp as p read it
    syncRow,      \* syncRow[p]: the history row p inserted (its syncID)
    pulledMax,    \* pulledMax[p]: maxTimestamp p passes to finalize
    pulledN,      \* pulledN[p]: totalInserted p passes to finalize (0 or 1 = some)
    peerMax       \* the newest key timestamp the peer holds

lockVars == <<pc, rowExists, rowExpires, snapExists, snapExpires, conflict, lease>>
syncVars == <<phase, readCursor, syncRow, pulledMax, pulledN>>
vars == <<lockVars, queryExists, cursor, history, syncVars, peerMax>>

(* The lock of lock.go (DBLock), with the facts DBLockProofs proves of it. *)
Lk == INSTANCE DBLockProofs

Ts == 0..MaxTs

Phases == {"idle", "load", "start", "pull", "finalize", "done"}

(* A FederationSync row: owning query, whether completed is set, and the   *)
(* insertions and max_timestamp columns.                                   *)
SyncRow == [query : QueryIDs, completed : BOOLEAN, insertions : {0, 1},
            maxTs : Ts]

TypeOK ==
    /\ Lk!TypeOK
    /\ queryExists \in [QueryIDs -> BOOLEAN]
    /\ cursor \in [QueryIDs -> Ts]
    /\ history \in Seq(SyncRow) /\ Len(history) <= MaxSyncs
    /\ phase \in [Procs -> Phases]
    /\ readCursor \in [Procs -> Ts]
    /\ syncRow \in [Procs -> 0..MaxSyncs]
    /\ pulledMax \in [Procs -> Ts]
    /\ pulledN \in [Procs -> {0, 1}]
    /\ peerMax \in Ts

Init ==
    /\ Lk!Init
    /\ queryExists = [q \in QueryIDs |-> FALSE]
    /\ cursor = [q \in QueryIDs |-> 0]
    /\ history = <<>>
    /\ phase = [p \in Procs |-> "idle"]
    /\ readCursor = [p \in Procs |-> 0]
    /\ syncRow = [p \in Procs |-> 0]
    /\ pulledMax = [p \in Procs |-> 0]
    /\ pulledN = [p \in Procs |-> 0]
    /\ peerMax = 0

fedVars == <<queryExists, cursor, history, peerMax>>

(* The lock steps of the sync entry point; taking the lock starts a sync.  *)
SyncLockStep(p) ==
    /\ \/ Lk!LockRead(p) \/ Lk!LockAlreadyLocked(p) \/ Lk!LockAbort(p)
       \/ Lk!LockAckLost(p)
    /\ UNCHANGED <<fedVars, syncVars>>

SyncLockAcquire(p) ==
    /\ Lk!LockAcquire(p)
    /\ phase' = [phase EXCEPT ![p] = "load"]
    /\ UNCHANGED <<fedVars, readCursor, syncRow, pulledMax, pulledN>>

(* GetFederationQuery: ErrNotFound ends the sync; otherwise p keeps the    *)
(* query as read, its cursor included.                                     *)
LoadQuery(p) ==
    LET q == QueryOf[p] IN
    /\ Lk!Holding(p) /\ phase[p] = "load"
    /\ IF queryExists[q]
          THEN /\ phase' = [phase EXCEPT ![p] = "start"]
               /\ readCursor' = [readCursor EXCEPT ![p] = cursor[q]]
          ELSE /\ phase' = [phase EXCEPT ![p] = "done"]
               /\ UNCHANGED readCursor
    /\ UNCHANGED <<lockVars, fedVars, syncRow, pulledMax, pulledN>>

(* StartFederationSync: insert the history row (outside any transaction)   *)
(* and hand back the finalize closure bound to it.                         *)
StartSync(p) ==
    /\ Lk!Holding(p) /\ phase[p] = "start"
    /\ Len(history) < MaxSyncs
    /\ history' = Append(history, [query |-> QueryOf[p], completed |-> FALSE,
                                   insertions |-> 0, maxTs |-> 0])
    /\ syncRow' = [syncRow EXCEPT ![p] = Len(history) + 1]
    /\ phase' = [phase EXCEPT ![p] = "pull"]
    /\ UNCHANGED <<lockVars, queryExists, cursor, peerMax, readCursor,
                   pulledMax, pulledN>>

(* The pull from the peer: the keys newer than the cursor p read, up to    *)
(* some m (a page may stop short of peerMax).  With no such key it         *)
(* reports maxTimestamp = 0 and totalInserted = 0.                         *)
Pull(p) ==
    /\ Lk!Holding(p) /\ phase[p] = "pull"
    /\ IF peerMax > readCursor[p]
          THEN \E m \in readCursor[p] + 1..peerMax :
                  /\ pulledMax' = [pulledMax EXCEPT ![p] = m]
                  /\ pulledN' = [pulledN EXCEPT ![p] = 1]
          ELSE /\ pulledMax' = [pulledMax EXCEPT ![p] = 0]
               /\ pulledN' = [pulledN EXCEPT ![p] = 0]
    /\ phase' = [phase EXCEPT ![p] = "finalize"]
    /\ UNCHANGED <<lockVars, fedVars, readCursor, syncRow>>

(* Mutant: the cursor is set to one past the newest key pulled.            *)
FinalizeCursorPastMax(p) ==
    LET q == QueryOf[p]
        m == pulledMax[p]
        n == pulledN[p]
    IN
    /\ Lk!Holding(p) /\ phase[p] = "finalize"
    /\ cursor' = IF n > 0 /\ queryExists[q]
                    THEN [cursor EXCEPT ![q] = m + 1] ELSE cursor
    /\ history' = [history EXCEPT ![syncRow[p]] =
                     [@ EXCEPT !.completed = TRUE, !.insertions = n, !.maxTs = m]]
    /\ phase' = [phase EXCEPT ![p] = "done"]
    /\ UNCHANGED <<lockVars, queryExists, peerMax, readCursor, syncRow,
                   pulledMax, pulledN>>

(* Mutant: the totalInserted > 0 special case is dropped.                  *)
FinalizeAlwaysMoves(p) ==
    LET q == QueryOf[p]
        m == pulledMax[p]
        n == pulledN[p]
    IN
    /\ Lk!Holding(p) /\ phase[p] = "finalize"
    /\ cursor' = IF queryExists[q] THEN [cursor EXCEPT ![q] = m] ELSE cursor
    /\ history' = [history EXCEPT ![syncRow[p]] =
                     [@ EXCEPT !.completed = TRUE, !.insertions = n, !.maxTs = m]]
    /\ phase' = [phase EXCEPT ![p] = "done"]
    /\ UNCHANGED <<lockVars, queryExists, peerMax, readCursor, syncRow,
                   pulledMax, pulledN>>

(* Mutant: the history UPDATE selects its row by query_id instead of the  *)
(* captured sync_id, so it completes every row of the query.              *)
FinalizeByQuery(p) ==
    LET q == QueryOf[p]
        m == pulledMax[p]
        n == pulledN[p]
    IN
    /\ Lk!Holding(p) /\ phase[p] = "finalize"
    /\ cursor' = IF n > 0 /\ queryExists[q]
                    THEN [cursor EXCEPT ![q] = m] ELSE cursor
    /\ history' = [i \in DOMAIN history |->
                     IF history[i].query = q
                        THEN [history[i] EXCEPT !.completed = TRUE,
                                                !.insertions = n, !.maxTs = m]
                        ELSE history[i]]
    /\ phase' = [phase EXCEPT ![p] = "done"]
    /\ UNCHANGED <<lockVars, queryExists, peerMax, readCursor, syncRow,
                   pulledMax, pulledN>>

(* The finalize closure, one serializable transaction: when totalInserted  *)
(* > 0, UPDATE FederationQuery SET last_timestamp = maxTimestamp (a row    *)
(* that is gone is not touched); then complete the history row.            *)
Finalize(p) ==
    LET q == QueryOf[p]
        m == pulledMax[p]
        n == pulledN[p]
    IN
    /\ Lk!Holding(p) /\ phase[p] = "finalize"
    /\ cursor' = IF n > 0 /\ queryExists[q]
                    THEN [cursor EXCEPT ![q] = m] ELSE cursor
    /\ history' = [history EXCEPT ![syncRow[p]] =
                     [@ EXCEPT !.completed = TRUE, !.insertions = n, !.maxTs = m]]
    /\ phase' = [phase EXCEPT ![p] = "done"]
    /\ UNCHANGED <<lockVars, queryExists, peerMax, readCursor, syncRow,
                   pulledMax, pulledN>>

(* A step of the sync fails (no connection, the history INSERT, the pull,  *)
(* the finalize transaction rolls back): the entry point returns.          *)
SyncStepFails(p) ==
    /\ Lk!Holding(p) /\ phase[p] \in {"load", "start", "pull", "finalize"}
    /\ phase' = [phase EXCEPT ![p] = "done"]
    /\ UNCHANGED <<lockVars, fedVars, readCursor, syncRow, pulledMax, pulledN>>

(* The invocation is over: its local state is gone.                       *)
EndSync(p) ==
    /\ phase' = [phase EXCEPT ![p] = "idle"]
    /\ readCursor' = [readCursor EXCEPT ![p] = 0]
    /\ syncRow' = [syncRow EXCEPT ![p] = 0]
    /\ pulledMax' = [pulledMax EXCEPT ![p] = 0]
    /\ pulledN' = [pulledN EXCEPT ![p] = 0]

(* The deferred UnlockFn when the sync returns.                            *)
SyncUnlock(p) ==
    /\ phase[p] = "done"
    /\ Lk!Unlock(p)
    /\ EndSync(p)
    /\ UNCHANGED fedVars

(* The invocation crashes mid-sync, or its UnlockFn fails.                 *)
SyncAbandon(p) ==
    /\ Lk!UnlockFail(p)
    /\ EndSync(p)
    /\ UNCHANGED fedVars

(* AddFederationQuery: in one serializable transaction, delete the row of  *)
(* q if it exists and insert the new one, whose cursor is c.               *)
AddFederationQuery(q, c) ==
    /\ queryExists' = [queryExists EXCEPT ![q] = TRUE]
    /\ cursor' = [cursor EXCEPT ![q] = c]
    /\ UNCHANGED <<lockVars, history, syncVars, peerMax>>

(* The operator's CLI: a query id and an optional --last-timestamp (the    *)
(* zero time when omitted); invalid flags exit before any write.           *)
AddQuery ==
    \E q \in QueryIDs, c \in OperatorCursors : AddFederationQuery(q, c)

(* The peer receives a newer key.                                          *)
PeerPublish ==
    /\ peerMax < MaxTs
    /\ peerMax' = peerMax + 1
    /\ UNCHANGED <<lockVars, queryExists, cursor, history, syncVars>>

Tick ==
    /\ Lk!Tick
    /\ UNCHANGED <<fedVars, syncVars>>

Next ==
    \/ \E p \in Procs :
        \/ SyncLockStep(p)
        \/ SyncLockAcquire(p)
        \/ LoadQuery(p)
        \/ StartSync(p)
        \/ Pull(p)
        \/ Finalize(p)
        \/ SyncStepFails(p)
        \/ SyncUnlock(p)
        \/ SyncAbandon(p)
    \/ AddQuery
    \/ PeerPublish
    \/ Tick

Spec == Init /\ [][Next]_vars

-----------------------------------------------------------------------------
(* Properties *)

(* Cursor monotonicity (spec sections 3 and 8): a finalize never moves a   *)
(* query's resumption cursor backward, so the next sync never re-pulls     *)
(* keys already consumed.  It relies on the sync lock keeping two syncs of *)
(* a query apart and on nobody moving the cursor during a sync.            *)
CursorNeverRegresses ==
    [][\A p \in Procs :
          phase[p] = "finalize" /\ phase'[p] = "done"
          => \A q \in QueryIDs : cursor'[q] >= cursor[q]]_vars

(* History rows are an audit log (spec section 3): a FederationSync row is *)
(* never removed and never changes its query, and once completed it never  *)
(* changes again.  Only the finalize closure bound to the row's sync_id    *)
(* writes it, so this must hold even when a sync outlives its lock and     *)
(* two syncs of one query run side by side.                                *)
HistoryRowFinal ==
    [][\A i \in 1..Len(history) :
          /\ i <= Len(history')
          /\ history'[i].query = history[i].query
          /\ history[i].completed => history'[i] = history[i]]_vars

-----------------------------------------------------------------------------
(* Refinement.  The query table and the history rows are the ledger's own *)
(* state; the locks, the invocations and the peer are hidden.              *)

Ledger == INSTANCE SyncLedger

(* The bookkeeping implements the sync ledger of spec sections 3 and 4.4:  *)
(* each StartFederationSync opens a row, each finalize closes its own open *)
(* row and moves its query's cursor strictly forward when it inserted      *)
(* keys, and the CLI redefines queries.  Broken by a finalize that writes  *)
(* another row or moves a cursor back.                                     *)
LedgerRefined == Ledger!Spec

=============================================================================
