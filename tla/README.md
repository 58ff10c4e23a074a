# TLA+ models of the exposure-notifications coordination core

This directory holds TLA+ models of the parts of the repository that
coordinate concurrent, retried invocations through the database. It also
holds the TLC configurations that check those models, and TLAPS proofs of
the main lock properties.

## The system and its parts

| Part | Source | Modelled by |
|---|---|---|
| Distributed lock | `src/internal/database/lock.go` | `DBLock`, `DBLockProofs` |
| Federation sync bookkeeping | `src/unnamed/part_000`, lines 187-373 | `FederationSync`, `FederationSyncProofs`; abstract: `SyncLedger` |
| Federation query CLI | `src/unnamed/part_002` | `FederationSync` (`AddQuery`) |
| Transactional store layer | `finishTx`, `BeginTx` | serializable isolation inside `DBLock`; atomic steps elsewhere |
| Batch export pipeline | only the bootstrap, `part_000`:42-83 | not modelled |
| Region authorization | `ReadAPIConfigs`, `verify_test.go` | not modelled |
| Export wire format | `part_001`, `export.fbs` | not modelled |

**Distributed lock.** `DB.Lock(lockID, ttl)` opens a serializable
transaction and reads the row `(lock_id, expires)`. What it does next
depends on what it read:

- no row: it inserts one with `expires = now + ttl`;
- an expired row: it steals it with an `UPDATE` of the expiry;
- a live row: it returns `ErrAlreadyLocked`.

The `UnlockFn` it returns deletes the row by id, in a transaction of its
own.

**Federation sync.** A sync invocation works in these steps:

1. it takes the lock of its query;
2. it reads the query (`getFederationQuery`) with the cursor `last_timestamp`;
3. it inserts a history row (`StartFederationSync`);
4. it pulls newer keys from a peer;
5. it calls the `finalize` closure. In one serializable transaction, this
   sets the cursor to the newest key pulled (only when `totalInserted > 0`)
   and completes the history row;
6. its deferred `UnlockFn` deletes the lock row.

The operator's CLI replaces a query at any time with
`AddFederationQuery` (delete plus insert), without taking the lock.

The sync entry point and the pull are not in `src/`. `Pull`, `EndSync` and
`PeerPublish` are modelled from the spec (sections 2 and 4.4) and are
marked `spec_modelled` in `PROJECT.json`.

## Modules

### DBLock (lock.go)

**State.**

- `pc[p]` is where invocation `p` is: `idle`, `reading` (transaction open,
  row read) or `holding` (it has its `UnlockFn`).
- `rowExists[l]` and `rowExpires[l]` are the Lock table.
- `snapExists[p]` and `snapExpires[p]` are the row as `p`'s transaction read
  it.
- `conflict[p]` says that a concurrent commit wrote `p`'s row after `p` read
  it. Postgres serializable isolation then fails `p`'s commit.
- `lease[p]` is the expiry `p` wrote. It is history, used only by the
  properties.

**Time.** Time is relative to the earliest host clock. An expiry is the
number of ticks left by that clock, and every past expiry is `-1`, because
the code only asks `time.Now().After(expires)`. `Tick` ages every expiry.
It is blocked once a holder has worked `WorkBound` ticks: this is the
caller's longest work under the lock.

**Clocks.** `lock.go` reads `time.Now()` on the host of each invocation
(lines 73 and 76). The constant `Offset[p] \in 0..Skew` is how far `p`'s
host clock runs ahead. `p` writes `Deadline(p) == TTL + Offset[p]`, and
judges an expiry `e` past when `Expired(p, e) == e < Offset[p]`. With
`Skew = 0` this is the single clock of the earlier runs.

**Actions.** `DB.Lock` is split into its read (`LockRead`) and the end of
its transaction:

| Action | Code path |
|---|---|
| `LockAcquire` | insert or steal, commit accepted |
| `LockAlreadyLocked` | returns `ErrAlreadyLocked` |
| `LockAbort` | an error rolls back |
| `LockAckLost` | the commit lands but the caller sees an error |
| `Unlock` | `UnlockFn` |
| `UnlockFail` | crash, or `UnlockFn` failing |

A write marks every concurrent reader of the same row as conflicting
(`MarkConflicts`). `LockAcquire` and `LockAckLost` require `~conflict[p]`.

### FederationSync (part_000, part_002)

This module composes the lock (`Lk == INSTANCE DBLockProofs`, which brings
`DBLock` and the facts proved of it, sharing its variables) with:

- the query table (`queryExists`, `cursor`);
- the history rows (`history`, a sequence of records);
- the peer's newest key timestamp (`peerMax`);
- per-invocation locals: `phase`, `readCursor`, `syncRow`, `pulledMax`,
  `pulledN`.

**Actions.** Each step of a sync is one action: `LoadQuery`, `StartSync`,
`Pull`, `Finalize`, `SyncStepFails` (any error return), `SyncUnlock`, and
`SyncAbandon` (a crash, or a failed release). `AddQuery` is the CLI calling
`AddFederationQuery` with a timestamp from `OperatorCursors`.

**Simplifications.**

- `totalInserted` is abstracted to 0 or "some" (1).
- Key timestamps are `0..MaxTs`, with 0 the zero `time.Time`.

### No abstract lock specification

An abstract holder-set lock (acquire a lock nobody holds, release one's
own) is not stated separately. While the caller's work fits in the TTL
(`WorkBound + Skew <= TTL`) every holder's lease is live, so such a
refinement says no more than `LeaseExclusion`; when the work outlasts the
TTL it fails exactly where `LeaseExclusion` does.

### SyncLedger (abstract bookkeeping)

`SyncLedger` is what the bookkeeping promises (spec sections 3 and 4.4),
with the locks, the invocations and the peer hidden. Its variables are the
query table (`queryExists`, `cursor`) and the history rows. It has three
actions:

- `Open(q)` appends an open row for query `q`.
- `Close(i, n, m)` completes the open row `i` once. When keys were inserted
  (`n > 0`) and the query exists, it moves the query's cursor strictly
  forward to `m`.
- `Define(q, c)` is the operator redefining `q` with cursor `c`.

`FederationSync` instantiates it on the same variables
(`Ledger == INSTANCE SyncLedger`) and states `LedgerRefined == Ledger!Spec`.
`StartSync` maps to `Open`, `Finalize` of sync `p` maps to
`Close(syncRow[p], pulledN[p], pulledMax[p])`, `AddQuery` maps to `Define`,
and every other step is a stutter.

## Runs

All runs use TTL = 2 ticks and `Skew = 0`, except the two skew runs.

| Run (cfg) | Expect | Checks | Shows |
|---|---|---|---|
| lock_exclusion (`MCDBLock.cfg`) | pass | `TypeOK`, `LeaseExclusion` | 3 invocations on one lock, WorkBound = 2: never two live holders |
| lock_steal_atomic (`MCDBLockAtomic.cfg`) | pass | `StealOnlyExpired` | even with WorkBound = 3 (overruns), no acquire overwrites a live row |
| lock_heals (`MCDBLockLive.cfg`) | pass | `AbandonedLockHeals` under `FairSpec` | a row left by a crash or a failed release is eventually deleted or taken |
| lock_overrun (`MCDBLockOverrun.cfg`) | violation | `LeaseExclusion` | see finding 1 |
| lock_skew_margin (`MCDBLockSkewMargin.cfg`) | pass | `LeaseExclusion` | p2's clock a tick ahead (Skew = 1), TTL = 3, WorkBound = 2: a margin of the skew keeps exclusion |
| lock_skew (`MCDBLockSkew.cfg`) | violation | `LeaseExclusion` | see finding 4 |
| sync_cursor (`MCFederationSync.cfg`) | pass | `TypeOK`, `CursorNeverRegresses` | 2 syncs of one query, failures everywhere, operator re-adds with the zero time: no finalize moves the cursor back |
| sync_operator_edit (`MCFederationSyncOperator.cfg`) | violation | `CursorNeverRegresses` | see finding 2 |
| sync_overrun (`MCFederationSyncOverrun.cfg`) | violation | `CursorNeverRegresses` | see finding 3 |
| sync_history (`MCFederationSyncHistory.cfg`) | pass | `HistoryRowFinal` | WorkBound = 3 (overruns), two overlapping syncs, operator re-adds at 0 or 2: history rows stay an audit log |
| sync_ledger (`MCFederationSyncLedger.cfg`) | pass | `LedgerRefined` | the sync_cursor instance: every step is a ledger step or a stutter |

**Bounds.** Three invocations on one lock let a stealer and a third
acquirer meet a stale holder, which is the shortest path to finding 1.
With TTL = 2 and WorkBound = 2 or 3, a holder can finish in time or
overrun. MaxTs = 2 lets two syncs pull different amounts, and MaxSyncs = 2
history rows allows two full syncs. In the skew runs one host of three
is one tick ahead: the smallest skew, and enough to break exclusion when
the TTL leaves no margin for it.

**Fairness** (`FairSpec`, lock_heals only):

- **Weak fairness on `Tick`.** Wall-clock time passes.
- **Weak fairness on each invocation's steps.** Each is a call that returns:
  a transaction always ends, and an entry point always returns and runs its
  deferred unlock or crashes.
- **Strong fairness on `LockAcquire`.** The scheduler keeps retrying, and a
  retry can lose the serialization race only finitely often.

## Findings

1. **Stale release admits two holders.** The `UnlockFn` deletes by id
   (lock.go:123), so a holder that outlived its TTL deletes the stealer's
   row. A third `DB.Lock` then inserts a new row while the stealer still
   works. Spec section 4.2 accepts the stale release, but section 3 promises
   at most one holder.
2. **Operator edits are overwritten.** `finalize` blind-writes
   `last_timestamp` (part_000:342), and the CLI takes no lock. An operator
   who moves a cursor forward during a sync sees it moved back at finalize.
3. **An overrun lets the cursor regress.** When a sync outlives its TTL, a
   second sync of the same query runs alongside it. The slower finalize
   regresses the cursor. The blind write is only as safe as the lock, and
   the lock is only safe when the work fits in the TTL.
4. **Clock skew eats the TTL** (spec gap). Expiries are written and tested
   against each host's own wall clock (lock.go:73, :76). With p2's clock one
   tick ahead and TTL = WorkBound = 2, p2 sees p1's row expired one tick
   before p1's lease ends, steals it, and both hold the lock. The spec only
   asks that the work fit in the TTL. Exclusion needs
   `WorkBound + Skew <= TTL`, and that is the hypothesis under which it is
   proved.

## Proofs

### DBLockProofs

These theorems are proved by TLAPS for every set of invocations and locks,
every `LockOf`, every TTL, WorkBound and Skew in `Nat`, and every
`Offset \in [Procs -> 0..Skew]`:

- `TypeCorrect`: `Spec => []TypeOK`. It is proved by one step per action
  (`TypeStep`), with the lemma `WriteLockType`.
- `StealOnlyExpiredHolds`: `Spec => StealOnlyExpired`, with no hypothesis
  on timing. It rests on the inductive invariant
  `SnapInv == TypeOK /\ SnapshotCurrent`. `SnapshotCurrent` says that a
  reading invocation with no conflict still sees the current row. This is
  the model's statement of serializable isolation, and it is preserved
  because every write of a row marks the other readers of that row
  (`SnapshotStep`). `OnlyAcquireTakes` shows that only `LockAcquire` moves
  `reading` to `holding`. Its guard `SawFree` on an up-to-date snapshot then
  means the row was absent or expired by the acquirer's clock.
- `LeaseExclusionHolds`: under `WorkBound + Skew <= TTL`,
  `Spec => []LeaseExclusion`. `LeaseExclusion` alone is not inductive: it
  says nothing of the rows. The proof uses
  `IInv == SnapInv /\ HolderOwnsRow /\ SingleHolder`. `HolderOwnsRow` says
  that every holder's row exists and carries the holder's lease, and that
  the lease is at least `Deadline(p) - WorkBound >= TTL - WorkBound >= Skew`
  (the `Tick` guard). So a row that any acquirer, however fast its clock,
  sees as free has no holder (`FreeRowHasNoHolder`), and an acquire never
  creates a second holder. `Unlock` deletes only the row of the unique
  holder. `HolderStep` checks each action.

### FederationSyncProofs

- `FedTypeCorrect`: `Spec => []TypeOK` for the composition. The lock part
  is the lock's own `TypeStep`, through `LockProjection` (every step of the
  composition is a lock step or leaves the lock's variables alone). The
  sync part adds `SyncRowInRange`: a sync in `pull` or `finalize` points at
  a history row it inserted.
- `CursorNeverRegressesHolds`: under `SyncHypotheses`,
  `Spec => CursorNeverRegresses`. `SyncHypotheses` has three parts:
  `WorkBound + Skew <= TTL`, the operator re-adds only with the zero
  timestamp, and the syncs of a query share one lock. The inductive
  invariant `CursorInv` conjoins these facts:
  - the lock's `IInv`;
  - `LockDiscipline`: a sync is past `idle` exactly while it holds its lock;
  - `CursorBehindRead`: while a sync runs, the stored cursor is at most the
    one it read;
  - `PulledAhead`: what it pulled is newer than what it read.
  Together these give `OneSyncPerQuery`, so nothing but the running sync
  (or an operator reset to zero) moves the cursor. The finalize then only
  writes a value above the stored cursor (`FinalizeMonotone`). Each of the
  three hypotheses is needed: runs sync_overrun and sync_operator_edit
  break the first two.

- `HistoryRowFinalHolds`: `Spec => HistoryRowFinal`, with no hypothesis
  on timing or on the operator. It holds even when syncs overlap.
  `HistoryRowFinal` alone is not inductive: it says nothing of the rows
  that running syncs will write. The invariant is
  `HistInv == FedTypeInv /\ RowInv`, where `RowInv` says that a sync in
  `pull` or `finalize` owns a row that:
  - is still open (`OwnRowOpen`);
  - belongs to the sync's query (`OwnRowQuery`);
  - differs from every other running sync's row (`RowsDistinct`).

  `StartSync` keeps `RowInv` because it hands out `Len(history) + 1`, a
  row nobody else has. `Finalize` keeps it because it writes only its own
  row (`HistStep`). `HistoryRowStep` then shows that every step keeps every
  row of the step before.
- `RefinesSyncLedger`: under `SyncHypotheses`, `Spec => LedgerRefined`. The
  invariant is `CursorInv /\ RowInv`. `FinalizeIsClose` shows that a
  finalize is the ledger's `Close` of its own row:
  - the row is open and belongs to its query (`RowInv`);
  - when keys were inserted, `pulledMax > readCursor >= cursor` holds
    (`PulledAhead`, `CursorBehindRead`), so the cursor moves strictly
    forward.

  `LedgerStep` maps every other step.

`CursorInv`, `IInv` and `HistInv` were checked as invariants with TLC
before they were proved.

**Left to TLC.** Liveness (`AbandonedLockHeals`) needs fairness and
`ENABLED`, which TLAPS does not handle here. The violations (findings 1-4)
are TLC counterexamples.

## Not modelled

- **Batch export pipeline.** Its code (`internal/api`: the controller,
  partitioning, workers, staging then promotion) is not in the repository.
  Only the bootstrap `main` (part_000:42-83) is, and it reads configuration
  once and registers handlers. A model written from the spec alone would
  have no guards, error paths or ordering to be faithful to.
- **Region authorization.** `ReadAPIConfigs` is one read-committed query
  that builds a map. The predicate `VerifyRegions` is not under `src/`;
  only its table-driven test is. There is no shared state or concurrency
  for TLC to explore.
- **Export wire format.** This is generated serialization code.
- **The `completed` column** (part_000:332). It is wall-clock arithmetic,
  recorded but read by nothing in the repository. The model keeps only
  whether it is set.
