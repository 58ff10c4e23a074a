------------------------------- MODULE DBLock -------------------------------
(***************************************************************************)
(* The TTL lock of src/internal/database/lock.go.                          *)
(*                                                                         *)
(* A lock is a row (lock_id, expires) of the Lock table.  DB.Lock opens a  *)
(* serializable transaction, reads the row and then, on what it read,      *)
(* inserts a new row, steals an expired one by moving its expiry, or gives *)
(* up with ErrAlreadyLocked.  The UnlockFn it returns deletes the row by   *)
(* id in a transaction of its own, whoever wrote it.                       *)
(*                                                                         *)
(* Each process is one invocation of an entry point that takes the lock   *)
(* LockOf[p] (the controller's lock, a sync's lock).  Time is kept         *)
(* relative: an expiry is the number of ticks left before it passes, and   *)
(* every expiry already in the past is -1, because the code only asks      *)
(* whether now is after it (time.Now().After(l.Expires)).  The caller's    *)
(* work under the lock lasts at most WorkBound ticks: time cannot advance  *)
(* past the point where a holder has worked WorkBound ticks without        *)
(* calling its UnlockFn.                                                   *)
(*                                                                         *)
(* Each invocation reads its own host's wall clock: Offset[p] is how far   *)
(* p's clock runs ahead of the earliest clock, at most Skew ticks.  p      *)
(* writes now + ttl by its clock and judges a row expired by its clock.    *)
(***************************************************************************)
EXTENDS Integers

CONSTANTS
    Procs,      \* invocations that take locks
    LockIDs,    \* lock ids
    LockOf,     \* LockOf[p]: the lock id invocation p passes to DB.Lock
    TTL,        \* the ttl argument of DB.Lock, in ticks
    WorkBound,  \* the longest the caller works under the lock, in ticks
    Skew,       \* the largest clock difference between two hosts, in ticks
    Offset      \* Offset[p]: how far p's clock is ahead, 0..Skew

ASSUME LockOfAssumption == LockOf \in [Procs -> LockIDs]
ASSUME TTLAssumption == TTL \in Nat
ASSUME WorkBoundAssumption == WorkBound \in Nat
ASSUME SkewAssumption == Skew \in Nat
ASSUME OffsetAssumption == Offset \in [Procs -> 0..Skew]

VARIABLES
    pc,          \* "idle", "reading" (transaction open, row read), "holding"
    rowExists,   \* rowExists[l]: the Lock table has a row for l
    rowExpires,  \* rowExpires[l]: its expires column, relative to now
    snapExists,  \* snapExists[p]: the row p's transaction read (existing)
    snapExpires, \* snapExpires[p]: its expiry as read (l.Expires)
    conflict,    \* conflict[p]: a concurrent commit wrote p's row after p read it
    lease        \* lease[p]: the expiry p wrote when it acquired (history)

vars == <<pc, rowExists, rowExpires, snapExists, snapExpires, conflict, lease>>

(* Expiries relative to now (by the earliest clock); -1 stands for every   *)
(* instant already past.                                                   *)
Expiry == -1..TTL + Skew

(* One tick later, an expiry is one tick closer (or stays past).           *)
Elapse(e) == IF e > -1 THEN e - 1 ELSE -1

(* time.Now().UTC().Add(ttl) on p's host.                                 *)
Deadline(p) == TTL + Offset[p]

(* Mutant: a row counts as expired already at its expiry instant          *)
(* (!time.Now().Before(l.Expires)).                                        *)
ExpiredAtDeadline(p, e) == e <= Offset[p]

(* time.Now().UTC().After(l.Expires) on p's host: p's clock, Offset[p]    *)
(* ahead, is strictly past the expiry.                                     *)
Expired(p, e) == e < Offset[p]

(* The invocations other than p that hold a read of lock l in an open      *)
(* transaction: a commit to l's row conflicts with each of them.           *)
MarkConflicts(p, l) ==
    [q \in Procs |-> IF q # p /\ pc[q] = "reading" /\ LockOf[q] = l
                        THEN TRUE ELSE conflict[q]]

Holding(p) == pc[p] = "holding"

TypeOK ==
    /\ pc \in [Procs -> {"idle", "reading", "holding"}]
    /\ rowExists \in [LockIDs -> BOOLEAN]
    /\ rowExpires \in [LockIDs -> Expiry]
    /\ snapExists \in [Procs -> BOOLEAN]
    /\ snapExpires \in [Procs -> Expiry]
    /\ conflict \in [Procs -> BOOLEAN]
    /\ lease \in [Procs -> Expiry]

Init ==
    /\ pc = [p \in Procs |-> "idle"]
    /\ rowExists = [l \in LockIDs |-> FALSE]
    /\ rowExpires = [l \in LockIDs |-> -1]
    /\ snapExists = [p \in Procs |-> FALSE]
    /\ snapExpires = [p \in Procs |-> -1]
    /\ conflict = [p \in Procs |-> FALSE]
    /\ lease = [p \in Procs |-> -1]

(* DB.Lock up to the row scan: acquire a connection, begin a serializable  *)
(* transaction and read the row of LockOf[p].  Its error returns (no       *)
(* connection, no transaction, a failed scan) change nothing and are       *)
(* stuttering steps.                                                       *)
LockRead(p) ==
    /\ pc[p] = "idle"
    /\ pc' = [pc EXCEPT ![p] = "reading"]
    /\ snapExists' = [snapExists EXCEPT ![p] = rowExists[LockOf[p]]]
    /\ snapExpires' = [snapExpires EXCEPT ![p] = rowExpires[LockOf[p]]]
    /\ conflict' = [conflict EXCEPT ![p] = FALSE]
    /\ UNCHANGED <<rowExists, rowExpires, lease>>

(* Mutant: the new expiry is rounded up one tick past now + ttl.          *)
WriteLockRoundedUp(p) ==
    LET l == LockOf[p] IN
    /\ IF snapExists[p]
          THEN /\ rowExpires' = [rowExpires EXCEPT ![l] = Deadline(p) + 1]
               /\ UNCHANGED rowExists
          ELSE /\ ~rowExists[l]
               /\ rowExists' = [rowExists EXCEPT ![l] = TRUE]
               /\ rowExpires' = [rowExpires EXCEPT ![l] = Deadline(p) + 1]
    /\ conflict' = [MarkConflicts(p, l) EXCEPT ![p] = FALSE]

(* The write DB.Lock decides on from what it read: steal an expired row    *)
(* (UPDATE) or insert a new one, with expires = now + ttl.  An INSERT of  *)
(* an id that exists fails on the key (so it is not offered).              *)
WriteLock(p) ==
    LET l == LockOf[p] IN
    /\ IF snapExists[p]
          THEN /\ rowExpires' = [rowExpires EXCEPT ![l] = Deadline(p)]
               /\ UNCHANGED rowExists
          ELSE /\ ~rowExists[l]
               /\ rowExists' = [rowExists EXCEPT ![l] = TRUE]
               /\ rowExpires' = [rowExpires EXCEPT ![l] = Deadline(p)]
    /\ conflict' = [MarkConflicts(p, l) EXCEPT ![p] = FALSE]

(* Mutant: an existing row always means ErrAlreadyLocked (no steal).      *)
SawFreeNoSteal(p) == ~snapExists[p]

(* The read row is free for p: absent, or present and expired.             *)
SawFree(p) == ~snapExists[p] \/ Expired(p, snapExpires[p])

(* The transaction is closed; p keeps nothing of what it read.             *)
ForgetRead(p) ==
    /\ snapExists' = [snapExists EXCEPT ![p] = FALSE]
    /\ snapExpires' = [snapExpires EXCEPT ![p] = -1]

(* Mutant: the transaction runs at read committed, so a write commits even *)
(* after a concurrent commit to the row it read.                           *)
LockAcquireReadCommitted(p) ==
    /\ pc[p] = "reading"
    /\ SawFree(p)
    /\ WriteLock(p)
    /\ pc' = [pc EXCEPT ![p] = "holding"]
    /\ lease' = [lease EXCEPT ![p] = Deadline(p)]
    /\ ForgetRead(p)

(* DB.Lock succeeds: the write commits and the UnlockFn is returned.       *)
(* Serializable isolation refuses the commit of a transaction whose row    *)
(* another transaction wrote after it was read.                            *)
LockAcquire(p) ==
    /\ pc[p] = "reading"
    /\ SawFree(p)
    /\ ~conflict[p]
    /\ WriteLock(p)
    /\ pc' = [pc EXCEPT ![p] = "holding"]
    /\ lease' = [lease EXCEPT ![p] = Deadline(p)]
    /\ ForgetRead(p)

(* The row is present and not expired: ErrAlreadyLocked, rollback.        *)
LockAlreadyLocked(p) ==
    /\ pc[p] = "reading"
    /\ ~SawFree(p)
    /\ pc' = [pc EXCEPT ![p] = "idle"]
    /\ ForgetRead(p)
    /\ UNCHANGED <<rowExists, rowExpires, conflict, lease>>

(* The UPDATE, the INSERT or the commit fails (a transient store error or  *)
(* a serialization failure): the transaction rolls back, DB.Lock returns   *)
(* an error.                                                               *)
LockAbort(p) ==
    /\ pc[p] = "reading"
    /\ SawFree(p)
    /\ pc' = [pc EXCEPT ![p] = "idle"]
    /\ ForgetRead(p)
    /\ UNCHANGED <<rowExists, rowExpires, conflict, lease>>

(* The commit reaches the store but its acknowledgement is lost: the row   *)
(* is written and DB.Lock returns an error, so no one holds the lock.      *)
LockAckLost(p) ==
    /\ pc[p] = "reading"
    /\ SawFree(p)
    /\ ~conflict[p]
    /\ WriteLock(p)
    /\ pc' = [pc EXCEPT ![p] = "idle"]
    /\ ForgetRead(p)
    /\ UNCHANGED lease

(* The UnlockFn: DELETE FROM Lock WHERE lock_id = LockOf[p], committed,    *)
(* whether or not the row is still the one p wrote.                        *)
Unlock(p) ==
    LET l == LockOf[p] IN
    /\ pc[p] = "holding"
    /\ pc' = [pc EXCEPT ![p] = "idle"]
    /\ rowExists' = [rowExists EXCEPT ![l] = FALSE]
    /\ rowExpires' = [rowExpires EXCEPT ![l] = -1]
    /\ conflict' = MarkConflicts(p, l)
    /\ lease' = [lease EXCEPT ![p] = -1]
    /\ UNCHANGED <<snapExists, snapExpires>>

(* The UnlockFn returns an error (no connection, no transaction, the       *)
(* DELETE fails), or the holder crashes before calling it: the row stays   *)
(* until its expiry passes.                                                *)
UnlockFail(p) ==
    /\ pc[p] = "holding"
    /\ pc' = [pc EXCEPT ![p] = "idle"]
    /\ lease' = [lease EXCEPT ![p] = -1]
    /\ UNCHANGED <<rowExists, rowExpires, snapExists, snapExpires, conflict>>

(* One tick of the clock.  No holder works past WorkBound ticks.           *)
Tick ==
    /\ \A p \in Procs : Holding(p) => Deadline(p) - Elapse(lease[p]) <= WorkBound
    /\ rowExpires' = [l \in LockIDs |-> Elapse(rowExpires[l])]
    /\ snapExpires' = [p \in Procs |-> Elapse(snapExpires[p])]
    /\ lease' = [p \in Procs |-> Elapse(lease[p])]
    /\ UNCHANGED <<pc, rowExists, snapExists, conflict>>

Next ==
    \/ \E p \in Procs :
        \/ LockRead(p)
        \/ LockAcquire(p)
        \/ LockAlreadyLocked(p)
        \/ LockAbort(p)
        \/ LockAckLost(p)
        \/ Unlock(p)
        \/ UnlockFail(p)
    \/ Tick

Spec == Init /\ [][Next]_vars

(* The scheduler keeps invoking the entry points, a transaction does not   *)
(* stay open forever, the caller's work ends, time passes, and a transient *)
(* store error does not recur forever: an acquisition that keeps being     *)
(* possible eventually commits.                                            *)
Fairness ==
    /\ WF_vars(Tick)
    /\ \A p \in Procs :
        /\ WF_vars(LockRead(p))
        /\ WF_vars(LockAcquire(p) \/ LockAlreadyLocked(p) \/ LockAbort(p)
                   \/ LockAckLost(p))
        /\ SF_vars(LockAcquire(p))
        /\ WF_vars(Unlock(p) \/ UnlockFail(p))

FairSpec == Spec /\ Fairness

-----------------------------------------------------------------------------
(* Properties *)

(* Lock mutual exclusion (spec section 8): two invocations never both     *)
(* hold lock l while both of the expiries they wrote are still ahead.      *)
(* Broken when a holder outlives its TTL, the lock is stolen, and the      *)
(* late holder's UnlockFn deletes the thief's row for a third to take;     *)
(* and when a fast clock sees a live lock as expired.                      *)
LeaseExclusion ==
    \A p, q \in Procs :
        (/\ LockOf[p] = LockOf[q]
         /\ Holding(p) /\ lease[p] >= 0
         /\ Holding(q) /\ lease[q] >= 0) => p = q

(* DB.Lock's read-then-write is atomic: a successful acquisition never     *)
(* overwrites a row whose expiry is still ahead by the acquirer's own      *)
(* clock (two stealers of the same expired row cannot both commit).        *)
StealOnlyExpired ==
    [][\A p \in Procs :
          pc[p] = "reading" /\ pc'[p] = "holding"
          => ~(rowExists[LockOf[p]] /\ ~Expired(p, rowExpires[LockOf[p]]))]_vars

(* Lock self-healing: a row nobody holds (its holder crashed, or its       *)
(* UnlockFn or its commit acknowledgement failed) does not wedge the lock: *)
(* eventually the row is gone or someone holds the lock again.             *)
AbandonedLockHeals ==
    \A l \in LockIDs :
        (rowExists[l] /\ \A p \in Procs : ~(Holding(p) /\ LockOf[p] = l))
        ~> (~rowExists[l] \/ \E p \in Procs : Holding(p) /\ LockOf[p] = l)

=============================================================================
