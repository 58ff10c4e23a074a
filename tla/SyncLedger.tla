----------------------------- MODULE SyncLedger -----------------------------
(***************************************************************************)
(* What the federation-sync bookkeeping promises its callers (spec         *)
(* sections 3 and 4.4), with the locks, the sync invocations and the pull  *)
(* hidden.  The store holds the query definitions with their resumption    *)
(* cursors and the history of sync attempts.  A sync opens a history row;  *)
(* closing it records what the sync saw and, when it inserted keys,        *)
(* moves its query's cursor strictly forward.  The operator may define or  *)
(* redefine a query at any time, cursor included.                          *)
(***************************************************************************)
EXTENDS Integers, Sequences

CONSTANTS
    QueryIDs,         \* federation query ids
    MaxTs,            \* the newest key timestamp
    MaxSyncs,         \* bound on the history rows
    OperatorCursors   \* the cursors the operator sets

VARIABLES
    queryExists,  \* queryExists[q]: query q is defined
    cursor,       \* cursor[q]: its resumption cursor
    history       \* the sync attempts, oldest first

Ts == 0..MaxTs

Init ==
    /\ queryExists = [q \in QueryIDs |-> FALSE]
    /\ cursor = [q \in QueryIDs |-> 0]
    /\ history = <<>>

(* A sync of q starts: a new, open history row.                            *)
Open(q) ==
    /\ Len(history) < MaxSyncs
    /\ history' = Append(history, [query |-> q, completed |-> FALSE,
                                   insertions |-> 0, maxTs |-> 0])
    /\ UNCHANGED <<queryExists, cursor>>

(* The sync of open row i ends having inserted n keys (0, or 1 for some),  *)
(* the newest at m: the row is completed once and for all, and a sync that *)
(* inserted keys moves a defined query's cursor forward to m.              *)
Close(i, n, m) ==
    LET q == history[i].query IN
    /\ ~history[i].completed
    /\ history' = [history EXCEPT ![i] = [@ EXCEPT !.completed = TRUE,
                                                  !.insertions = n,
                                                  !.maxTs = m]]
    /\ IF n > 0 /\ queryExists[q]
          THEN /\ m > cursor[q]
               /\ cursor' = [cursor EXCEPT ![q] = m]
          ELSE cursor' = cursor
    /\ UNCHANGED queryExists

(* The operator defines q afresh, with cursor c.                           *)
Define(q, c) ==
    /\ queryExists' = [queryExists EXCEPT ![q] = TRUE]
    /\ cursor' = [cursor EXCEPT ![q] = c]
    /\ UNCHANGED history

Next ==
    \/ \E q \in QueryIDs : Open(q)
    \/ \E i \in 1..Len(history), n \in {0, 1}, m \in Ts : Close(i, n, m)
    \/ \E q \in QueryIDs, c \in OperatorCursors : Define(q, c)

Spec == Init /\ [][Next]_<<queryExists, cursor, history>>

=============================================================================
