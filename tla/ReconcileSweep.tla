--------------------------- MODULE ReconcileSweep ---------------------------
(***************************************************************************)
(* The schedule of reconcile_pending_payments (tasks.py): every minute a   *)
(* sweep takes a Redis lock that lives five minutes, polls a page of the   *)
(* stuck payments, and gives the lock back if it is still its own.  Most   *)
(* sweeps see the last half hour; five minutes after the last wide sweep   *)
(* the next one walks the whole day, page by page, along a saved cursor.   *)
(* A slow sweep outlives its lock.  What a poll does to a payment is       *)
(* module PaymentPipeline; here the payments stay stuck.                   *)
(***************************************************************************)
EXTENDS Naturals, FiniteSets

CONSTANTS
    Stuck,            \* stuck payments, numbered by created_at from 1
    Latest,           \* those of the last half hour
    PageSize,
    Sweeps,
    NoSweep,
    MaxTimeouts       \* bound: expiries of the lock under a sweep, and crashes

ASSUME StuckAssumption ==
    /\ Stuck \subseteq Nat \ {0} /\ Latest \subseteq Stuck
    /\ PageSize \in Nat \ {0} /\ NoSweep \notin Sweeps

VARIABLES
    sweepLock,        \* reconcile:pending:lock
    cursor,           \* reconcile:pending:cursor, 0 when there is none
    wideDue,          \* five minutes since reconcile:pending:last_full
    sweep, wide,      \* each sweep: how far it is, and its tier
    page,             \* the payments it read and has not polled yet
    polled,           \* the payment polled last
    outlived,         \* sweeps whose lock expired while they worked
    robbed,           \* a lock was deleted between its owner's check and delete
    timeouts

sweepVars == <<sweepLock, cursor, wideDue, sweep, wide, page, polled, outlived, robbed, timeouts>>

SweepInit ==
    /\ sweepLock = NoSweep /\ cursor = 0 /\ wideDue = TRUE
    /\ sweep = [w \in Sweeps |-> "idle"]
    /\ wide = [w \in Sweeps |-> FALSE]
    /\ page = [w \in Sweeps |-> {}]
    /\ polled = 0 /\ outlived = {} /\ robbed = FALSE
    /\ timeouts = MaxTimeouts

TakeLock(w) ==
    /\ sweep[w] = "idle" /\ sweepLock = NoSweep
    /\ sweepLock' = w
    /\ wide' = [wide EXCEPT ![w] = wideDue]
    /\ sweep' = [sweep EXCEPT ![w] = "tier"]
    /\ outlived' = outlived \ {w}
    /\ UNCHANGED <<cursor, wideDue, page, polled, robbed, timeouts>>

Oldest(rows) == {p \in rows : Cardinality({q \in rows : q < p}) < PageSize}

FromFloor(w) == 0                                               \* mutant
After(w) == IF wide[w] THEN cursor ELSE 0

NextCursor(rows) ==
    IF Cardinality(rows) = PageSize
    THEN CHOOSE p \in rows : \A q \in rows : p >= q
    ELSE 0

ReadPage(w) ==
    /\ sweep[w] = "tier"
    /\ LET rows == Oldest({p \in IF wide[w] THEN Stuck ELSE Latest : p > After(w)})
       IN /\ page' = [page EXCEPT ![w] = rows]
          /\ cursor' = IF wide[w] THEN NextCursor(rows) ELSE cursor
    /\ sweep' = [sweep EXCEPT ![w] = "polling"]
    /\ UNCHANGED <<sweepLock, wideDue, wide, polled, outlived, robbed, timeouts>>

PollStuck(w) ==
    /\ sweep[w] = "polling"
    /\ \E p \in page[w] :
         /\ \A q \in page[w] : p <= q
         /\ polled' = p
         /\ page' = [page EXCEPT ![w] = @ \ {p}]
    /\ UNCHANGED <<sweepLock, cursor, wideDue, sweep, wide, outlived, robbed, timeouts>>

PageDone(w) ==
    /\ sweep[w] = "polling" /\ page[w] = {}
    /\ wideDue' = (wideDue /\ ~wide[w])
    /\ sweep' = [sweep EXCEPT ![w] = "over"]
    /\ UNCHANGED <<sweepLock, cursor, wide, page, polled, outlived, robbed, timeouts>>

AnyLock(w) == TRUE                                              \* mutant
OwnLock(w) == sweepLock = w

CheckLock(w) ==
    /\ sweep[w] = "over"
    /\ sweep' = [sweep EXCEPT ![w] = IF OwnLock(w) THEN "releasing" ELSE "idle"]
    /\ UNCHANGED <<sweepLock, cursor, wideDue, wide, page, polled, outlived, robbed, timeouts>>

DeleteLock(w) ==
    /\ sweep[w] = "releasing"
    /\ sweepLock' = NoSweep
    /\ sweep' = [sweep EXCEPT ![w] = "idle"]
    /\ UNCHANGED <<cursor, wideDue, wide, page, polled, outlived, robbed, timeouts>>

(* The lock's five minutes are over: its sweep is slow, or died. *)
LockExpires ==
    /\ sweepLock # NoSweep
    /\ IF sweep[sweepLock] = "idle" THEN UNCHANGED timeouts
       ELSE timeouts > 0 /\ timeouts' = timeouts - 1
    /\ outlived' = outlived \cup {sweepLock}
    /\ robbed' = (robbed \/ sweep[sweepLock] = "releasing")
    /\ sweepLock' = NoSweep
    /\ UNCHANGED <<cursor, wideDue, sweep, wide, page, polled>>

AbandonedLockExpires ==
    sweepLock # NoSweep /\ sweep[sweepLock] = "idle" /\ LockExpires

WideComesDue ==
    /\ ~wideDue /\ wideDue' = TRUE
    /\ UNCHANGED <<sweepLock, cursor, sweep, wide, page, polled, outlived, robbed, timeouts>>

SweepDies(w) ==
    /\ sweep[w] # "idle"
    /\ timeouts > 0 /\ timeouts' = timeouts - 1
    /\ sweep' = [sweep EXCEPT ![w] = "idle"]
    /\ page' = [page EXCEPT ![w] = {}]
    /\ UNCHANGED <<sweepLock, cursor, wideDue, wide, polled, outlived, robbed>>

SweepStep(w) ==
    \/ TakeLock(w) \/ ReadPage(w) \/ PollStuck(w)
    \/ PageDone(w) \/ CheckLock(w) \/ DeleteLock(w)

SweepNext ==
    \/ \E w \in Sweeps : SweepStep(w) \/ SweepDies(w)
    \/ LockExpires
    \/ WideComesDue

(* The minute cron, a worker that goes on, and time. *)
SweepFairness ==
    /\ WF_sweepVars(\E w \in Sweeps : SweepStep(w))
    /\ WF_sweepVars(WideComesDue)
    /\ WF_sweepVars(AbandonedLockExpires)

SweepSpec == SweepInit /\ [][SweepNext]_sweepVars /\ SweepFairness

-----------------------------------------------------------------------------
(* Two sweeps work at once only when one of them outlived its lock, or the *)
(* lock expired between its owner's check and its delete: a slow sweep     *)
(* does not take the lock of the next one away (tasks.py:507-509).         *)
SweepsApart ==
    robbed \/ Cardinality({w \in Sweeps \ outlived : sweep[w] # "idle"}) <= 1

(* Every stuck payment of the window is polled again and again: neither a  *)
(* full page of older ones nor a sweep that dies starves it (tasks.py:     *)
(* 527-535, 546-553).                                                      *)
NobodyStarves == \A p \in Stuck : []<>(polled = p)
=============================================================================
