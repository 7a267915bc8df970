----------------------------- MODULE Fulfilment -----------------------------
(***************************************************************************)
(* From a paid order to a subscription: PurchaseService.fulfill and        *)
(* checkout_from_balance (purchase.py), the subscription service they call *)
(* (subscription.py) and the renewals of _autopay_one (tasks.py), all on   *)
(* the subscriptions of one user, as several workers run them at once.     *)
(*                                                                         *)
(* A session locks the user's row, reads the subscription, writes the VPN  *)
(* panel, then writes the subscription's row and commits.  Autopay locks   *)
(* the subscription's row first and meets the user's row at its debit.     *)
(* What a session read before it waited for a lock stays in its identity   *)
(* map: SELECT ... FOR UPDATE does not refresh an object already loaded.   *)
(*                                                                         *)
(* An expiry date is represented by the set of orders whose days it holds, *)
(* a traffic limit by the set of packs added to the plan's own limit.      *)
(***************************************************************************)
EXTENDS Naturals, FiniteSets

CONSTANTS
    Hosted,       \* plan orders paid through a gateway, settled by a worker
    Balance,      \* plan orders paid from the wallet
    Topups,       \* traffic packs paid through a gateway
    Autopays,     \* runs of _autopay_one
    Plans, NoPlan,
    Plan,         \* the plan in an order's snapshot
    First,        \* the subscription the user starts with, or None
    FirstPlan,    \* its plan; NoPlan for an imported one
    MaxFaults,    \* bound: failures the environment injects
    NoSub, None

Buys == Hosted \cup Balance
Orders == Buys \cup Topups \cup Autopays
Subs == Buys \cup ({First} \ {None})     \* named by the order that creates them
Sub == [plan : Plans \cup {NoPlan}, time : SUBSET (Orders \ Topups), packs : SUBSET Topups]

ASSUME OrdersAssumption ==
    /\ Hosted \cap Balance = {}
    /\ Buys \cap (Topups \cup Autopays) = {}
    /\ Topups \cap Autopays = {}
    /\ First \notin Orders
    /\ None \notin Orders
    /\ NoSub \notin Sub
ASSUME PlansAssumption ==
    /\ Plan \in [Buys \cup Topups -> Plans]
    /\ FirstPlan \in Plans \cup {NoPlan}
    /\ NoPlan \notin Plans
    /\ MaxFaults \in Nat

VARIABLES
    current,      \* users.current_subscription_id
    sub,          \* subscriptions rows
    panel,        \* the panel users behind them
    due,          \* expire_at is within the autopay horizon
    done,         \* orders committed
    pc,           \* each order: step of the session that serves it
    seen,         \* current_subscription_id in that session's identity map
    target,       \* subscription it works on; frozen at checkout until resolved
    base,         \* the subscription row it loaded
    userLock, subLock,
    faults

rows == <<current, sub, due, done>>
session == <<pc, seen, target, base>>
locks == <<userLock, subLock>>
vars == <<rows, panel, session, locks, faults>>

TypeOK ==
    /\ current \in Subs \cup {None}
    /\ sub \in [Subs -> Sub \cup {NoSub}]
    /\ panel \in [Subs -> Sub \cup {NoSub}]
    /\ due \in [Subs -> BOOLEAN]
    /\ done \subseteq Orders
    /\ pc \in [Orders -> {"idle", "paid", "read", "claimed", "locked", "loaded", "written"}]
    /\ seen \in [Orders -> Subs \cup {None}]
    /\ target \in [Orders -> Subs \cup {None}]
    /\ base \in [Orders -> Sub \cup {NoSub}]
    /\ userLock \in Orders \cup {None}
    /\ subLock \in [Subs -> Orders \cup {None}]
    /\ faults \in 0 .. MaxFaults

FirstSub == [plan |-> FirstPlan, time |-> {}, packs |-> {}]

Init ==
    /\ current = First
    /\ sub = [s \in Subs |-> IF s = First THEN FirstSub ELSE NoSub]
    /\ panel = sub
    /\ due = [s \in Subs |-> FALSE]
    /\ done = {}
    /\ pc = [o \in Orders |-> "idle"]
    /\ seen = [o \in Orders |-> None]
    /\ target = [o \in Orders |-> None]
    /\ base = [o \in Orders |-> NoSub]
    /\ userLock = None
    /\ subLock = [s \in Subs |-> None]
    /\ faults = MaxFaults

-----------------------------------------------------------------------------
(* The invoice of a hosted order freezes what it is for; it is then paid.  *)
Checkout(o) ==
    /\ o \in Hosted \cup Topups
    /\ pc[o] = "idle"
    /\ o \notin done
    /\ o \in Topups => current # None
    /\ target' = [target EXCEPT ![o] = current]
    /\ pc' = [pc EXCEPT ![o] = "paid"]
    /\ UNCHANGED <<rows, panel, seen, base, locks, faults>>

(* fulfill loads the user before it locks it, checkout_from_balance does   *)
(* not.                                                                    *)
ReadsFirst(o) == o \notin Balance

Ready(o) ==
    \/ pc[o] = "paid"
    \/ o \in Balance \ done /\ pc[o] = "idle"

ReadUser(o) ==
    /\ ReadsFirst(o)
    /\ Ready(o)
    /\ seen' = [seen EXCEPT ![o] = current]
    /\ pc' = [pc EXCEPT ![o] = "read"]
    /\ UNCHANGED <<rows, panel, target, base, locks, faults>>

PlansOnly(o) == o \notin Topups                                 \* mutant
LocksNobody(o) == FALSE                                         \* mutant
LocksUser(o) == TRUE

(* lock_for_update returns the identity map's object when there is one.    *)
LockUser(o) ==
    /\ \/ pc[o] = "read"
       \/ ~ReadsFirst(o) /\ Ready(o)
    /\ IF LocksUser(o)
       THEN userLock = None /\ userLock' = o
       ELSE userLock' = userLock
    /\ seen' = [seen EXCEPT ![o] = IF pc[o] = "read" THEN @ ELSE current]
    /\ pc' = [pc EXCEPT ![o] = "locked"]
    /\ UNCHANGED <<rows, panel, target, base, subLock, faults>>

IsTopup(o) == o \in Topups

FrozenType(o) == target[o]                                      \* mutant
ResolvedSub(o) == seen[o]

(* resolve_purchase_type: the current subscription is renewed or changed,  *)
(* and only a user without one gets a new one; packs keep their target.    *)
Resolve(o) ==
    IF IsTopup(o) THEN target[o]
    ELSE IF ResolvedSub(o) = None THEN o
    ELSE ResolvedSub(o)

Load(o) ==
    /\ pc[o] = "locked"
    /\ target' = [target EXCEPT ![o] = Resolve(o)]
    /\ base' = [base EXCEPT ![o] = sub[Resolve(o)]]
    /\ pc' = [pc EXCEPT ![o] = "loaded"]
    /\ UNCHANGED <<rows, panel, seen, locks, faults>>

-----------------------------------------------------------------------------
(* _autopay_one: the subscription's row first, then the guarded debit *)

SubUnchecked(s) == TRUE                                         \* mutant
SubFree(s) == subLock[s] = None

AutopayLock(o, s) ==
    /\ o \in Autopays
    /\ pc[o] = "idle"
    /\ o \notin done
    /\ sub[s] # NoSub
    /\ due[s]
    /\ sub[s].plan # NoPlan
    /\ SubFree(s)
    /\ subLock' = [subLock EXCEPT ![s] = o]
    /\ target' = [target EXCEPT ![o] = s]
    /\ base' = [base EXCEPT ![o] = sub[s]]
    /\ pc' = [pc EXCEPT ![o] = "claimed"]
    /\ UNCHANGED <<rows, panel, seen, userLock, faults>>

AutopayDebit(o) ==
    /\ pc[o] = "claimed"
    /\ userLock = None
    /\ userLock' = o
    /\ pc' = [pc EXCEPT ![o] = "loaded"]
    /\ UNCHANGED <<rows, panel, seen, target, base, subLock, faults>>

(* Time passes. *)
ComeDue(s) ==
    /\ sub[s] # NoSub
    /\ ~due[s]
    /\ due' = [due EXCEPT ![s] = TRUE]
    /\ UNCHANGED <<current, sub, done, panel, session, locks, faults>>

-----------------------------------------------------------------------------
(* Panel first, then the row *)

Kind(o) ==
    IF o \in Autopays THEN "renew"
    ELSE IF IsTopup(o) THEN "topup"
    ELSE IF base[o] = NoSub THEN "new"
    ELSE IF base[o].plan \in {Plan[o], NoPlan} THEN "renew" ELSE "change"

(* What the session makes of row: it writes the columns it assigned, with  *)
(* values computed from the row it loaded.                                 *)
Applied(o, row) ==
    CASE Kind(o) = "new" -> [plan |-> Plan[o], time |-> {o}, packs |-> {}]
      [] Kind(o) = "topup" ->
           [plan |-> row.plan, time |-> row.time, packs |-> base[o].packs \cup {o}]
      [] Kind(o) = "change" ->
           [plan |-> Plan[o], time |-> base[o].time \cup {o}, packs |-> {}]
      [] OTHER ->
           [plan |-> IF row.plan = NoPlan THEN Plan[o] ELSE row.plan,
            time |-> base[o].time \cup {o}, packs |-> row.packs]

SpecBeforeRenewal(o) ==                                         \* mutant
    IF base[o] = NoSub THEN Applied(o, base[o]) ELSE base[o]
PanelSpec(o) == Applied(o, base[o])

PanelWrite(o) ==
    /\ pc[o] = "loaded"
    /\ panel' = [panel EXCEPT ![target[o]] = PanelSpec(o)]
    /\ pc' = [pc EXCEPT ![o] = "written"]
    /\ UNCHANGED <<rows, seen, target, base, locks, faults>>

(* Mutant: the index is missing. *)
PlanFree(o) == FALSE

(* uq_active_sub: one live subscription per user and plan. *)
PlanTaken(o) ==
    /\ Kind(o) \in {"new", "change"}
    /\ \E s \in Subs \ {target[o]} : sub[s] # NoSub /\ sub[s].plan = Plan[o]

Release(o) ==
    /\ userLock' = IF userLock = o THEN None ELSE userLock
    /\ subLock' = [s \in Subs |-> IF subLock[s] = o THEN None ELSE subLock[s]]

(* The flush waits for the subscription's row, then the session commits.   *)
Commit(o) ==
    /\ pc[o] = "written"
    /\ subLock[target[o]] \in {None, o}
    /\ ~PlanTaken(o)
    /\ sub' = [sub EXCEPT ![target[o]] = Applied(o, @)]
    /\ current' = IF Kind(o) = "new" THEN target[o] ELSE current
    /\ due' = IF Kind(o) = "topup" THEN due ELSE [due EXCEPT ![target[o]] = FALSE]
    /\ done' = done \cup {o}
    /\ pc' = [pc EXCEPT ![o] = "idle"]
    /\ Release(o)
    /\ UNCHANGED <<panel, seen, target, base, faults>>

-----------------------------------------------------------------------------
(* The transaction rolls back; a paid order is processed again, an autopay *)
(* waits for the next run, a buyer taps again.                             *)
Abandon(o) ==
    /\ pc' = [pc EXCEPT ![o] = IF o \in Hosted \cup Topups THEN "paid" ELSE "idle"]
    /\ Release(o)
    /\ UNCHANGED <<rows, panel, seen, target, base>>

(* The flush breaks the unique index. *)
DuplicateKey(o) ==
    /\ pc[o] = "written"
    /\ PlanTaken(o)
    /\ Abandon(o)
    /\ UNCHANGED faults

(* A panel error, a lost connection, a crash. *)
Fail(o) ==
    /\ pc[o] \in {"read", "claimed", "locked", "loaded", "written"}
    /\ faults > 0
    /\ faults' = faults - 1
    /\ Abandon(o)

(* The wallet does not cover the renewal. *)
Declined(o) ==
    /\ pc[o] = "claimed"
    /\ Abandon(o)
    /\ UNCHANGED faults

(* PostgreSQL aborts one of an autopay that waits for the user's row and   *)
(* the fulfilment that owns it and waits for the subscription's.           *)
Crossed(a, o) ==
    /\ pc[a] = "claimed" /\ userLock = o
    /\ pc[o] = "written" /\ subLock[target[o]] = a

DeadlockVictim(o) ==
    /\ \E x \in Orders : Crossed(o, x) \/ Crossed(x, o)
    /\ Abandon(o)
    /\ UNCHANGED faults

-----------------------------------------------------------------------------
Work(o) ==
    \/ ReadUser(o)
    \/ LockUser(o)
    \/ Load(o)
    \/ AutopayDebit(o)
    \/ PanelWrite(o)
    \/ Commit(o)
    \/ DuplicateKey(o)

Next ==
    \/ \E o \in Orders :
         \/ Checkout(o)
         \/ Work(o)
         \/ Fail(o)
         \/ Declined(o)
         \/ DeadlockVictim(o)
         \/ \E s \in Subs : AutopayLock(o, s)
    \/ \E s \in Subs : ComeDue(s)

Spec == Init /\ [][Next]_vars

(* Paid orders are served again and again until they are done (retries and *)
(* the sweep), waiters queue for a row, the deadlock detector picks a      *)
(* victim.                                                                 *)
Fairness ==
    /\ \A o \in Orders : SF_vars(pc[o] # "idle" /\ Work(o))
    /\ WF_vars(\E o \in Orders : DeadlockVictim(o))

FairSpec == Spec /\ Fairness

-----------------------------------------------------------------------------
(* Properties *)

(* However many orders are settled at once, the user has one subscription, *)
(* so one panel account: a purchase extends it instead of duplicating it   *)
(* (resolve_purchase_type under lock_for_update).                          *)
OneAccountPerUser == Cardinality({s \in Subs : sub[s] # NoSub}) <= 1

(* Days that were paid for and delivered are never lost to a concurrent    *)
(* renewal, plan change or autopay of the same subscription.               *)
PaidTimeKept ==
    \A o \in done \ Topups : \E s \in Subs : sub[s] # NoSub /\ o \in sub[s].time

(* Only a change of plan resets the packs bought for a subscription: two   *)
(* packs settled by two workers are both added (purchase.py, "Lock the     *)
(* user row for EVERY fulfilment, topups included").                       *)
PacksKept ==
    [][\A s \in Subs : sub[s] # NoSub =>
         sub[s].packs \subseteq sub'[s].packs \/ sub'[s].plan # sub[s].plan]_vars

(* Overlapping autopay runs renew a subscription once per period: the one  *)
(* that commits does so while the subscription is still due.               *)
RenewedOncePerPeriod ==
    [][\A o \in Autopays : o \in done' \ done => due[target[o]]]_vars

(* Panel first: the days a row holds are on the panel already, whatever    *)
(* fails in between.                                                       *)
PanelNeverBehind ==
    \A s \in Subs : sub[s] # NoSub => panel[s] # NoSub /\ sub[s].time \subseteq panel[s].time

(* Every paid order is fulfilled in the end, also when another order of    *)
(* the same plan was settled first and took its place.                     *)
PaidIsFulfilled == \A o \in Hosted \cup Topups : pc[o] = "paid" ~> o \in done
=============================================================================
