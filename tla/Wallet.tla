------------------------------- MODULE Wallet -------------------------------
(***************************************************************************)
(* The users' wallets: every unit of work that moves users.balance_minor,  *)
(* at the granularity of the row locks PostgreSQL takes for it.            *)
(*                                                                         *)
(*   settle    a gateway payment completes: credit a top-up, reward the    *)
(*             referrer (payment.py, referral.py)                          *)
(*   spend     a purchase, renewal or paid trial from the balance          *)
(*             (purchase.py, tasks.py, cabinet.py)                         *)
(*   ask       a withdrawal request, which holds the money (withdraw.py)   *)
(*   pay, reject   an admin's answer to it (admin/withdrawals.py)          *)
(*   undeposit, unspend   refunds (admin/payments.py)                      *)
(*   adjust    an admin's manual correction (admin/users.py)               *)
(*                                                                         *)
(* A session claims the row it is about (FOR UPDATE, or a row it inserts), *)
(* then the wallet rows it updates, each held to the end of the unit of    *)
(* work.  Variables show committed data: a wallet row under lock changes   *)
(* for the others when its owner commits.                                  *)
(***************************************************************************)
EXTENDS Integers, FiniteSets, Functions

CONSTANTS
    Users,
    Referrer,        \* who invited a user, Nobody if no one did
    Rate,            \* a referrer's percentage, before the clamp
    Payments,        \* gateway payments
    Topups,          \* those that credit the wallet; the others buy directly
    Payer, Sum,      \* of each payment
    Purchases,       \* purchases from the balance
    Buyer, Price,    \* of each purchase
    Requests,        \* slots for withdrawal requests
    MinWithdrawal,   \* REFERRAL_WITHDRAWAL_MIN
    Corrections,     \* what an admin may add to a balance
    MaxCorrections,  \* bound: how many corrections a behaviour has
    Sessions,        \* concurrent units of work
    Askers,          \* those that may serve a withdrawal chat
    Nobody, NoJob

Rows == Payments \cup Purchases \cup Requests
Ops == {"settle", "spend", "ask", "pay", "reject", "undeposit", "unspend", "adjust"}
Guarded == {"spend", "ask", "undeposit"}
Jobs == [op : Ops, on : Rows \cup {Nobody}, user : Users, amt : Int]

ASSUME PeopleAssumption ==
    /\ Nobody \notin Users \cup Sessions \cup Rows
    /\ Referrer \in [Users -> Users \cup {Nobody}]
    /\ \A u \in Users : Referrer[u] # u
    /\ Rate \in [Users -> Int]
    /\ Askers \subseteq Sessions
    /\ NoJob \notin Jobs
ASSUME RowsAssumption ==
    /\ Payments \cap Purchases = {}
    /\ Payments \cap Requests = {}
    /\ Purchases \cap Requests = {}
    /\ Topups \subseteq Payments
    /\ IsFiniteSet(Rows)
ASSUME MoneyAssumption ==
    /\ Payer \in [Payments -> Users]
    /\ Sum \in [Payments -> Nat]
    /\ Buyer \in [Purchases -> Users]
    /\ Price \in [Purchases -> Nat]
    /\ MinWithdrawal \in Nat \ {0}
    /\ Corrections \subseteq Int \ {0}
    /\ MaxCorrections \in Nat

VARIABLES
    balance,           \* users.balance_minor
    payment,           \* status of each payment row
    earned,            \* commission its referral_earnings row records
    clawed,            \* what its refund took back off the wallet
    bought,            \* status of each balance purchase
    request,           \* withdrawal_requests rows
    granted, taken,    \* sums of positive and of negative corrections
    pc, job,           \* each session: step, and what it is doing
    rowLock, wallet,   \* owners of the row locks
    corrections        \* corrections left

books == <<payment, earned, clawed, bought, request>>
admin == <<granted, taken, corrections>>
vars == <<balance, books, admin, pc, job, rowLock, wallet>>

NoRequest == [user |-> Nobody, st |-> "ABSENT", amt |-> 0]
RequestRows == [user : Users, st : {"PENDING", "PAID", "REJECTED"}, amt : Nat]

TypeOK ==
    /\ balance \in [Users -> Int]
    /\ payment \in [Payments -> {"PENDING", "COMPLETED", "REFUNDED"}]
    /\ earned \in [Payments -> Nat]
    /\ clawed \in [Payments -> Nat]
    /\ bought \in [Purchases -> {"ABSENT", "COMPLETED", "REFUNDED"}]
    /\ request \in [Requests -> RequestRows \cup {NoRequest}]
    /\ granted \in [Users -> Nat]
    /\ taken \in [Users -> Nat]
    /\ corrections \in 0 .. MaxCorrections
    /\ pc \in [Sessions -> {"idle", "claimed", "held", "rewarded"}]
    /\ job \in [Sessions -> Jobs \cup {NoJob}]
    /\ rowLock \in [Rows -> Sessions \cup {Nobody}]
    /\ wallet \in [Users -> Sessions \cup {Nobody}]

Init ==
    /\ balance = [u \in Users |-> 0]
    /\ payment = [d \in Payments |-> "PENDING"]
    /\ earned = [d \in Payments |-> 0]
    /\ clawed = [d \in Payments |-> 0]
    /\ bought = [p \in Purchases |-> "ABSENT"]
    /\ request = [r \in Requests |-> NoRequest]
    /\ granted = [u \in Users |-> 0]
    /\ taken = [u \in Users |-> 0]
    /\ corrections = MaxCorrections
    /\ pc = [s \in Sessions |-> "idle"]
    /\ job = [s \in Sessions |-> NoJob]
    /\ rowLock = [x \in Rows |-> Nobody]
    /\ wallet = [u \in Users |-> Nobody]

-----------------------------------------------------------------------------
(* Sums *)

Lesser(a, b) == IF a <= b THEN a ELSE b
Greater(a, b) == IF a <= b THEN b ELSE a

(* to_integral_value rounds half to even. *)
RoundedCents(n) ==
    LET whole == n \div 100
        rest == n % 100
    IN  IF rest > 50 \/ (rest = 50 /\ whole % 2 = 1) THEN whole + 1 ELSE whole

PercentUnclamped(u) == Rate[u]                                  \* mutant
Percent(u) == Lesser(100, Greater(0, Rate[u]))

Commission(d) ==
    LET u == Referrer[Payer[d]]
    IN  IF u = Nobody THEN 0 ELSE RoundedCents(Sum[d] * Percent(u))

Credit(d) == IF d \in Topups THEN Sum[d] ELSE 0

Invited(u) == {d \in Payments : Referrer[Payer[d]] = u}
Earnings(u) == SumFunctionOnSet(earned, Invited(u))

PendingOnly == {"PENDING"}                                      \* mutant
HeldStatuses == {"PENDING", "PAID"}
Asked == [r \in Requests |-> request[r].amt]
Held(u) == SumFunctionOnSet(Asked,
               {r \in Requests : request[r].user = u /\ request[r].st \in HeldStatuses})

(* available_minor: read in a unit of work of its own, before any lock. *)
Available(u) == Greater(0, Lesser(balance[u], Earnings(u) - Held(u)))

-----------------------------------------------------------------------------
(* A unit of work starts: it locks its row and checks the status it reads *)

RowUnchecked(x) == TRUE                                         \* mutant
RowFree(x) == rowLock[x] = Nobody

Begin(s, x, u, op, amt) ==
    /\ pc[s] = "idle"
    /\ RowFree(x)
    /\ pc' = [pc EXCEPT ![s] = "claimed"]
    /\ job' = [job EXCEPT ![s] = [op |-> op, on |-> x, user |-> u, amt |-> amt]]
    /\ rowLock' = [rowLock EXCEPT ![x] = s]
    /\ UNCHANGED <<balance, books, admin, wallet>>

(* PaymentService.process on a completed report. *)
BeginSettle(s, d) ==
    /\ payment[d] = "PENDING"
    /\ Begin(s, d, Payer[d], "settle", Credit(d))

(* checkout_from_balance, _autopay_one, activate_trial: the row is new. *)
BeginSpend(s, p) ==
    /\ bought[p] = "ABSENT"
    /\ Begin(s, p, Buyer[p], "spend", Price[p])

(* take_details *)
BeginAsk(s, r, u) ==
    /\ s \in Askers
    /\ request[r] = NoRequest
    /\ \E amt \in MinWithdrawal .. balance[u] :
         amt = Available(u) /\ Begin(s, r, u, "ask", amt)

(* process_withdrawal, with the status an admin picked. *)
BeginProcess(s, r, verdict) ==
    /\ request[r].st = "PENDING"
    /\ Begin(s, r, request[r].user, verdict, request[r].amt)

(* refund_payment, its two cases that touch the wallet. *)
BeginUndeposit(s, d) ==
    /\ d \in Topups
    /\ payment[d] = "COMPLETED"
    /\ Begin(s, d, Payer[d], "undeposit", Sum[d])

BeginUnspend(s, p) ==
    /\ bought[p] = "COMPLETED"
    /\ Begin(s, p, Buyer[p], "unspend", Price[p])

(* change_balance: no row but the wallet. *)
BeginAdjust(s, u, amt) ==
    /\ pc[s] = "idle"
    /\ corrections > 0
    /\ corrections' = corrections - 1
    /\ pc' = [pc EXCEPT ![s] = "claimed"]
    /\ job' = [job EXCEPT ![s] = [op |-> "adjust", on |-> Nobody, user |-> u, amt |-> amt]]
    /\ UNCHANGED <<balance, books, granted, taken, rowLock, wallet>>

-----------------------------------------------------------------------------
(* The wallet rows *)

AlwaysAffordable(u, amt) == TRUE                                \* mutant
Affordable(u, amt) == balance[u] >= amt

(* UPDATE users SET balance_minor = ...: waits for the row's owner, then   *)
(* a guarded debit evaluates its WHERE on what that owner committed.       *)
Hold(s) ==
    /\ pc[s] = "claimed"
    /\ job[s].op # "pay"
    /\ wallet[job[s].user] = Nobody
    /\ job[s].op \in Guarded => Affordable(job[s].user, job[s].amt)
    /\ wallet' = [wallet EXCEPT ![job[s].user] = s]
    /\ pc' = [pc EXCEPT ![s] = "held"]
    /\ UNCHANGED <<balance, books, admin, job, rowLock>>

(* What a refund takes when the wallet does not cover it.                  *)
ClawNothing(u) == 0

(* The guarded UPDATE matched no row: a refund goes on without the money. *)
RefundWithoutClaw(s) ==
    /\ pc[s] = "claimed"
    /\ job[s].op = "undeposit"
    /\ ~Affordable(job[s].user, job[s].amt)
    /\ job' = [job EXCEPT ![s].amt = ClawNothing(job[s].user)]
    /\ pc' = [pc EXCEPT ![s] = "held"]
    /\ UNCHANGED <<balance, books, admin, rowLock, wallet>>

RewardDue(s) ==
    /\ job[s].op = "settle"
    /\ earned[job[s].on] = 0
    /\ Commission(job[s].on) > 0

(* reward_on_topup updates the referrer's wallet under the payer's lock. *)
Reward(s) ==
    /\ pc[s] = "held"
    /\ RewardDue(s)
    /\ wallet[Referrer[job[s].user]] = Nobody
    /\ wallet' = [wallet EXCEPT ![Referrer[job[s].user]] = s]
    /\ pc' = [pc EXCEPT ![s] = "rewarded"]
    /\ UNCHANGED <<balance, books, admin, job, rowLock>>

-----------------------------------------------------------------------------
(* A unit of work ends: commit or roll back, and let go of every lock *)

KeepWallets(s) == wallet' = wallet                              \* mutant
LetGoWallets(s) ==
    wallet' = [u \in Users |-> IF wallet[u] = s THEN Nobody ELSE wallet[u]]

Release(s) ==
    /\ pc' = [pc EXCEPT ![s] = "idle"]
    /\ job' = [job EXCEPT ![s] = NoJob]
    /\ rowLock' = [x \in Rows |-> IF rowLock[x] = s THEN Nobody ELSE rowLock[x]]
    /\ LetGoWallets(s)

CommitSettle(s) ==
    LET d == job[s].on
        reward == IF pc[s] = "rewarded" THEN Commission(d) ELSE 0
    IN  /\ pc[s] = "rewarded" \/ (pc[s] = "held" /\ ~RewardDue(s))
        /\ job[s].op = "settle"
        /\ payment' = [payment EXCEPT ![d] = "COMPLETED"]
        /\ earned' = [earned EXCEPT ![d] = @ + reward]
        /\ balance' = [u \in Users |->
                         IF u = job[s].user THEN balance[u] + job[s].amt
                         ELSE IF u = Referrer[job[s].user] THEN balance[u] + reward
                         ELSE balance[u]]
        /\ Release(s)
        /\ UNCHANGED <<clawed, bought, request, admin>>

CommitSpend(s) ==
    /\ pc[s] = "held"
    /\ job[s].op = "spend"
    /\ bought' = [bought EXCEPT ![job[s].on] = "COMPLETED"]
    /\ balance' = [balance EXCEPT ![job[s].user] = @ - job[s].amt]
    /\ Release(s)
    /\ UNCHANGED <<payment, earned, clawed, request, admin>>

CommitAsk(s) ==
    /\ pc[s] = "held"
    /\ job[s].op = "ask"
    /\ request' = [request EXCEPT ![job[s].on] =
                     [user |-> job[s].user, st |-> "PENDING", amt |-> job[s].amt]]
    /\ balance' = [balance EXCEPT ![job[s].user] = @ - job[s].amt]
    /\ Release(s)
    /\ UNCHANGED <<payment, earned, clawed, bought, admin>>

CommitPay(s) ==
    /\ pc[s] = "claimed"
    /\ job[s].op = "pay"
    /\ request' = [request EXCEPT ![job[s].on].st = "PAID"]
    /\ Release(s)
    /\ UNCHANGED <<balance, payment, earned, clawed, bought, admin>>

CommitReject(s) ==
    /\ pc[s] = "held"
    /\ job[s].op = "reject"
    /\ request' = [request EXCEPT ![job[s].on].st = "REJECTED"]
    /\ balance' = [balance EXCEPT ![job[s].user] = @ + job[s].amt]
    /\ Release(s)
    /\ UNCHANGED <<payment, earned, clawed, bought, admin>>

CommitUndeposit(s) ==
    /\ pc[s] = "held"
    /\ job[s].op = "undeposit"
    /\ payment' = [payment EXCEPT ![job[s].on] = "REFUNDED"]
    /\ clawed' = [clawed EXCEPT ![job[s].on] = job[s].amt]
    /\ balance' = [balance EXCEPT ![job[s].user] = @ - job[s].amt]
    /\ Release(s)
    /\ UNCHANGED <<earned, bought, request, admin>>

CommitUnspend(s) ==
    /\ pc[s] = "held"
    /\ job[s].op = "unspend"
    /\ bought' = [bought EXCEPT ![job[s].on] = "REFUNDED"]
    /\ balance' = [balance EXCEPT ![job[s].user] = @ + job[s].amt]
    /\ Release(s)
    /\ UNCHANGED <<payment, earned, clawed, request, admin>>

CommitAdjust(s) ==
    LET u == job[s].user
        amt == job[s].amt
    IN  /\ pc[s] = "held"
        /\ job[s].op = "adjust"
        /\ balance' = [balance EXCEPT ![u] = @ + amt]
        /\ granted' = [granted EXCEPT ![u] = IF amt > 0 THEN @ + amt ELSE @]
        /\ taken' = [taken EXCEPT ![u] = IF amt < 0 THEN @ - amt ELSE @]
        /\ Release(s)
        /\ UNCHANGED <<books, corrections>>

Commit(s) ==
    \/ CommitSettle(s)
    \/ CommitSpend(s)
    \/ CommitAsk(s)
    \/ CommitPay(s)
    \/ CommitReject(s)
    \/ CommitUndeposit(s)
    \/ CommitUnspend(s)
    \/ CommitAdjust(s)

(* InsufficientBalance, "balance changed, try again". *)
GiveUp(s) ==
    /\ pc[s] = "claimed"
    /\ job[s].op \in {"spend", "ask"}
    /\ ~Affordable(job[s].user, job[s].amt)
    /\ Release(s)
    /\ UNCHANGED <<balance, books, admin>>

(* The panel or the database fails, or the process dies. *)
Rollback(s) ==
    /\ pc[s] # "idle"
    /\ Release(s)
    /\ UNCHANGED <<balance, books, admin>>

(* What a session waits for: Nobody, or the owner of the wallet it wants. *)
WaitsFor(s) ==
    CASE pc[s] = "claimed" /\ job[s].op # "pay" -> wallet[job[s].user]
      [] pc[s] = "held" /\ RewardDue(s) -> wallet[Referrer[job[s].user]]
      [] OTHER -> Nobody

Deadlocked(s) ==
    \E ring \in SUBSET Sessions :
        /\ s \in ring
        /\ ring = {WaitsFor(t) : t \in ring}

(* PostgreSQL breaks a ring of waiting sessions: one of them fails. *)
DeadlockVictim(s) == Deadlocked(s) /\ Rollback(s)

-----------------------------------------------------------------------------
Work(s) ==
    \/ Hold(s)
    \/ RefundWithoutClaw(s)
    \/ Reward(s)
    \/ Commit(s)
    \/ GiveUp(s)

BeginAny(s) ==
    \/ \E d \in Payments : BeginSettle(s, d) \/ BeginUndeposit(s, d)
    \/ \E p \in Purchases : BeginSpend(s, p) \/ BeginUnspend(s, p)
    \/ \E r \in Requests :
         \/ \E u \in Users : BeginAsk(s, r, u)
         \/ \E verdict \in {"pay", "reject"} : BeginProcess(s, r, verdict)
    \/ \E u \in Users, amt \in Corrections : BeginAdjust(s, u, amt)

Next == \E s \in Sessions : BeginAny(s) \/ Work(s) \/ Rollback(s)

Spec == Init /\ [][Next]_vars

(* A waiter queues for the row, so a lock let go again and again reaches   *)
(* it; the deadlock detector picks a victim in the end.                    *)
Fairness ==
    /\ \A s \in Sessions : SF_vars(Work(s))
    /\ WF_vars(\E s \in Sessions : DeadlockVictim(s))

FairSpec == Spec /\ Fairness

-----------------------------------------------------------------------------
(* Properties *)

Brought == [d \in Payments |-> Sum[d] - clawed[d]]
Settled(u) == {d \in Topups : Payer[d] = u /\ payment[d] # "PENDING"}
Kept(u) == {p \in Purchases : Buyer[p] = u /\ bought[p] = "COMPLETED"}
Reserved(u) == {r \in Requests : request[r].user = u /\ request[r].st # "REJECTED"}

(* A wallet holds exactly what its rows say: top-ups less what refunds     *)
(* took back, commissions earned, corrections, less purchases kept and     *)
(* withdrawals pending or paid.  No lost update, no double or missing      *)
(* entry, whatever interleaves.                                            *)
LedgerReconciles ==
    \A u \in Users :
        balance[u] = SumFunctionOnSet(Brought, Settled(u))
                     + Earnings(u) + granted[u] - taken[u]
                     - SumFunctionOnSet(Price, Kept(u))
                     - SumFunctionOnSet(Asked, Reserved(u))

(* Purchases, withdrawals and refunds never drive a wallet below zero:     *)
(* only an admin's own debit can (debit_balance_guarded).                  *)
NeverOverdrawn == \A u \in Users : balance[u] + taken[u] >= 0

(* An answered withdrawal request is closed: no second admin pays it again *)
(* or returns its money again (process_withdrawal).                        *)
AnsweredOnce ==
    [][\A r \in Requests :
         request[r].st \in {"PAID", "REJECTED"} => request'[r] = request[r]]_vars

(* The shop never pays a referrer more than the invited users brought in,  *)
(* whatever percentage an owner typed (the clamp of reward_on_topup).      *)
RewardWithinPayment ==
    \A d \in Payments :
        earned[d] <= IF payment[d] = "PENDING" THEN 0 ELSE Sum[d]

(* What is withdrawn or reserved never exceeds what referrals earned       *)
(* (available_minor).                                                      *)
HoldsWithinEarnings ==
    \A u \in Users :
        SumFunctionOnSet(Asked, Reserved(u)) <= Earnings(u)

(* Every unit of work ends, also when two settlements of users who invited *)
(* each other wait for one another's wallet.                               *)
EverySessionEnds == \A s \in Sessions : pc[s] # "idle" ~> pc[s] = "idle"
=============================================================================
