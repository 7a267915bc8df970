-------------------------- MODULE PaymentPipeline --------------------------
(***************************************************************************)
(* From the provider's webhook to value delivered: the webhook route       *)
(* (web/routes/payments.py) enqueues a job, taskiq workers (tasks.py,      *)
(* broker.py) settle it through PaymentService.process, and whatever that  *)
(* path loses is recovered by the minute sweep and by the buyer's "check   *)
(* payment" button, both of which poll the provider.  Refunds              *)
(* (web/routes/admin/payments.py) close the life of a row.                 *)
(*                                                                         *)
(* One database row per invoice, read and written under its row lock: an   *)
(* actor that holds the lock works on uncommitted data, which a failure or *)
(* a crash rolls back; what it did to the panel stays.                     *)
(***************************************************************************)
EXTENDS Integers, Sequences, FiniteSets

CONSTANTS
    Payments,        \* invoices
    Deposits,        \* those that top up a wallet; the others buy a subscription
    Pollable,        \* those of a gateway that overrides fetch_status
    Editable,        \* those whose payer can edit the sum (quickpay forms)
    Retryable,       \* those whose provider takes money after a declined attempt
    Invoice,         \* the sum quoted, in minor units
    Received,        \* sums a payer can make the provider take
    NoAmount,        \* a report without a comparable amount
    Workers,         \* taskiq worker slots
    Sweeps,          \* reconcile_pending_payments runs (overlap is allowed)
    Checks,          \* "check payment" callbacks of the bot
    Admins,          \* refund requests being served
    Nobody, NoJob,
    MaxAttempts,     \* len(PROCESS_BACKOFF) + 1 tries inside one task run
    MaxRuns,         \* max_retries: runs of a task before taskiq drops it
    MaxFaults,       \* bound: failures the environment injects in a behaviour
    MayCrash         \* whether a process may die between two steps

Actors == Workers \cup Sweeps \cup Checks \cup Admins

Statuses == {"ABSENT", "PENDING", "COMPLETED", "FAILED", "CANCELED", "REFUNDED"}
Reports == [pay : Payments, st : {"COMPLETED", "CANCELED"},
            amt : Received \cup {Invoice, NoAmount}]
Jobs == [pay : Payments, st : {"COMPLETED", "CANCELED"},
         amt : Received \cup {Invoice, NoAmount}, run : 1 .. MaxRuns]

(* created_at buckets: under 90s, up to 23h, up to 24h, older *)
Young == 1
Swept == 2
Closing == 3
Expired == 4

ASSUME AmountsAssumption ==
    /\ Invoice \in Nat \ {0}
    /\ Received \subseteq Nat \ {0}
    /\ NoAmount \notin Nat
ASSUME KindsAssumption ==
    Deposits \cup Pollable \cup Editable \cup Retryable \subseteq Payments
ASSUME ActorsAssumption ==
    /\ Nobody \notin Actors
    /\ NoJob \notin Jobs
    /\ Workers \cap (Sweeps \cup Checks \cup Admins) = {}
    /\ Admins \cap (Sweeps \cup Checks) = {}
    /\ Sweeps \cap Checks = {}
ASSUME BoundsAssumption ==
    /\ MaxAttempts \in Nat \ {0}
    /\ MaxRuns \in Nat \ {0}
    /\ MaxFaults \in Nat
    /\ MayCrash \in BOOLEAN

VARIABLES
    status, amount, canonical,    \* the transaction row (committed)
    age,                          \* bucket of its created_at
    effect, commission,           \* committed: value delivered, commission base
    panel,                        \* panel writes made for it (never rolled back)
    told,                         \* what the buyer was told by DM
    alerted,                      \* dead-lettered: whether the admins heard of it
    refunds,                      \* provider refund calls that went through
    prov, charge,                 \* the provider: state and money it took
    notices,                      \* webhooks the provider still redelivers
    queue,                        \* the broker's Redis list
    pc, hand, attempt,            \* each actor: step, job in hand, in-task try
    lock,                         \* owner of each row lock
    faults                        \* failures left to inject

rowVars == <<status, amount, canonical, age>>
effectVars == <<effect, commission, panel, told, alerted, refunds>>
provVars == <<prov, charge>>
actorVars == <<pc, hand, attempt, lock>>
vars == <<rowVars, effectVars, provVars, notices, queue, actorVars, faults>>

TypeOK ==
    /\ status \in [Payments -> Statuses]
    /\ amount \in [Payments -> Received \cup {Invoice}]
    /\ canonical \in [Payments -> BOOLEAN]
    /\ age \in [Payments -> Young .. Expired]
    /\ effect \in [Payments -> Nat]
    /\ commission \in [Payments -> Nat]
    /\ panel \in [Payments -> Nat]
    /\ told \in [Payments -> {"nothing", "paid", "rejected"}]
    /\ alerted \in [Payments -> {"no", "sent", "lost"}]
    /\ refunds \in [Payments -> Nat]
    /\ prov \in [Payments -> {"open", "declined", "closed", "paid"}]
    /\ charge \in [Payments -> Received \cup {0, Invoice}]
    /\ notices \subseteq Reports
    /\ queue \in Seq(Jobs)
    /\ pc \in [Actors -> {"idle", "start", "locked", "served", "settled", "refunding"}]
    /\ hand \in [Actors -> Jobs \cup {NoJob}]
    /\ attempt \in [Actors -> 1 .. MaxAttempts]
    /\ lock \in [Payments -> Actors \cup {Nobody}]
    /\ faults \in 0 .. MaxFaults

Init ==
    /\ status = [p \in Payments |-> "ABSENT"]
    /\ amount = [p \in Payments |-> Invoice]
    /\ canonical = [p \in Payments |-> FALSE]
    /\ age = [p \in Payments |-> Young]
    /\ effect = [p \in Payments |-> 0]
    /\ commission = [p \in Payments |-> 0]
    /\ panel = [p \in Payments |-> 0]
    /\ told = [p \in Payments |-> "nothing"]
    /\ alerted = [p \in Payments |-> "no"]
    /\ refunds = [p \in Payments |-> 0]
    /\ prov = [p \in Payments |-> "open"]
    /\ charge = [p \in Payments |-> 0]
    /\ notices = {}
    /\ queue = <<>>
    /\ pc = [a \in Actors |-> "idle"]
    /\ hand = [a \in Actors |-> NoJob]
    /\ attempt = [a \in Actors |-> 1]
    /\ lock = [p \in Payments |-> Nobody]
    /\ faults = MaxFaults

-----------------------------------------------------------------------------
(* The shop's checkout and the world outside *)

(* _pay_with_gateway: row, provider invoice and external id, one commit. *)
Checkout(p) ==
    /\ status[p] = "ABSENT"
    /\ status' = [status EXCEPT ![p] = "PENDING"]
    /\ UNCHANGED <<amount, canonical, age, effectVars, provVars, notices, queue,
                   actorVars, faults>>

(* created_at recedes; it matters only while the row waits for a sweep. *)
GrowOld(p) ==
    /\ p \in Pollable
    /\ status[p] = "PENDING"
    /\ age[p] < Expired
    /\ age' = [age EXCEPT ![p] = @ + 1]
    /\ UNCHANGED <<status, amount, canonical, effectVars, provVars, notices, queue,
                   actorVars, faults>>

(* What a payer can make the provider take, and how it is reported: an     *)
(* editable form reports the sum; other gateways charge the invoice and    *)
(* may report it in another currency, or not at all.                       *)
Chargeable(p) == IF p \in Editable THEN Received ELSE {Invoice}
Reported(p, c) == IF p \in Editable THEN {c} ELSE {c, NoAmount}

ProviderCharge(p, c) ==
    /\ status[p] # "ABSENT"
    /\ prov[p] \in {"open", "declined"}
    /\ c \in Chargeable(p)
    /\ prov' = [prov EXCEPT ![p] = "paid"]
    /\ charge' = [charge EXCEPT ![p] = c]
    /\ \E amt \in Reported(p, c) :
          notices' = notices \cup {[pay |-> p, st |-> "COMPLETED", amt |-> amt]}
    /\ UNCHANGED <<rowVars, effectVars, queue, actorVars, faults>>

(* An expired or declined invoice; some providers let the payer try again. *)
ProviderDecline(p) ==
    /\ status[p] # "ABSENT"
    /\ prov[p] = "open"
    /\ prov' = [prov EXCEPT ![p] = IF p \in Retryable THEN "declined" ELSE "closed"]
    /\ notices' = notices \cup {[pay |-> p, st |-> "CANCELED", amt |-> NoAmount]}
    /\ UNCHANGED <<rowVars, charge, effectVars, queue, actorVars, faults>>
-----------------------------------------------------------------------------
(* payment_webhook: a verified notice, already resolved to its row *)

Fault == faults > 0 /\ faults' = faults - 1

(* mutant: the create-time id is kept *)
KeepExternalId(n) == UNCHANGED canonical

(* A completed notice first persists the provider's canonical id. *)
PersistExternalId(n) ==
    canonical' = [canonical EXCEPT ![n.pay] = @ \/ n.st = "COMPLETED"]

(* kiq, then 200: the provider forgets the notice, unless the answer is lost. *)
WebhookEnqueue(n) ==
    /\ PersistExternalId(n)
    /\ queue' = Append(queue, [pay |-> n.pay, st |-> n.st, amt |-> n.amt, run |-> 1])
    /\ \/ notices' = notices \ {n} /\ UNCHANGED faults
       \/ Fault /\ UNCHANGED notices
    /\ UNCHANGED <<status, amount, age, effectVars, provVars, actorVars>>

(* mutant: always defer to the sweep *)
AckWithoutCheck(p) == TRUE

(* The sweep will visit this row: pollable, and at most 23h old. *)
ReconcilerCovers(p) == p \in Pollable /\ age[p] < Closing

(* Every enqueue try failed: ack only what the sweep covers, else 503. *)
WebhookEnqueueFails(n) ==
    /\ Fault
    /\ PersistExternalId(n)
    /\ notices' = IF ReconcilerCovers(n.pay) THEN notices \ {n} ELSE notices
    /\ UNCHANGED <<status, amount, age, effectVars, provVars, queue, actorVars>>

-----------------------------------------------------------------------------
(* Who brings a job to PaymentService.process *)

Idle(a) == pc[a] = "idle"

(* The job is off the Redis list before it is run: acked on pickup. *)
Pickup(w) ==
    /\ Idle(w)
    /\ queue # <<>>
    /\ hand' = [hand EXCEPT ![w] = Head(queue)]
    /\ queue' = Tail(queue)
    /\ attempt' = [attempt EXCEPT ![w] = 1]
    /\ pc' = [pc EXCEPT ![w] = "start"]
    /\ UNCHANGED <<rowVars, effectVars, provVars, notices, lock, faults>>

(* mutant: only the tail of the window is listed *)
StuckTail(p) == status[p] = "PENDING" /\ p \in Pollable /\ age[p] = Closing

(* list_stuck_pending, restricted to gateways that answer polls *)
Stuck(p) == status[p] = "PENDING" /\ p \in Pollable /\ age[p] \in Swept .. Closing

(* fetch_status: the provider's verdict, with the sum when it is comparable *)
Polled(p) ==
    IF prov[p] = "paid"
    THEN {[pay |-> p, st |-> "COMPLETED", amt |-> amt, run |-> 1] :
             amt \in Reported(p, charge[p])}
    ELSE {[pay |-> p, st |-> "CANCELED", amt |-> NoAmount, run |-> 1]}

Poll(a, p) ==
    /\ Idle(a)
    /\ prov[p] # "open"
    /\ \E j \in Polled(p) : hand' = [hand EXCEPT ![a] = j]
    /\ pc' = [pc EXCEPT ![a] = "start"]
    /\ UNCHANGED <<rowVars, effectVars, provVars, notices, queue, attempt, lock, faults>>

SweepPoll(a, p) == Stuck(p) /\ Poll(a, p)
CheckPoll(a, p) == status[p] = "PENDING" /\ p \in Pollable /\ Poll(a, p)

-----------------------------------------------------------------------------
(* PaymentService.process, and the commit around it *)

Pay(a) == hand[a].pay

(* The underpayment gate: 95% of the quoted sum. *)
Outcome(j, invoice) ==
    IF j.st = "COMPLETED" /\ j.amt # NoAmount /\ 100 * j.amt < 95 * invoice
    THEN "FAILED" ELSE j.st

(* mutant: no sanity cap on the reported sum *)
SettledAmountUncapped(j, invoice) ==
    IF j.amt # NoAmount /\ 100 * j.amt > 105 * invoice THEN j.amt ELSE invoice

(* Overpaid up to 2x: credit what arrived; beyond that only the invoice.   *)
(* Exactly 2x is still credited in full (`>` in process), although the     *)
(* comment over OVERPAYMENT_CAP_RATIO says "AT or above 2x".               *)
SettledAmount(j, invoice) ==
    IF j.amt # NoAmount /\ 100 * j.amt > 105 * invoice /\ j.amt <= 2 * invoice
    THEN j.amt ELSE invoice

(* lock_for_update waits for the row lock. *)
Lock(a) ==
    /\ pc[a] = "start"
    /\ lock[Pay(a)] = Nobody
    /\ lock' = [lock EXCEPT ![Pay(a)] = a]
    /\ pc' = [pc EXCEPT ![a] = "locked"]
    /\ UNCHANGED <<rowVars, effectVars, provVars, notices, queue, hand, attempt, faults>>

Unlock(a) == lock' = [p \in Payments |-> IF lock[p] = a THEN Nobody ELSE lock[p]]

Finish(a) == /\ pc' = [pc EXCEPT ![a] = "idle"]
             /\ hand' = [hand EXCEPT ![a] = NoJob]
             /\ UNCHANGED attempt

(* mutant: update without allowed_from *)
ClaimUnconditional(p) == status[p] # "ABSENT"

(* transition_status: the compare-and-set is allowed from PENDING only. *)
Claim(p) == status[p] = "PENDING"

(* Already terminal: process returns False and the job is done. *)
Duplicate(a) ==
    /\ pc[a] = "locked"
    /\ ~Claim(Pay(a))
    /\ Unlock(a)
    /\ Finish(a)
    /\ UNCHANGED <<rowVars, effectVars, provVars, notices, queue, faults>>

(* A negative outcome, or an underpayment: commit the terminal status. *)
Reject(a) ==
    /\ pc[a] = "locked"
    /\ Claim(Pay(a))
    /\ Outcome(hand[a], amount[Pay(a)]) # "COMPLETED"
    /\ status' = [status EXCEPT ![Pay(a)] = Outcome(hand[a], amount[Pay(a)])]
    /\ Unlock(a)
    /\ pc' = [pc EXCEPT ![a] = "settled"]
    /\ UNCHANGED <<amount, canonical, age, effectVars, provVars, notices, queue, hand,
                   attempt, faults>>

PanelWrite(p) == panel' = IF p \in Deposits THEN panel ELSE [panel EXCEPT ![p] = @ + 1]

(* _fulfill, up to its last external call: a subscription is written to    *)
(* the panel before anything is committed.                                 *)
Fulfill(a) ==
    /\ pc[a] = "locked"
    /\ Claim(Pay(a))
    /\ Outcome(hand[a], amount[Pay(a)]) = "COMPLETED"
    /\ PanelWrite(Pay(a))
    /\ pc' = [pc EXCEPT ![a] = "served"]
    /\ UNCHANGED <<rowVars, effect, commission, told, alerted, refunds, provVars,
                   notices, queue, hand, attempt, lock, faults>>

(* One commit: status, settled sum, wallet credit or subscription, and the *)
(* referral commission on the money that entered.                          *)
Commit(a) ==
    LET p == Pay(a)
        settled == SettledAmount(hand[a], amount[p])
    IN  /\ pc[a] = "served"
        /\ status' = [status EXCEPT ![p] = "COMPLETED"]
        /\ amount' = [amount EXCEPT ![p] = settled]
        /\ effect' = [effect EXCEPT ![p] = @ + settled]
        /\ commission' = [commission EXCEPT ![p] = @ + settled]
        /\ Unlock(a)
        /\ pc' = [pc EXCEPT ![a] = "settled"]
        /\ UNCHANGED <<canonical, age, panel, told, alerted, refunds, provVars, notices,
                       queue, hand, attempt, faults>>

(* mutant: trust the inbound status string *)
MessageFromInbound(j, st) == IF j.st = "COMPLETED" THEN "paid" ELSE "rejected"

(* The DM follows the row as read back, not the inbound report. *)
Message(j, st) == CASE st = "COMPLETED" -> "paid"
                    [] st \in {"FAILED", "CANCELED"} -> "rejected"
                    [] OTHER -> "nothing"

(* After the commit: tell the buyer (a check answers with a popup instead). *)
AfterSettled(a) ==
    /\ pc[a] = "settled"
    /\ told' = IF a \in Checks \/ Message(hand[a], status[Pay(a)]) = "nothing" THEN told
               ELSE [told EXCEPT ![Pay(a)] = Message(hand[a], status[Pay(a)])]
    /\ Finish(a)
    /\ UNCHANGED <<rowVars, effect, commission, panel, alerted, refunds, provVars,
                   notices, queue, lock, faults>>
-----------------------------------------------------------------------------
(* Failures.  Leaving the unit of work rolls back and frees the row lock.  *)

(* SimpleRetryMiddleware: re-kick while _retries + 1 < max_retries *)
LastRun(j) == j.run = MaxRuns

(* One try per pause of PROCESS_BACKOFF, and a last one. *)
TriesLeft(w) == attempt[w] < MaxAttempts

(* A worker's transient error: sleep and try again in the task, then let   *)
(* taskiq put the task back on the list, then drop it.                     *)
TransientError(w) ==
    /\ pc[w] \in {"start", "locked", "served"}
    /\ Fault
    /\ Unlock(w)
    /\ \/ /\ TriesLeft(w)
          /\ attempt' = [attempt EXCEPT ![w] = @ + 1]
          /\ pc' = [pc EXCEPT ![w] = "start"]
          /\ UNCHANGED <<hand, queue>>
       \/ /\ ~TriesLeft(w)
          /\ queue' = IF LastRun(hand[w]) THEN queue
                      ELSE Append(queue, [hand[w] EXCEPT !.run = @ + 1])
          /\ Finish(w)
    /\ UNCHANGED <<rowVars, effectVars, provVars, notices>>

(* An error after the commit re-runs the whole task. *)
AfterFails(w) ==
    /\ pc[w] = "settled"
    /\ Fault
    /\ queue' = IF LastRun(hand[w]) THEN queue
                ELSE Append(queue, [hand[w] EXCEPT !.run = @ + 1])
    /\ Finish(w)
    /\ UNCHANGED <<rowVars, effectVars, provVars, notices, lock>>

(* What the admins have heard of a payment after one more dead letter: its *)
(* 24h key is set before the message, so a later one may be muted by an    *)
(* earlier one that was lost.                                              *)
Heard(was, now) == CASE was = "no"   -> {now}
                     [] was = "lost" -> {"lost", now}
                     [] was = "sent" -> {"sent"}

(* A domain error is dead-lettered: the row stays and the admins are sent  *)
(* one alert, whose own failure (a second one) is suppressed.              *)
DeadLetter(w) ==
    /\ pc[w] \in {"locked", "served"}
    /\ \E lost \in {0, 1} :
          /\ lost < faults
          /\ faults' = faults - 1 - lost
          /\ \E heard \in Heard(alerted[Pay(w)], IF lost = 0 THEN "sent" ELSE "lost") :
                alerted' = [alerted EXCEPT ![Pay(w)] = heard]
    /\ Unlock(w)
    /\ Finish(w)
    /\ UNCHANGED <<rowVars, effect, commission, panel, told, refunds, provVars, notices,
                   queue>>

(* The pollers log any error and go on; the row is polled again later. *)
PollerFails(a) ==
    /\ pc[a] \in {"start", "locked", "served", "settled"}
    /\ Fault
    /\ Unlock(a)
    /\ Finish(a)
    /\ UNCHANGED <<rowVars, effectVars, provVars, notices, queue>>

(* The process dies: its database session is rolled back, its job is gone. *)
Crash(a) ==
    /\ MayCrash
    /\ ~Idle(a)
    /\ Fault
    /\ Unlock(a)
    /\ Finish(a)
    /\ UNCHANGED <<rowVars, effectVars, provVars, notices, queue>>

-----------------------------------------------------------------------------
(* refund_payment *)

(* mutant: any settled row can be refunded *)
CanRefundSettled(p) == status[p] \notin {"ABSENT", "PENDING"}

CanRefund(p) == status[p] = "COMPLETED"

(* FOR UPDATE on the row, then the provider's refund API if it has one,    *)
(* while nothing is committed.                                             *)
RefundCall(a, p) ==
    /\ Idle(a)
    /\ lock[p] = Nobody
    /\ CanRefund(p)
    /\ lock' = [lock EXCEPT ![p] = a]
    /\ \E api \in {0, 1} : refunds' = [refunds EXCEPT ![p] = @ + api]
    /\ hand' = [hand EXCEPT ![a] = [pay |-> p, st |-> "COMPLETED", amt |-> NoAmount,
                                     run |-> 1]]
    /\ pc' = [pc EXCEPT ![a] = "refunding"]
    /\ UNCHANGED <<rowVars, effect, commission, panel, told, alerted, provVars, notices,
                   queue, attempt, faults>>

RefundCommit(a) ==
    /\ pc[a] = "refunding"
    /\ status' = [status EXCEPT ![Pay(a)] = "REFUNDED"]
    /\ Unlock(a)
    /\ Finish(a)
    /\ UNCHANGED <<amount, canonical, age, effectVars, provVars, notices, queue, faults>>

-----------------------------------------------------------------------------
Outside(p) == \/ Checkout(p) \/ GrowOld(p) \/ ProviderDecline(p)
              \/ \E c \in Chargeable(p) : ProviderCharge(p, c)

Webhook == \E n \in notices : WebhookEnqueue(n) \/ WebhookEnqueueFails(n)

Process(a) == Lock(a) \/ Duplicate(a) \/ Reject(a) \/ Fulfill(a) \/ Commit(a)
                      \/ AfterSettled(a)

Next ==
    \/ \E p \in Payments : Outside(p)
    \/ Webhook
    \/ \E a \in Actors : Process(a) \/ Crash(a)
    \/ \E w \in Workers : Pickup(w) \/ TransientError(w) \/ AfterFails(w) \/ DeadLetter(w)
    \/ \E a \in Sweeps \cup Checks : PollerFails(a)
    \/ \E p \in Payments :
          \/ \E a \in Sweeps : SweepPoll(a, p)
          \/ \E a \in Checks : CheckPoll(a, p)
          \/ \E a \in Admins : RefundCall(a, p)
    \/ \E a \in Admins : RefundCommit(a)

Spec == Init /\ [][Next]_vars
-----------------------------------------------------------------------------
(* Fairness: webhooks are redelivered until acknowledged, the broker hands *)
(* out its list, a started settlement goes on, Postgres grants a row lock  *)
(* to its waiters in turn, 90 seconds pass, and every sweep walks the      *)
(* whole page of stuck rows.  Buyers' checks, refunds and failures are     *)
(* owed nothing.                                                           *)
Fairness ==
    /\ \A n \in Reports : WF_vars(n \in notices /\ WebhookEnqueue(n))
    /\ \A w \in Workers : WF_vars(Pickup(w))
    /\ \A a \in Actors : /\ SF_vars(Lock(a))
                         /\ WF_vars(Process(a) \/ RefundCommit(a))
    /\ \A p \in Pollable : /\ WF_vars(age[p] = Young /\ GrowOld(p))
                           /\ SF_vars(\E a \in Sweeps : SweepPoll(a, p))

FairSpec == Spec /\ Fairness

-----------------------------------------------------------------------------
(* Properties *)

S == INSTANCE Settlement WITH value <- effect

Covers(c) == S!Covers(c)
Worth(c) == S!Worth(c)

(* Every step of webhooks, workers, pollers and refunds is a step of the   *)
(* settlement promise or changes nothing it sees: no interleaving credits  *)
(* twice, for the wrong sum, or closes an invoice that was paid.           *)
ImplementsSettlement == S!Spec

(* Wallet credit (or subscription value) and the base of the referral      *)
(* commission agree with the row's status and settled sum, and come from   *)
(* money the provider took that covers the invoice (payment.py process);   *)
(* at exactly twice the invoice that is all of it: line 114 decides with   *)
(* ">", against the "AT or above 2x" of the comment at 73.                 *)
EffectMatchesRow ==
    \A p \in Payments :
        /\ effect[p] = commission[p]
        /\ IF status[p] \in {"COMPLETED", "REFUNDED"}
           THEN /\ prov[p] = "paid" /\ Covers(charge[p])
                /\ effect[p] = amount[p] /\ amount[p] = Worth(charge[p])
           ELSE effect[p] = 0 /\ amount[p] = Invoice

(* The buyer is told "paid" only about a row that did complete, although   *)
(* the worker that tells him was handed an inbound "completed"             *)
(* (tasks.py process_payment: underpaid reports complete as FAILED).       *)
BuyerToldTheTruth ==
    \A p \in Payments :
        /\ told[p] = "paid" => status[p] \in {"COMPLETED", "REFUNDED"}
        /\ told[p] = "rejected" => status[p] \in {"FAILED", "CANCELED"}

(* A payment settled by webhook carries the provider's canonical id, which *)
(* a refund needs, even though that id is saved by another process.        *)
RefundTargetsCharge ==
    \A p \in Payments \ Pollable :
        status[p] \in {"COMPLETED", "REFUNDED"} => canonical[p]

Carried(p) ==
    \/ \E n \in notices : n.pay = p /\ n.st = "COMPLETED"
    \/ \E i \in 1 .. Len(queue) : queue[i].pay = p /\ queue[i].st = "COMPLETED"
    \/ \E a \in Actors \ Admins : hand[a] # NoJob /\ hand[a].pay = p
                                             /\ hand[a].st = "COMPLETED"

(* The admins heard of it, or it took two failures for them not to. *)
DeadLettered(p) ==
    \/ alerted[p] = "sent"
    \/ alerted[p] = "lost" /\ faults + 2 <= MaxFaults

(* Where no poll can recover it, an unsettled payment the provider took is *)
(* still on its way: redelivered, queued, in a worker's hand, or reported  *)
(* to the admins.  Only a settlement that failed for good and whose one    *)
(* alert failed too, two failures, is left to the log (tasks.py            *)
(* _deadletter_payment).  The processes stay up: a worker that dies takes  *)
(* its job with it, and for these gateways nothing would find the row.     *)
PaidIsNotForgotten ==
    \A p \in Payments \ Pollable :
        status[p] = "PENDING" /\ prov[p] = "paid" =>
            Carried(p) \/ DeadLettered(p)

(* A row only ever moves from PENDING to one terminal status, and from     *)
(* COMPLETED to REFUNDED; late and duplicate reports never move it back.   *)
StatusOnlyAdvances ==
    [][\A p \in Payments : status'[p] # status[p] =>
          <<status[p], status'[p]>> \in
              {<<"ABSENT", "PENDING">>, <<"COMPLETED", "REFUNDED">>} \cup
              ({"PENDING"} \X {"COMPLETED", "FAILED", "CANCELED"})]_vars

(* A payment the provider took ends in a terminal status: by webhook and   *)
(* retries, or by the sweep while the row is inside its 24h window.  What  *)
(* no poll recovers may instead end dead-lettered (PaidIsNotForgotten says *)
(* who hears of it).                                                       *)
PaidIsSettled ==
    \A p \in Payments :
        prov[p] = "paid" ~>
            \/ status[p] \notin {"ABSENT", "PENDING"}
            \/ IF p \in Pollable THEN age[p] = Expired ELSE DeadLettered(p)

(* process: "A False return means ... the webhook was a duplicate": a      *)
(* completed report is never dropped on a row that was not completed.      *)
FalseReturnIsDuplicate ==
    \A a \in Actors : pc[a] = "locked" /\ hand[a].st = "COMPLETED" =>
        status[Pay(a)] # "CANCELED"

(* refund_payment: "the provider refund fires at most once per payment".   *)
ProviderRefundFiresOnce == \A p \in Payments : refunds[p] <= 1
=============================================================================
