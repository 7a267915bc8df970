------------------------------ MODULE Gateways ------------------------------
(***************************************************************************)
(* The payment providers' adapters (infrastructure/payments/gateways) and  *)
(* the webhook route and poller that use them, for one invoice.  Each      *)
(* adapter is a record: what it makes of the provider's words, in a        *)
(* webhook and when polled, whether it passes the sum on, and which ids it *)
(* works with.  Signatures are taken as verified: a forged webhook is      *)
(* refused before anything below happens.                                  *)
(***************************************************************************)
EXTENDS Integers

CONSTANTS
    InvoiceSum,       \* quoted on the invoice, in minor units
    OddSums,          \* the other sums a payer can make a provider take
    MaxBlips          \* bound: webhooks sent again unasked, failed enqueues

ASSUME InvoiceSumAssumption == InvoiceSum \in Nat \ {0} /\ OddSums \subseteq Nat \ {0, InvoiceSum}

-----------------------------------------------------------------------------
(* What a provider says of an invoice.  "closed": expired, cancelled or an *)
(* attempt that failed; "held": blocked on the card, not taken yet, and    *)
(* "released" again; "returned": paid and given back to the payer since.   *)
Words == {"open", "paid", "over", "short", "closed", "held", "released", "returned"}

Answers(done, closed) ==
    [w \in Words |-> IF w \in done THEN "COMPLETED"
                     ELSE IF w \in closed THEN "CANCELED" ELSE "PENDING"]

(* hook, poll: the status a word stands for.  polls: the id a poll must    *)
(* present.  tells: where the sum taken is passed on.  finds: whether a    *)
(* webhook names our payment or only the provider's bill.  newId: it       *)
(* names the charge, not the bill created at checkout.  fresh: the webhook *)
(* is only a hint, the provider is asked.  odd: inexact sums it can take.  *)
(* holds: it knows a word for money that is held.                          *)
Hooked(done, closed) ==
    [hook |-> Answers(done, closed), poll |-> Answers({}, {}), polls |-> "nothing",
     tells |-> {"hook"}, finds |-> "payment", newId |-> FALSE, fresh |-> FALSE, odd |-> {},
     holds |-> FALSE]

(* The default fetch_status cannot poll; these override it. *)
Polled(done, closed) ==
    [Hooked(done, closed) EXCEPT !.poll = Answers(done, closed), !.polls = "bill"]

Yookassa == [Polled({"paid"}, {"closed", "released"})
               EXCEPT !.tells = {"hook", "poll"}, !.fresh = TRUE, !.holds = TRUE]
Cryptobot == [Polled({"paid"}, {"closed"}) EXCEPT !.hook = Answers({"paid"}, {}), !.tells = {}]
Cryptomus == [Polled({"paid", "over"}, {"short", "closed", "returned"})
                EXCEPT !.tells = {}, !.odd = {"short", "over"}]
Heleket == Cryptomus
Yoomoney == [Hooked({"paid", "over", "short"}, {}) EXCEPT !.newId = TRUE, !.odd = {"short", "over"}]
Platega == [Polled({"paid"}, {"closed", "returned"}) EXCEPT !.tells = {}, !.finds = "bill"]
Wata == [Polled({"paid"}, {"closed"}) EXCEPT !.tells = {}, !.newId = TRUE, !.polls = "charge"]
Freekassa == [Hooked({"paid"}, {}) EXCEPT !.newId = TRUE]
KassaAi == [Hooked({"paid"}, {}) EXCEPT !.newId = TRUE]
Robokassa == Hooked({"paid"}, {})
Paypalych == [Polled({"paid", "over"}, {"closed"})
                EXCEPT !.finds = "bill", !.odd = {"short", "over"}]
Cloudpayments == [Hooked({"paid", "held"}, {"closed", "released"})
                    EXCEPT !.newId = TRUE, !.holds = TRUE]
Lava == Hooked({"paid"}, {"closed"})
Mulenpay == Hooked({"paid"}, {"closed"})
Rollypay == Polled({"paid"}, {"closed", "returned"})
Cispay == [Polled({"paid"}, {"closed"})
             EXCEPT !.hook["returned"] = "REFUNDED", !.poll["returned"] = "REFUNDED",
                    !.tells = {"hook", "poll"}]
Riopay == [Polled({"paid"}, {"closed"}) EXCEPT !.tells = {"hook", "poll"}]
Severpay == Hooked({"paid"}, {"closed"})
Aurapay == Hooked({"paid"}, {"closed"})
Antilopay == Hooked({"paid"}, {"closed", "returned"})
Manual == [Hooked({"paid"}, {"closed"}) EXCEPT !.tells = {}]

(* _REGISTRY, but for Telegram Stars: those are settled in the bot, where  *)
(* no webhook and no poll is involved (see Checkout).                      *)
Registry ==
    {Yookassa, Cryptobot, Cryptomus, Heleket, Yoomoney, Platega, Wata, Freekassa, KassaAi,
     Robokassa, Paypalych, Cloudpayments, Lava, Mulenpay, Rollypay, Cispay, Riopay, Severpay,
     Aurapay, Antilopay, Manual}

NoGateway == Hooked({}, {})

-----------------------------------------------------------------------------
VARIABLES
    gateway,          \* the adapter of the invoice, NoGateway before checkout
    bill, took,       \* the provider's word for it, and the sum it took
    failedOnce,       \* history: it said of an attempt that it had failed
    mail,             \* webhooks it will send until they are acknowledged
    handling,         \* the word of the webhook in the route, or "nothing"
    paidRow, value,   \* the transaction's status and what it is worth
    storedId,         \* its external_id: "bill" or "charge"
    tasks,            \* process_payment tasks in the broker
    ackedPaid,        \* a report of the payment was acknowledged
    age, lastCall,    \* of the row: "young" (under 23 h), "late", "gone"
                      \* (24 h); a poll ran while it was late
    blips

theirSide == <<gateway, bill, took, failedOnce>>
gateVars == <<theirSide, mail, handling, paidRow, value, storedId, tasks,
              ackedPaid, age, lastCall, blips>>
ourRow == <<paidRow, value>>
clock == <<age, lastCall>>

GatewaysInit ==
    /\ gateway = NoGateway
    /\ bill = "open" /\ took = 0 /\ failedOnce = FALSE
    /\ mail = {} /\ handling = "nothing"
    /\ paidRow = "ABSENT" /\ value = 0 /\ storedId = "bill" /\ tasks = {}
    /\ ackedPaid = FALSE /\ age = "young" /\ lastCall = FALSE
    /\ blips = MaxBlips

(* create_payment, and the row with the id the provider gave the bill. *)
CreatePayment ==
    /\ paidRow = "ABSENT"
    /\ gateway' \in Registry
    /\ paidRow' = "PENDING"
    /\ UNCHANGED <<bill, took, failedOnce, mail, handling, value, storedId, tasks, ackedPaid,
                   clock, blips>>

-----------------------------------------------------------------------------
(* The provider *)

Says(w) == bill' = w /\ mail' = mail \cup {w}

(* An attempt that failed may be followed by one that succeeds, if the     *)
(* provider lets the payer try again.                                      *)
Payable == paidRow # "ABSENT" /\ bill \in {"open", "closed"}

PayInvoice ==
    /\ Payable
    /\ \/ took' = InvoiceSum /\ Says("paid")
       \/ \E s \in OddSums :
            /\ took' = s
            /\ \/ s < InvoiceSum /\ "short" \in gateway.odd /\ Says("short")
               \/ s > InvoiceSum /\ "over" \in gateway.odd /\ Says("over")
    /\ UNCHANGED <<gateway, failedOnce, handling, ourRow, storedId, tasks, ackedPaid, clock, blips>>

(* A short payment the provider still waits for; a hold that is captured.  *)
PayTheRest ==
    /\ bill = "held" \/ (bill = "short" /\ gateway.hook["short"] = "PENDING")
    /\ took' = InvoiceSum /\ Says("paid")
    /\ UNCHANGED <<gateway, failedOnce, handling, ourRow, storedId, tasks, ackedPaid, clock, blips>>

HoldSum ==
    /\ Payable /\ gateway.holds /\ Says("held")
    /\ UNCHANGED <<gateway, took, failedOnce, handling, ourRow, storedId, tasks, ackedPaid,
                   clock, blips>>

EndInvoice ==
    /\ paidRow # "ABSENT"
    /\ \/ bill = "open" /\ Says("closed") /\ failedOnce' = TRUE
       \/ bill = "held" /\ Says("released") /\ failedOnce' = TRUE
       \/ bill \in {"paid", "over"} /\ Says("returned") /\ UNCHANGED failedOnce
    /\ UNCHANGED <<gateway, took, handling, ourRow, storedId, tasks, ackedPaid, clock, blips>>

(* Of a payment; what else was said once changes nothing the second time.  *)
SendAgain(w) ==
    /\ blips > 0 /\ blips' = blips - 1
    /\ bill \in {"paid", "over", "returned"}
    /\ w \in {bill} \cup (IF bill = "returned" THEN {"paid"} ELSE {})
    /\ mail' = mail \cup {w}
    /\ UNCHANGED <<theirSide, handling, ourRow, storedId, tasks, ackedPaid, clock>>

-----------------------------------------------------------------------------
(* PaymentService.process *)

NoFloor(s) == TRUE                                              \* mutant
PaidEnough(s) == 100 * s >= 95 * InvoiceSum

(* Exactly twice the invoice is still believed (payment.py:114, ">"),      *)
(* whatever "AT or above 2x" in the comment there (73) says.               *)
Worth(s) == IF 100 * s > 105 * InvoiceSum /\ s <= 2 * InvoiceSum THEN s ELSE InvoiceSum

Process(st, s) ==
    IF paidRow = "PENDING" /\ st \in {"COMPLETED", "CANCELED"}
    THEN IF st = "CANCELED" THEN paidRow' = "CANCELED" /\ UNCHANGED value
         ELSE IF s > 0 /\ ~PaidEnough(s) THEN paidRow' = "FAILED" /\ UNCHANGED value
         ELSE paidRow' = "COMPLETED" /\ value' = IF s > 0 THEN Worth(s) ELSE InvoiceSum
    ELSE UNCHANGED ourRow

-----------------------------------------------------------------------------
(* The webhook route *)

Meaning(w) == gateway.hook[IF gateway.fresh THEN bill ELSE w]
Stated(w) == IF w = "held" THEN InvoiceSum ELSE took
Found == gateway.finds = "payment" \/ storedId = "bill"

(* handle_webhook; the provider's id of a paid invoice is stored and       *)
(* committed before anything else.                                         *)
HandleWebhook(w) ==
    /\ w \in mail /\ handling = "nothing" /\ Found
    /\ handling' = w
    /\ storedId' = IF Meaning(w) = "COMPLETED" /\ gateway.newId THEN "charge" ELSE storedId
    /\ UNCHANGED <<theirSide, mail, ourRow, tasks, ackedPaid, clock, blips>>

Acknowledge ==
    /\ mail' = mail \ {handling}
    /\ ackedPaid' = (ackedPaid \/ Meaning(handling) = "COMPLETED")
    /\ handling' = "nothing"

Enqueue ==
    /\ handling # "nothing"
    /\ tasks' = tasks \cup {[st |-> Meaning(handling),
                             sum |-> IF "hook" \in gateway.tells THEN Stated(handling) ELSE 0]}
    /\ Acknowledge
    /\ UNCHANGED <<theirSide, ourRow, storedId, clock, blips>>

AnyAge == gateway.polls # "nothing"                             \* mutant
ReconcilerCovers == gateway.polls # "nothing" /\ age = "young"

(* The broker is down: the provider is answered only if the poller will    *)
(* come by.                                                                *)
EnqueueFails ==
    /\ handling # "nothing"
    /\ blips > 0 /\ blips' = blips - 1
    /\ IF ReconcilerCovers THEN Acknowledge
       ELSE handling' = "nothing" /\ UNCHANGED <<mail, ackedPaid>>
    /\ UNCHANGED <<theirSide, ourRow, storedId, tasks, clock>>

(* process_payment *)
RunTask ==
    \E t \in tasks :
        /\ tasks' = tasks \ {t}
        /\ Process(t.st, t.sum)
        /\ UNCHANGED <<theirSide, mail, handling, storedId, ackedPaid, clock, blips>>

-----------------------------------------------------------------------------
(* The poller: the reconcile sweep, and «check payment» in the bot. *)

Recognised == gateway.polls = storedId

Poll ==
    /\ gateway.polls # "nothing" /\ paidRow = "PENDING" /\ age # "gone"
    /\ IF Recognised
       THEN Process(gateway.poll[bill], IF "poll" \in gateway.tells THEN took ELSE 0)
       ELSE UNCHANGED ourRow
    /\ lastCall' = (age = "late")
    /\ UNCHANGED <<theirSide, mail, handling, storedId, tasks, ackedPaid, age, blips>>

(* list_stuck_pending looks back 24 hours, and the wide sweep comes every  *)
(* five minutes: a row is polled in its last hour before it leaves.        *)
RowAges ==
    /\ paidRow = "PENDING"
    /\ \/ age = "young" /\ age' = "late"
       \/ age = "late" /\ (lastCall \/ gateway.polls = "nothing") /\ age' = "gone"
    /\ UNCHANGED <<theirSide, mail, handling, ourRow, storedId, tasks, ackedPaid, lastCall, blips>>

GatewaysNext ==
    \/ CreatePayment \/ PayInvoice \/ PayTheRest \/ HoldSum \/ EndInvoice
    \/ \E w \in Words : SendAgain(w) \/ HandleWebhook(w)
    \/ Enqueue \/ EnqueueFails \/ RunTask \/ Poll \/ RowAges

GatewaysFairness ==
    /\ WF_gateVars(\E w \in Words : HandleWebhook(w))
    /\ WF_gateVars(Enqueue \/ EnqueueFails)
    /\ WF_gateVars(RunTask)
    /\ SF_gateVars(Poll)

GatewaysSpec == GatewaysInit /\ [][GatewaysNext]_gateVars /\ GatewaysFairness

-----------------------------------------------------------------------------
(* CloudPayments' "authorized" counts as paid (cloudpayments.py:106): the  *)
(* row may be credited while the money is only held, or was released.      *)
CreditedOnHold ==
    /\ gateway = Cloudpayments /\ bill \in {"held", "released"}
    /\ took = 0 /\ value = InvoiceSum

(* Whatever a provider calls its states, a row is COMPLETED only when the  *)
(* provider took at least 95% of the invoice, and is worth the invoice, or *)
(* more only if more was taken (payment.py:50-77, all adapters).           *)
(* Exception: a sum that CloudPayments only holds.                         *)
CreditIsTrue ==
    paidRow = "COMPLETED" =>
        \/ /\ 100 * took >= 95 * InvoiceSum
           /\ value = InvoiceSum \/ (value = took /\ took > InvoiceSum)
        \/ CreditedOnHold

(* A report of a payment is acknowledged only when something will settle   *)
(* it: a task, or a poll with the id the provider knows, in a window that  *)
(* is still open (payments.py:127-146).                                    *)
AckedIsRecoverable ==
    (ackedPaid /\ paidRow = "PENDING" /\ bill \in {"paid", "over"}) =>
        \/ \E t \in tasks : t.st = "COMPLETED"
        \/ gateway.polls = storedId /\ age # "gone"

(* Every payment of the full sum is credited, unless the provider gives it *)
(* back first: lost webhooks are sent again, or the poller finds it.       *)
(* Exception: the row that an attempt reported as failed had closed; what  *)
(* a later attempt pays is dropped (payment.py:84-94).                     *)
ClosedBefore == failedOnce /\ paidRow = "CANCELED"
PaymentsAreCredited ==
    bill \in {"paid", "over"} ~> paidRow = "COMPLETED" \/ bill = "returned" \/ ClosedBefore
=============================================================================
