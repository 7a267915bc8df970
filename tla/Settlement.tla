----------------------------- MODULE Settlement -----------------------------
(***************************************************************************)
(* What the payment pipeline promises about one invoice, whatever happens  *)
(* to webhooks, workers and the poller on the way: the payer's money is    *)
(* turned into value at most once, for the right amount, and an invoice is *)
(* closed without value only when the provider took no sufficient payment. *)
(* PaymentPipeline implements this specification.                          *)
(***************************************************************************)
EXTENDS Integers

CONSTANTS Payments,   \* invoices
          Invoice,    \* the sum quoted on every invoice, in minor units
          Received    \* the other sums a payer can make the provider take

VARIABLES status,     \* status[p]: the transaction row, as committed
          prov,       \* prov[p]: the provider's view of the invoice
          charge,     \* charge[p]: what the provider took (0: nothing)
          value       \* value[p]: what the shop credited for it (0: nothing)

vars == <<status, prov, charge, value>>

(* Underpaid by more than 5%: never fulfilled. *)
Covers(c) == 100 * c >= 95 * Invoice

(* Up to twice the invoice the received sum is believed; within 5% of the  *)
(* invoice, or above twice of it, only the invoice counts.  At exactly     *)
(* twice, the code's ">" (payment.py:114) believes the sum, as "Up to 2x"  *)
(* in the comment above it (72) has it and "AT or above 2x" (73) has not.  *)
Worth(c) == IF 100 * c > 105 * Invoice /\ c <= 2 * Invoice THEN c ELSE Invoice

Init == /\ status = [p \in Payments |-> "ABSENT"]
        /\ prov = [p \in Payments |-> "open"]
        /\ charge = [p \in Payments |-> 0]
        /\ value = [p \in Payments |-> 0]

Open(p) == /\ status[p] = "ABSENT"
           /\ status' = [status EXCEPT ![p] = "PENDING"]
           /\ UNCHANGED <<prov, charge, value>>

Charge(p, c) == /\ status[p] # "ABSENT"
                /\ prov[p] = "open"
                /\ prov' = [prov EXCEPT ![p] = "paid"]
                /\ charge' = [charge EXCEPT ![p] = c]
                /\ UNCHANGED <<status, value>>

Decline(p) == /\ status[p] # "ABSENT"
              /\ prov[p] = "open"
              /\ prov' = [prov EXCEPT ![p] = "closed"]
              /\ UNCHANGED <<status, charge, value>>

Grant(p) == /\ status[p] = "PENDING"
            /\ prov[p] = "paid"
            /\ Covers(charge[p])
            /\ status' = [status EXCEPT ![p] = "COMPLETED"]
            /\ value' = [value EXCEPT ![p] = Worth(charge[p])]
            /\ UNCHANGED <<prov, charge>>

Deny(p) == /\ status[p] = "PENDING"
           /\ \/ prov[p] = "paid" /\ ~Covers(charge[p])
                 /\ status' = [status EXCEPT ![p] = "FAILED"]
              \/ prov[p] = "closed"
                 /\ status' = [status EXCEPT ![p] = "CANCELED"]
           /\ UNCHANGED <<prov, charge, value>>

Refund(p) == /\ status[p] = "COMPLETED"
             /\ status' = [status EXCEPT ![p] = "REFUNDED"]
             /\ UNCHANGED <<prov, charge, value>>

Next == \E p \in Payments :
            \/ Open(p) \/ Decline(p) \/ Grant(p) \/ Deny(p) \/ Refund(p)
            \/ \E c \in Received \cup {Invoice} : Charge(p, c)

Spec == Init /\ [][Next]_vars
=============================================================================
