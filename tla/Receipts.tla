------------------------------ MODULE Receipts ------------------------------
(***************************************************************************)
(* Fiscal receipts: issue_nalogo_receipts (tasks.py) registers each paid   *)
(* sale as income with the tax service, whose API has no idempotency key.  *)
(* A run lists the unreceipted sales, then takes them one by one: it       *)
(* claims the sale under its row lock and commits, calls the service, and  *)
(* saves the receipt or takes the claim back.  Runs overlap: 50 calls of   *)
(* 20 seconds outlast the 10 minutes between two of them.                  *)
(***************************************************************************)
EXTENDS Naturals, FiniteSets

CONSTANTS
    Sales,            \* completed gateway payments, numbered by created_at
    ReceiptRuns,
    NoSale,
    MaxTroubles       \* bound: failed calls and crashes

ASSUME SalesAssumption == Sales \subseteq Nat /\ NoSale \notin Sales

VARIABLES
    claimed,          \* receipt_created_at is set
    receipt,          \* receipt_uuid is set
    recent,           \* created within the last three days
    filed,            \* times the tax service registered the sale
    unheard,          \* of which the answer never arrived
    abandoned,        \* sales whose claim outlived the run that made it
    queue,            \* each run: sales it listed and has not come to yet
    inHand, filing,   \* the sale it works on, and how far it is
    troubles

saleVars == <<claimed, receipt, recent, filed, unheard, abandoned>>
receiptVars == <<saleVars, queue, inHand, filing, troubles>>

ReceiptsInit ==
    /\ claimed = [s \in Sales |-> FALSE]
    /\ receipt = [s \in Sales |-> FALSE]
    /\ recent = [s \in Sales |-> TRUE]
    /\ filed = [s \in Sales |-> 0]
    /\ unheard = [s \in Sales |-> 0]
    /\ abandoned = {}
    /\ queue = [r \in ReceiptRuns |-> {}]
    /\ inHand = [r \in ReceiptRuns |-> NoSale]
    /\ filing = [r \in ReceiptRuns |-> "no"]
    /\ troubles = MaxTroubles

Unreceipted == {s \in Sales : ~receipt[s] /\ ~claimed[s] /\ recent[s]}

ListSales(r) ==
    /\ filing[r] = "no" /\ queue[r] = {}
    /\ Unreceipted # {}
    /\ queue' = [queue EXCEPT ![r] = Unreceipted]
    /\ UNCHANGED <<saleVars, inHand, filing, troubles>>

Receiptless(s) == ~receipt[s]                                   \* mutant
Unclaimed(s) == ~claimed[s]

(* Another run may have claimed the sale since it was listed. *)
ClaimSale(r) ==
    /\ filing[r] = "no" /\ queue[r] # {}
    /\ \E s \in queue[r] :
         /\ \A t \in queue[r] : s <= t
         /\ queue' = [queue EXCEPT ![r] = @ \ {s}]
         /\ IF Unclaimed(s)
            THEN /\ claimed' = [claimed EXCEPT ![s] = TRUE]
                 /\ inHand' = [inHand EXCEPT ![r] = s]
                 /\ filing' = [filing EXCEPT ![r] = "calling"]
            ELSE UNCHANGED <<claimed, inHand, filing>>
    /\ UNCHANGED <<receipt, recent, filed, unheard, abandoned, troubles>>

Registered(r) ==
    /\ filing[r] = "calling"
    /\ filed' = [filed EXCEPT ![inHand[r]] = @ + 1]
    /\ filing' = [filing EXCEPT ![r] = "answered"]
    /\ UNCHANGED <<claimed, receipt, recent, unheard, abandoned, queue, inHand, troubles>>

(* Timeouts, error pages, refusals: the service may have registered it. *)
CallFails(r) ==
    /\ filing[r] = "calling"
    /\ troubles > 0 /\ troubles' = troubles - 1
    /\ \E n \in {0, 1} :
         /\ filed' = [filed EXCEPT ![inHand[r]] = @ + n]
         /\ unheard' = [unheard EXCEPT ![inHand[r]] = @ + n]
    /\ filing' = [filing EXCEPT ![r] = "failed"]
    /\ UNCHANGED <<claimed, receipt, recent, abandoned, queue, inHand>>

AfterFailure(s) == FALSE

TakeBackClaim(r) ==
    /\ filing[r] = "failed"
    /\ claimed' = [claimed EXCEPT ![inHand[r]] = AfterFailure(inHand[r])]
    /\ inHand' = [inHand EXCEPT ![r] = NoSale]
    /\ filing' = [filing EXCEPT ![r] = "no"]
    /\ UNCHANGED <<receipt, recent, filed, unheard, abandoned, queue, troubles>>

SaveReceipt(r) ==
    /\ filing[r] = "answered"
    /\ receipt' = [receipt EXCEPT ![inHand[r]] = TRUE]
    /\ inHand' = [inHand EXCEPT ![r] = NoSale]
    /\ filing' = [filing EXCEPT ![r] = "no"]
    /\ UNCHANGED <<claimed, recent, filed, unheard, abandoned, queue, troubles>>

(* The worker dies, or the database fails the run. *)
ReceiptRunDies(r) ==
    /\ filing[r] # "no"
    /\ troubles > 0 /\ troubles' = troubles - 1
    /\ queue' = [queue EXCEPT ![r] = {}]
    /\ inHand' = [inHand EXCEPT ![r] = NoSale]
    /\ filing' = [filing EXCEPT ![r] = "no"]
    /\ abandoned' = abandoned \cup {inHand[r]}
    /\ UNCHANGED <<claimed, receipt, recent, filed, unheard>>

GrowsOld(s) ==
    /\ recent[s]
    /\ recent' = [recent EXCEPT ![s] = FALSE]
    /\ UNCHANGED <<claimed, receipt, filed, unheard, abandoned, queue, inHand, filing, troubles>>

ReceiptStep(r) ==
    \/ ListSales(r) \/ ClaimSale(r) \/ Registered(r)
    \/ TakeBackClaim(r) \/ SaveReceipt(r)

ReceiptsNext ==
    \/ \E r \in ReceiptRuns : ReceiptStep(r) \/ CallFails(r) \/ ReceiptRunDies(r)
    \/ \E s \in Sales : GrowsOld(s)

ReceiptsFairness == \A r \in ReceiptRuns : WF_receiptVars(ReceiptStep(r))

ReceiptsSpec == ReceiptsInit /\ [][ReceiptsNext]_receiptVars /\ ReceiptsFairness

-----------------------------------------------------------------------------
(* However runs overlap, fail and die, a sale is registered once, and once *)
(* more only for each registration whose answer was lost (the claim before *)
(* the irreversible call, tasks.py:868-878).                               *)
IncomeOnce == \A s \in Sales : filed[s] <= 1 + unheard[s]

(* No income is forgotten: a sale is registered, unless it grew too old or *)
(* a run died with its claim (tasks.py:881-885: a failed call takes the    *)
(* claim back).                                                            *)
IncomeFiled ==
    \A s \in Sales : <>(filed[s] > 0 \/ ~recent[s] \/ s \in abandoned)
=============================================================================
