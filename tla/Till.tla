-------------------------------- MODULE Till --------------------------------
(***************************************************************************)
(* The way to the till, for one user: taps on «pay», «top up» and «trial»  *)
(* in the bot and in the cabinet, up to an invoice or a purchase from the  *)
(* wallet, and the Telegram Stars charges that answer an invoice.  The bot *)
(* guards its taps by a Redis key, the cabinet does not; the price is      *)
(* quoted from a one-time discount that the next purchase spends.  What a  *)
(* purchase does to a subscription is Fulfilment, hosted payments are      *)
(* Gateways and PaymentPipeline: here they settle in one step.             *)
(***************************************************************************)
EXTENDS Integers, FiniteSets, Functions

CONSTANTS
    Taps,             \* requests of the user, one transaction each
    Shapes,           \* what each tap may be: [surface, kind, method]
    Charges,          \* Stars charges
    ListPrice,        \* of everything for sale, in minor units
    Funds,            \* what the wallet holds at first
    TrialPrice,       \* TRIAL_PRICE
    Offs,             \* one-time discounts a promo code grants, in percent
    NoTap,
    MaxSlow,          \* bound: handlers that outlive the key of 90 s
    MaxUpsets         \* bound: crashes and calls that fail

(* A trial is paid from the wallet (actions.py:594), a top-up never is     *)
(* (include_balance=False, purchase.py:1008-1016; cabinet.py:655-656).     *)
TapShape == {s \in [surface : {"bot", "cabinet"},
                    kind : {"plan", "pack", "deposit", "trial"},
                    method : {"balance", "gateway", "stars"}] :
            /\ s.kind = "trial" => s.method = "balance"
            /\ s.kind = "deposit" => s.method # "balance"}

ASSUME TillAssumption ==
    /\ {ListPrice, Funds, TrialPrice, MaxSlow, MaxUpsets} \subseteq Nat
    /\ Offs \subseteq 1 .. 100
    /\ Shapes \in [Taps -> SUBSET TapShape]
    /\ IsFiniteSet(Taps) /\ IsFiniteSet(Charges) /\ NoTap \notin Taps

VARIABLES
    tap,              \* its handler: [shape, at]
    tapRow,           \* its transaction, "none" before its commit
    price, off,       \* quoted for it, and the one-time discount in the quote
    link,             \* what the user can pay by: "none", "url", "invoice"
    payLock,          \* Redis: paylock:<user>
    userRow,         \* the user's row lock: a tap, or NoTap
    wallet, onceOff,   \* balance_minor, purchase_discount_pct
    plan,             \* the current subscription while usable: "none", "trial", "paid"
    paidRuns,         \* history: a plan was bought and has not ended since
    trialLeft,        \* is_trial_available
    starCharge,       \* of each Stars charge: [on, at]
    queued,           \* taps whose settlement waits in the task queue
    grants, slow, upsets

tillVars == <<tap, tapRow, price, off, link, payLock, userRow, wallet, onceOff, plan, paidRuns,
                  trialLeft, starCharge, queued, grants, slow, upsets>>
quote == <<price, off>>
subscription == <<plan, paidRuns>>
buyer == <<wallet, onceOff, subscription, trialLeft>>
stars == <<starCharge, queued>>
limits == <<grants, slow, upsets>>

NoShape == [surface |-> "cabinet", kind |-> "deposit", method |-> "gateway"]

TillInit ==
    /\ tap = [t \in Taps |-> [shape |-> NoShape, at |-> "idle"]]
    /\ tapRow = [t \in Taps |-> "none"] /\ link = [t \in Taps |-> "none"]
    /\ price = [t \in Taps |-> 0] /\ off = [t \in Taps |-> 0]
    /\ payLock = FALSE /\ userRow = NoTap
    /\ wallet = Funds /\ onceOff = 0 /\ plan = "none" /\ paidRuns = FALSE
    /\ trialLeft = TRUE
    /\ starCharge = [x \in Charges |-> [on |-> NoTap, at |-> "none"]] /\ queued = {}
    /\ grants = 0 /\ slow = MaxSlow /\ upsets = MaxUpsets

Is(t, what) == what \in {tap[t].shape[f] : f \in DOMAIN tap[t].shape}
At(t, stage) == tap[t].at = stage
Goes(t, stage) == tap' = [tap EXCEPT ![t].at = stage]
Kept(t) == Is(t, "bot") /\ ~Is(t, "trial")      \* guarded by the key
InFlight == {t \in Taps : Kept(t) /\ tap[t].at \notin {"idle", "done"}}

Unused(t) == userRow \in {NoTap, t}

-----------------------------------------------------------------------------
(* _start_payment, topup_pay, the cabinet's routes, act_trial *)

Guarded(s) == s.surface = "bot" /\ s.kind # "trial"

Tap(t, s) ==
    /\ At(t, "idle") /\ (Guarded(s) => ~payLock)
    /\ tap' = [tap EXCEPT ![t] = [shape |-> s, at |-> "begun"]]
    /\ payLock' = (payLock \/ Guarded(s))
    /\ UNCHANGED <<tapRow, quote, link, userRow, buyer, stars, limits>>

TapToPay(t) == \E s \in Shapes[t] : s.kind \in {"plan", "pack"} /\ Tap(t, s)
TapToTopUp(t) == \E s \in Shapes[t] : s.kind = "deposit" /\ Tap(t, s)
TapForTrial(t) == \E s \in Shapes[t] : s.kind = "trial" /\ Tap(t, s)

(* finally: the key is deleted, whoever set it. *)
TapEnds(t) ==
    /\ At(t, "ending") /\ Goes(t, "done")
    /\ payLock' = (payLock /\ ~Kept(t))
    /\ UNCHANGED <<tapRow, quote, link, userRow, buyer, stars, limits>>

PayLockExpires ==
    /\ payLock /\ payLock' = FALSE
    /\ IF InFlight = {} THEN UNCHANGED slow ELSE slow > 0 /\ slow' = slow - 1
    /\ UNCHANGED <<tap, tapRow, quote, link, userRow, buyer, stars, grants, upsets>>

(* A crash, or an error nobody catches: the unit of work rolls back. *)
TapDies(t) ==
    /\ tap[t].at \notin {"idle", "done"}
    /\ upsets > 0 /\ upsets' = upsets - 1
    /\ \/ Goes(t, "done") \/ Goes(t, "ending")
    /\ userRow' = IF userRow = t THEN NoTap ELSE userRow
    /\ UNCHANGED <<tapRow, quote, link, payLock, buyer, stars, grants, slow>>

-----------------------------------------------------------------------------
(* PricingService.quote, PurchaseService.start and fulfill *)

Quoted(t) ==
    LET pct == IF Is(t, "deposit") \/ Is(t, "trial") THEN 0 ELSE onceOff
    IN  /\ off' = [off EXCEPT ![t] = pct]
        /\ price' = [price EXCEPT ![t] = (ListPrice * (100 - pct)) \div 100]

(* The row is settled and what it pays for delivered. *)
Delivered(t) ==
    /\ tapRow' = [tapRow EXCEPT ![t] = "COMPLETED"]
    /\ onceOff' = IF Is(t, "deposit") THEN onceOff ELSE 0
    /\ plan' = IF Is(t, "plan") THEN "paid" ELSE plan
    /\ paidRuns' = (paidRuns \/ Is(t, "plan"))
    /\ UNCHANGED trialLeft

-----------------------------------------------------------------------------
(* checkout_from_balance, and a trial: the user's row is locked first. *)

TakesNothing(t) == UNCHANGED userRow                            \* mutant
TakesRow(t) == userRow = NoTap /\ userRow' = t
LetsGo(t) == userRow' = IF userRow = t THEN NoTap ELSE userRow

LockWallet(t) ==
    /\ At(t, "begun") /\ Is(t, "balance")
    /\ TakesRow(t)
    /\ Quoted(t) /\ Goes(t, "priced")
    /\ UNCHANGED <<tapRow, link, payLock, buyer, stars, limits>>

(* The guarded debit, the panel, the commit.                               *)
BuyFromWallet(t) ==
    /\ At(t, "priced") /\ ~Is(t, "trial") /\ price[t] <= wallet
    /\ wallet' = wallet - price[t]
    /\ Delivered(t)
    /\ LetsGo(t) /\ Goes(t, "ending")
    /\ UNCHANGED <<quote, link, payLock, stars, limits>>

TooShort(t) ==
    /\ At(t, "priced") /\ ~Is(t, "trial") /\ price[t] > wallet
    /\ LetsGo(t) /\ Goes(t, "ending")
    /\ UNCHANGED <<tapRow, quote, link, payLock, buyer, stars, limits>>

(* A trial may cost: the debit and the grant are one transaction.  It is   *)
(* refused over a usable subscription; one that has ended, paid or not, is *)
(* replaced (actions.py:584-588, cabinet.py:908-911).                      *)
TrialOnCredit == trialLeft /\ plan = "none"                      \* mutant
TrialOpen == trialLeft /\ plan = "none" /\ TrialPrice <= wallet

GiveTrial(t) ==
    /\ At(t, "priced") /\ Is(t, "trial") /\ TrialOpen
    /\ tapRow' = [tapRow EXCEPT ![t] = "COMPLETED"]
    /\ wallet' = wallet - TrialPrice
    /\ plan' = "trial" /\ trialLeft' = FALSE
    /\ LetsGo(t) /\ Goes(t, "ending")
    /\ UNCHANGED <<quote, link, payLock, onceOff, paidRuns, stars, limits>>

RefuseTrial(t) ==
    /\ At(t, "priced") /\ Is(t, "trial") /\ ~TrialOpen
    /\ LetsGo(t) /\ Goes(t, "ending")
    /\ UNCHANGED <<tapRow, quote, link, payLock, buyer, stars, limits>>

-----------------------------------------------------------------------------
(* An invoice: the quote is read under no lock. *)

AskPrice(t) ==
    /\ At(t, "begun") /\ ~Is(t, "balance")
    /\ Quoted(t) /\ Goes(t, "quoted")
    /\ UNCHANGED <<tapRow, link, payLock, userRow, buyer, stars, limits>>

Free(t) == price[t] = 0

(* 100% off: fulfilled at once, under the lock fulfill takes. *)
BuyForNothing(t) ==
    /\ At(t, "quoted") /\ Free(t) /\ Unused(t)
    /\ Delivered(t) /\ Goes(t, "ending")
    /\ UNCHANGED <<quote, link, payLock, userRow, wallet, stars, limits>>

(* A gateway's invoice exists before the row is committed; one that is     *)
(* refused rolls the row back.                                             *)
AskGateway(t) ==
    /\ \/ Goes(t, "billed") /\ UNCHANGED upsets
       \/ upsets > 0 /\ upsets' = upsets - 1 /\ Goes(t, "ending")
    /\ UNCHANGED <<tapRow, quote, link, payLock, userRow, buyer, stars, grants, slow>>

Invoiced(t) == At(t, "quoted") /\ Is(t, "gateway") /\ ~Free(t)

BillInBot(t) == Invoiced(t) /\ Is(t, "bot") /\ ~Is(t, "deposit") /\ AskGateway(t)
BillInCabinet(t) == Invoiced(t) /\ Is(t, "cabinet") /\ ~Is(t, "deposit") /\ AskGateway(t)
BillTopUpInBot(t) == Invoiced(t) /\ Is(t, "bot") /\ Is(t, "deposit") /\ AskGateway(t)
BillTopUpInCabinet(t) == Invoiced(t) /\ Is(t, "cabinet") /\ Is(t, "deposit") /\ AskGateway(t)

RowStands(t) == tapRow' = [tapRow EXCEPT ![t] = "PENDING"]

(* With a hosted invoice the commit also ends the handler's part: what it  *)
(* shows is the link it holds.  A Stars row is committed first, and only   *)
(* then Telegram asked.                                                    *)
CommitRow(t) ==
    /\ \/ At(t, "billed")
       \/ At(t, "quoted") /\ Is(t, "stars") /\ ~Free(t)
    /\ RowStands(t)
    /\ Goes(t, "stored")
    /\ UNCHANGED <<quote, link, payLock, userRow, buyer, stars, limits>>

ShowLink(t) ==
    /\ At(t, "stored")
    /\ link' = [link EXCEPT ![t] = IF Is(t, "stars") THEN "invoice" ELSE "url"]
    /\ Goes(t, "ending")
    /\ UNCHANGED <<tapRow, quote, payLock, userRow, buyer, stars, limits>>

(* Telegram refuses the invoice. *)
InvoiceRefused(t) ==
    /\ At(t, "stored") /\ Is(t, "stars") /\ Goes(t, "refused")
    /\ UNCHANGED <<tapRow, quote, link, payLock, userRow, buyer, stars, limits>>

LeavesRow(t) == UNCHANGED tapRow                                \* mutant
ClosesRow(t) == tapRow' = [tapRow EXCEPT ![t] = "CANCELED"]

CloseRow(t) ==
    /\ At(t, "refused")
    /\ ClosesRow(t)
    /\ Goes(t, "ending")
    /\ UNCHANGED <<quote, link, payLock, userRow, buyer, stars, limits>>

-----------------------------------------------------------------------------
(* What answers an invoice *)

Settled(t) ==
    /\ Unused(NoTap) /\ Delivered(t)
    /\ wallet' = IF Is(t, "deposit") THEN wallet + price[t] ELSE wallet

PayLink(t) ==
    /\ link[t] = "url" /\ tapRow[t] = "PENDING"
    /\ Settled(t)
    /\ UNCHANGED <<tap, quote, link, payLock, userRow, stars, limits>>

Moves(x, stage) == starCharge' = [starCharge EXCEPT ![x].at = stage]

PreCheckout(x, t) ==
    /\ starCharge[x].at = "none" /\ link[t] = "invoice" /\ tapRow[t] = "PENDING"
    /\ starCharge' = [starCharge EXCEPT ![x] = [on |-> t, at |-> "approved"]]
    /\ UNCHANGED <<tap, tapRow, quote, link, payLock, userRow, buyer, queued, limits>>

(* successful_payment: Telegram has charged the stars.                     *)
Moved(x) == tapRow[starCharge[x].on] = "PENDING"

CreditCharge(x) ==
    /\ starCharge[x].at = "approved"
    /\ Moved(x)
    /\ Settled(starCharge[x].on)
    /\ Moves(x, "credited")
    /\ UNCHANGED <<tap, quote, link, payLock, userRow, queued, limits>>

(* Paid against a settled row: the payer and the admins are told. *)
ReportCharge(x) ==
    /\ starCharge[x].at = "approved" /\ ~Moved(x) /\ Moves(x, "told")
    /\ UNCHANGED <<tap, tapRow, quote, link, payLock, userRow, buyer, queued, limits>>

(* The panel or a check fails: the worker will try, the admins are told.   *)
DeferCharge(x) ==
    /\ starCharge[x].at = "approved" /\ Moved(x)
    /\ upsets > 0 /\ upsets' = upsets - 1
    /\ \/ Moves(x, "deferred") /\ queued' = queued \cup {starCharge[x].on}
       \/ Moves(x, "told") /\ UNCHANGED queued
    /\ UNCHANGED <<tap, tapRow, quote, link, payLock, userRow, buyer, grants, slow>>

(* The database fails or the bot dies: nobody is told. *)
LoseCharge(x) ==
    /\ starCharge[x].at = "approved" /\ Moves(x, "lost")
    /\ upsets > 0 /\ upsets' = upsets - 1
    /\ UNCHANGED <<tap, tapRow, quote, link, payLock, userRow, buyer, queued, grants, slow>>

RunQueued(t) ==
    /\ t \in queued /\ queued' = queued \ {t}
    /\ IF tapRow[t] = "PENDING" THEN Settled(t) ELSE UNCHANGED <<tapRow, buyer>>
    /\ UNCHANGED <<tap, quote, link, payLock, userRow, starCharge, limits>>

(* A promo code grants the one-time discount. *)
GrantOff ==
    /\ grants = 0 /\ grants' = 1
    /\ onceOff' \in Offs
    /\ UNCHANGED <<tap, tapRow, quote, link, payLock, userRow, wallet, subscription, trialLeft,
                   stars, slow, upsets>>

(* The subscription expires, is refunded or deleted: it is not usable.     *)
PlanEnds ==
    /\ plan # "none" /\ plan' = "none" /\ paidRuns' = FALSE
    /\ UNCHANGED <<tap, tapRow, quote, link, payLock, userRow, wallet, onceOff, trialLeft,
                   stars, limits>>

TillNext ==
    \/ \E t \in Taps :
         \/ TapToPay(t) \/ TapToTopUp(t) \/ TapForTrial(t) \/ TapEnds(t) \/ TapDies(t)
         \/ LockWallet(t) \/ BuyFromWallet(t) \/ TooShort(t)
         \/ GiveTrial(t) \/ RefuseTrial(t)
         \/ AskPrice(t) \/ BuyForNothing(t) \/ BillInBot(t) \/ BillInCabinet(t)
         \/ BillTopUpInBot(t) \/ BillTopUpInCabinet(t) \/ CommitRow(t) \/ ShowLink(t)
         \/ InvoiceRefused(t) \/ CloseRow(t) \/ PayLink(t) \/ RunQueued(t)
    \/ \E x \in Charges :
         \/ \E t \in Taps : PreCheckout(x, t)
         \/ CreditCharge(x) \/ ReportCharge(x)
         \/ DeferCharge(x) \/ LoseCharge(x)
    \/ PayLockExpires \/ GrantOff \/ PlanEnds

TillSpec == TillInit /\ [][TillNext]_tillVars

-----------------------------------------------------------------------------
Sums(S) == SumFunctionOnSet(price, S)
Tried == {t \in Taps : tapRow[t] = "COMPLETED" /\ Is(t, "trial")}
ToppedUp == {t \in Taps : tapRow[t] = "COMPLETED" /\ Is(t, "deposit")}
Bought(t) == tapRow[t] = "COMPLETED" /\ Is(t, "balance") /\ ~Is(t, "trial")

(* However many taps of whichever surface, the wallet spends a one-time    *)
(* discount once, and a trial is given once, never over a plan that was    *)
(* paid for and still runs (purchase.py:183-190, actions.py:577-590).      *)
OneShotsSpentOnce ==
    /\ Cardinality({t \in Taps : Bought(t) /\ off[t] > 0}) <= grants
    /\ Cardinality(Tried) <= 1
    /\ plan = "trial" => ~paidRuns

(* The bot handles one payment of a user at a time, but for handlers that  *)
(* outlive the key.                                                        *)
CheckoutsApart == Cardinality(InFlight) <= 1 + (MaxSlow - slow) + (MaxUpsets - upsets)

(* The user never holds an invoice without its row; a row left pending is  *)
(* payable, unless something died on the way (purchase.py:357-365).        *)
LinksAreBacked ==
    /\ \A t \in Taps : link[t] # "none" => tapRow[t] \in {"PENDING", "COMPLETED"}
    /\ Cardinality({t \in Taps : /\ tapRow[t] = "PENDING" /\ link[t] = "none"
                                 /\ tap[t].at \in {"ending", "done"}}) <= MaxUpsets - upsets

(* A Stars invoice is delivered for one charge, and whoever was charged    *)
(* was credited, or the worker will, or somebody was told.                 *)
StarsHonest ==
    \A t \in Taps :
        LET on(stage) == {x \in Charges : starCharge[x] = [on |-> t, at |-> stage]}
        IN  /\ Cardinality(on("credited")) <= 1
            /\ on("credited") # {} => tapRow[t] = "COMPLETED"
            /\ on("deferred") # {} => t \in queued \/ tapRow[t] = "COMPLETED"
            /\ (link[t] = "invoice" /\ tapRow[t] = "COMPLETED")
                 => on("credited") \cup on("deferred") # {}

(* The wallet's books, whichever of two taps came first: what was put in,  *)
(* less what purchases and trials cost, never below zero.                  *)
WalletAddsUp ==
    /\ wallet >= 0
    /\ wallet = Funds + Sums(ToppedUp) - Sums({t \in Taps : Bought(t)})
                   - TrialPrice * Cardinality(Tried)

(* What a buyer is shown is what there is. *)
TillIsHonest == CheckoutsApart /\ LinksAreBacked /\ StarsHonest /\ WalletAddsUp
=============================================================================
