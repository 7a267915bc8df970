----------------------------- MODULE SmartCart ------------------------------
(***************************************************************************)
(* The smart cart of one buyer (cart.py): a purchase from the wallet that  *)
(* the balance does not cover is stashed in Redis, and the deposit that    *)
(* comes takes it out and buys it (_try_auto_purchase, tasks.py).  Taking  *)
(* is destructive (GETDEL), so an attempt that fails puts the intent back. *)
(* Taps, deposits on several workers and the cart's TTL interleave.        *)
(***************************************************************************)
EXTENDS Naturals, FiniteSets

CONSTANTS
    Intents,          \* purchase requests the buyer may tap
    CartPrice,        \* price of each
    Deposits,         \* top-ups of the wallet
    TopupSum,         \* sum of each
    NoIntent,
    MaxTaps,          \* bound: taps of the buyer
    MaxMishaps        \* bound: panel errors, crashes, lost Redis writes

ASSUME IntentsAssumption ==
    /\ NoIntent \notin Intents
    /\ CartPrice \in [Intents -> Nat]
    /\ TopupSum \in [Deposits -> Nat] /\ IsFiniteSet(Deposits)

VARIABLES
    purse,            \* users.balance_minor
    cart,             \* cart:<user_id>
    stashing,         \* the intent a tap was too short for, not stashed yet
    deposit,          \* each deposit: how far its worker is
    popped,           \* the intent it took out of the cart
    short,            \* taps that were promised an automatic purchase
    bought,           \* purchases deposits made
    owed,             \* the latest promise still stands
    taps, mishaps

cartVars == <<purse, cart, stashing, deposit, popped, short, bought, owed, taps, mishaps>>

SmartCartInit ==
    /\ purse = 0
    /\ cart = NoIntent
    /\ stashing = NoIntent
    /\ deposit = [d \in Deposits |-> "due"]
    /\ popped = [d \in Deposits |-> NoIntent]
    /\ short = [i \in Intents |-> 0]
    /\ bought = [i \in Intents |-> 0]
    /\ owed = FALSE
    /\ taps = MaxTaps
    /\ mishaps = MaxMishaps

(* _pay_with_balance: the checkout is one transaction on the locked wallet. *)
TapAndBuy(i) ==
    /\ stashing = NoIntent /\ taps > 0
    /\ purse >= CartPrice[i]
    /\ purse' = purse - CartPrice[i]
    /\ taps' = taps - 1
    /\ UNCHANGED <<cart, stashing, deposit, popped, short, bought, owed, mishaps>>

TapTooShort(i) ==
    /\ stashing = NoIntent /\ taps > 0
    /\ purse < CartPrice[i]
    /\ stashing' = i
    /\ taps' = taps - 1
    /\ UNCHANGED <<purse, cart, deposit, popped, short, bought, owed, mishaps>>

(* The stash is written after that transaction has ended. *)
Stash ==
    /\ stashing # NoIntent
    /\ cart' = stashing
    /\ short' = [short EXCEPT ![stashing] = @ + 1]
    /\ owed' = TRUE
    /\ stashing' = NoIntent
    /\ UNCHANGED <<purse, deposit, popped, bought, taps, mishaps>>

CreditDeposit(d) ==
    /\ deposit[d] = "due"
    /\ purse' = purse + TopupSum[d]
    /\ deposit' = [deposit EXCEPT ![d] = "credited"]
    /\ UNCHANGED <<cart, stashing, popped, short, bought, owed, taps, mishaps>>

LeftInCart == NoIntent

PopCart(d) ==
    /\ deposit[d] = "credited"
    /\ popped' = [popped EXCEPT ![d] = cart]
    /\ cart' = LeftInCart
    /\ deposit' = [deposit EXCEPT ![d] = IF cart = NoIntent THEN "over" ELSE "buying"]
    /\ UNCHANGED <<purse, stashing, short, bought, owed, taps, mishaps>>

AutoBuy(d) ==
    /\ deposit[d] = "buying"
    /\ purse >= CartPrice[popped[d]]
    /\ purse' = purse - CartPrice[popped[d]]
    /\ bought' = [bought EXCEPT ![popped[d]] = @ + 1]
    /\ owed' = FALSE
    /\ deposit' = [deposit EXCEPT ![d] = "over"]
    /\ UNCHANGED <<cart, stashing, popped, short, taps, mishaps>>

AutoBuyShort(d) ==
    /\ deposit[d] = "buying"
    /\ purse < CartPrice[popped[d]]
    /\ deposit' = [deposit EXCEPT ![d] = "restash"]
    /\ UNCHANGED <<purse, cart, stashing, popped, short, bought, owed, taps, mishaps>>

DropIntent(d) == "over"                                         \* mutant
AfterError(d) == "restash"

(* The panel or the database fails: the checkout rolls back. *)
AutoBuyFails(d) ==
    /\ deposit[d] = "buying"
    /\ mishaps > 0 /\ mishaps' = mishaps - 1
    /\ deposit' = [deposit EXCEPT ![d] = AfterError(d)]
    /\ UNCHANGED <<purse, cart, stashing, popped, short, bought, owed, taps>>

(* Puts the intent back over whatever was stashed in the meantime. *)
Restash(d) ==
    /\ deposit[d] = "restash"
    /\ cart' = popped[d]
    /\ deposit' = [deposit EXCEPT ![d] = "over"]
    /\ UNCHANGED <<purse, stashing, popped, short, bought, owed, taps, mishaps>>

(* The worker dies with the intent, or Redis refuses it (suppressed). *)
IntentLost(d) ==
    /\ deposit[d] \in {"buying", "restash"}
    /\ mishaps > 0 /\ mishaps' = mishaps - 1
    /\ owed' = FALSE
    /\ deposit' = [deposit EXCEPT ![d] = "over"]
    /\ UNCHANGED <<purse, cart, stashing, popped, short, bought, taps>>

CartExpires ==
    /\ cart # NoIntent
    /\ mishaps > 0 /\ mishaps' = mishaps - 1
    /\ cart' = NoIntent
    /\ owed' = FALSE
    /\ UNCHANGED <<purse, stashing, deposit, popped, short, bought, taps>>

SmartCartNext ==
    \/ \E i \in Intents : TapAndBuy(i) \/ TapTooShort(i)
    \/ Stash
    \/ \E d \in Deposits :
         \/ CreditDeposit(d) \/ PopCart(d) \/ AutoBuy(d) \/ AutoBuyShort(d)
         \/ AutoBuyFails(d) \/ Restash(d) \/ IntentLost(d)
    \/ CartExpires

SmartCartSpec == SmartCartInit /\ [][SmartCartNext]_cartVars

-----------------------------------------------------------------------------
(* A promise of an automatic purchase is kept at most once, however many   *)
(* deposits settle at the same time (pop_cart, cart.py:57-61).             *)
PromiseKeptOnce == \A i \in Intents : bought[i] <= short[i]

(* While the buyer is owed a purchase, the intent waits in the cart for    *)
(* the next deposit or is in the hands of a worker: no failed attempt      *)
(* destroys it (tasks.py:174-177, 213-217).                                *)
PromiseStands ==
    owed => \/ cart # NoIntent
            \/ \E d \in Deposits : deposit[d] \in {"buying", "restash"}

(* "The subscription will set itself up", as the bot promises: not never,  *)
(* and not twice.                                                          *)
PromiseKept == PromiseKeptOnce /\ PromiseStands
=============================================================================
