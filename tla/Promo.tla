------------------------------- MODULE Promo --------------------------------
(***************************************************************************)
(* Redeeming one promo code (promo.py, and its callers in the bot, the     *)
(* gift links and the cabinet).  A redemption locks the code's row, counts *)
(* its activations, gives the reward and inserts its own activation; it    *)
(* commits, or fails and leaves nothing behind but what it wrote on the    *)
(* panel.  In between an admin edits the code, and the panel's webhook     *)
(* copies a date it tells of into the row (panel.py:101-110).  Days are    *)
(* those added to a usable subscription; a first one is Fulfilment's grant.*)
(***************************************************************************)
EXTENDS Naturals, FiniteSets

CONSTANTS
    People,           \* users who try the code
    Redeems,          \* requests in flight
    Redeemer,         \* who makes a request
    Limits,           \* limits an admin may set
    NoRedeem,
    MaxEdits,         \* bound: edits by an admin
    MaxPanelErrors    \* bound: panel errors and crashes

ASSUME RedeemsAssumption ==
    /\ Redeemer \in [Redeems -> People] /\ NoRedeem \notin Redeems
    /\ Limits \subseteq Nat

VARIABLES
    promoOn, codeLimit,   \* is_active and max_activations
    promoLock,        \* the code's row lock
    activated,        \* people with an activation row
    redeem,           \* each request: how far it is
    inDays,           \* the reward is days, not something of the wallet's
    promoGiven,       \* rewards in the committed rows, per person
    panelGiven,       \* rewards written on the panel, per person
    promoNews,        \* what the panel may still tell of each person
    promoCopied,      \* history: people whose row took it from a webhook
    promoUndone,      \* history: days given to each and rolled back
    highest,          \* the highest limit there ever was
    edits, panelErrors

promoCode == <<promoOn, codeLimit, highest, edits>>
promoDates == <<inDays, promoNews, promoCopied, promoUndone>>
promoVars == <<promoCode, promoLock, activated, redeem, promoGiven, panelGiven, promoDates,
               panelErrors>>

PromoInit ==
    /\ promoOn = TRUE
    /\ codeLimit = 1 /\ highest = 1
    /\ promoLock = NoRedeem
    /\ activated = {}
    /\ redeem = [r \in Redeems |-> "new"]
    /\ promoGiven = [u \in People |-> 0]
    /\ panelGiven = [u \in People |-> 0]
    /\ inDays \in BOOLEAN
    /\ promoNews = [u \in People |-> {0}] /\ promoCopied = {}
    /\ promoUndone = [u \in People |-> 0]
    /\ edits = MaxEdits /\ panelErrors = MaxPanelErrors

CodeFree == promoLock = NoRedeem

(* get_by_code_for_update *)
LockCode(r) ==
    /\ redeem[r] = "new" /\ CodeFree
    /\ promoLock' = r
    /\ redeem' = [redeem EXCEPT ![r] = "locked"]
    /\ UNCHANGED <<promoCode, activated, promoGiven, panelGiven, promoDates, panelErrors>>

UsedOrOne == Cardinality(activated) <= codeLimit                \* mutant
SlotsLeft == Cardinality(activated) < codeLimit

Leave(r) == promoLock' = IF promoLock = r THEN NoRedeem ELSE promoLock

(* _check_validity *)
CheckCode(r) ==
    /\ redeem[r] = "locked"
    /\ IF promoOn /\ Redeemer[r] \notin activated /\ SlotsLeft
       THEN redeem' = [redeem EXCEPT ![r] = "valid"] /\ UNCHANGED promoLock
       ELSE redeem' = [redeem EXCEPT ![r] = "refused"] /\ Leave(r)
    /\ UNCHANGED <<promoCode, activated, promoGiven, panelGiven, promoDates, panelErrors>>

(* Days go to the panel first, counted from the row; wallet rewards only   *)
(* go to the rows.                                                         *)
GiveReward(r) ==
    LET u == Redeemer[r]
        days == promoGiven[u] + 1
    IN  /\ redeem[r] = "valid"
        /\ IF inDays
           THEN /\ panelGiven' = [panelGiven EXCEPT ![u] = days]
                /\ promoNews' = [promoNews EXCEPT ![u] = @ \cup {days}]
           ELSE UNCHANGED <<panelGiven, promoNews>>
        /\ redeem' = [redeem EXCEPT ![r] = "given"]
        /\ UNCHANGED <<promoCode, promoLock, activated, promoGiven, inDays, promoCopied,
                       promoUndone, panelErrors>>

(* UNIQUE (promocode, user) admits one activation per person.  The row     *)
(* takes the date the panel was given.                                     *)
Activate(r) ==
    /\ redeem[r] = "given"
    /\ Redeemer[r] \notin activated
    /\ activated' = activated \cup {Redeemer[r]}
    /\ promoGiven' = [promoGiven EXCEPT ![Redeemer[r]] =
                          IF inDays THEN panelGiven[Redeemer[r]] ELSE @ + 1]
    /\ redeem' = [redeem EXCEPT ![r] = "done"]
    /\ Leave(r)
    /\ UNCHANGED <<promoCode, panelGiven, promoDates, panelErrors>>

(* The panel, the index or the process fails the request; the user tries   *)
(* again.                                                                  *)
RedeemFails(r) ==
    /\ redeem[r] \in {"locked", "valid", "given"}
    /\ panelErrors > 0 /\ panelErrors' = panelErrors - 1
    /\ redeem' = [redeem EXCEPT ![r] = "new"]
    /\ Leave(r)
    /\ promoUndone' = IF inDays /\ redeem[r] = "given"
                      THEN [promoUndone EXCEPT ![Redeemer[r]] = @ + 1] ELSE promoUndone
    /\ UNCHANGED <<promoCode, activated, promoGiven, panelGiven, inDays, promoNews,
                   promoCopied>>

(* The panel's webhook: the row takes the date that is told.               *)
PromoPanelTells(u) ==
    /\ inDays
    /\ \E days \in promoNews[u] \ {promoGiven[u]} :
         promoGiven' = [promoGiven EXCEPT ![u] = days]
    /\ promoCopied' = promoCopied \cup {u}
    /\ UNCHANGED <<promoCode, promoLock, activated, redeem, panelGiven, inDays, promoNews,
                   promoUndone, panelErrors>>

(* An edit of the row waits for its lock. *)
EditCode ==
    /\ edits > 0 /\ edits' = edits - 1 /\ promoLock = NoRedeem
    /\ \E n \in Limits, on \in BOOLEAN :
         /\ codeLimit' = n /\ promoOn' = on
         /\ highest' = IF n > highest THEN n ELSE highest
    /\ UNCHANGED <<promoLock, activated, redeem, promoGiven, panelGiven, promoDates,
                   panelErrors>>

PromoNext ==
    \/ \E r \in Redeems :
         LockCode(r) \/ CheckCode(r) \/ GiveReward(r) \/ Activate(r) \/ RedeemFails(r)
    \/ \E u \in People : PromoPanelTells(u)
    \/ EditCode

PromoSpec == PromoInit /\ [][PromoNext]_promoVars

-----------------------------------------------------------------------------
(* A code is activated no more often than a limit it had allowed, however  *)
(* redemptions overlap, and a person gets its reward once: in the rows for *)
(* an activation only, on the panel also for a request that rolled back    *)
(* (promo.py:48-49, dao/promocode.py:17-21).  Exception: where a webhook   *)
(* has copied a date into the row, every request of that person that       *)
(* rolled back may count once more.                                        *)
RewardOncePerSlot ==
    /\ Cardinality(activated) <= highest
    /\ \A u \in People :
         LET most == 1 + (IF u \in promoCopied THEN promoUndone[u] ELSE 0)
         IN  /\ promoGiven[u] <= most /\ panelGiven[u] <= most
             /\ u \notin promoCopied => promoGiven[u] = IF u \in activated THEN 1 ELSE 0
             /\ u \in activated /\ inDays => panelGiven[u] >= 1
=============================================================================
