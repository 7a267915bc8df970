---------------------------- MODULE CardAutopay -----------------------------
(***************************************************************************)
(* Renewal of one subscription from the saved card: the second half of     *)
(* _autopay_one and _autopay_charge_card (tasks.py).  A run that finds the *)
(* balance too small stamps the attempt under the subscription's row lock  *)
(* and commits; it then creates a PENDING payment, charges the card        *)
(* without confirmation, stores the provider's id and settles.  Runs       *)
(* overlap, die and lose answers; the task fires every two hours.          *)
(***************************************************************************)
EXTENDS Naturals, FiniteSets

CONSTANTS
    CardRuns,         \* runs of process_autopay
    MaxUnlucky,       \* bound: lost answers and crashes
    MaxGaps           \* bound: times the 20 hours pass

VARIABLES
    attempted,        \* autopay_card_attempted_at is less than 20 hours old
    inWindow,         \* expire_at is within the horizon
    charging,         \* each run: how far it is
    charge,           \* what became of its payment at the provider
    known,            \* its external_id is stored
    settledBy,        \* runs whose payment is COMPLETED
    chargesToday,     \* charges the provider made since the gap began
    unlucky, gaps

cardVars == <<attempted, inWindow, charging, charge, known, settledBy,
              chargesToday, unlucky, gaps>>

CardInit ==
    /\ attempted = FALSE /\ inWindow = TRUE
    /\ charging = [r \in CardRuns |-> "idle"]
    /\ charge = [r \in CardRuns |-> "none"]
    /\ known = {} /\ settledBy = {}
    /\ chargesToday = 0
    /\ unlucky = MaxUnlucky /\ gaps = MaxGaps

(* The snapshot of subscriptions in the window. *)
Snapshot(r) ==
    /\ charging[r] = "idle" /\ charge[r] = "none" /\ inWindow
    /\ charging' = [charging EXCEPT ![r] = "candidate"]
    /\ UNCHANGED <<attempted, inWindow, charge, known, settledBy, chargesToday, unlucky, gaps>>

AttemptDue == ~attempted

ClaimAttempt(r) ==
    /\ charging[r] = "candidate"
    /\ IF inWindow /\ AttemptDue
       THEN attempted' = TRUE /\ charging' = [charging EXCEPT ![r] = "claimed"]
       ELSE attempted' = attempted /\ charging' = [charging EXCEPT ![r] = "idle"]
    /\ UNCHANGED <<inWindow, charge, known, settledBy, chargesToday, unlucky, gaps>>

(* Stamps the attempt again and commits the PENDING payment. *)
StartPayment(r) ==
    /\ charging[r] = "claimed"
    /\ attempted' = TRUE
    /\ charging' = [charging EXCEPT ![r] = "started"]
    /\ UNCHANGED <<inWindow, charge, known, settledBy, chargesToday, unlucky, gaps>>

(* charge_saved: taken, declined or still pending. *)
ChargeCard(r) ==
    /\ charging[r] = "started"
    /\ \E outcome \in {"taken", "declined", "pending"} :
         /\ charge' = [charge EXCEPT ![r] = outcome]
         /\ chargesToday' = IF outcome = "declined" THEN chargesToday ELSE chargesToday + 1
    /\ charging' = [charging EXCEPT ![r] = "answered"]
    /\ UNCHANGED <<attempted, inWindow, known, settledBy, unlucky, gaps>>

(* The answer is lost: the payment stays PENDING without an id. *)
ChargeUnanswered(r) ==
    /\ charging[r] = "started"
    /\ unlucky > 0 /\ unlucky' = unlucky - 1
    /\ \E outcome \in {"taken", "declined", "pending"} :
         /\ charge' = [charge EXCEPT ![r] = outcome]
         /\ chargesToday' = IF outcome = "declined" THEN chargesToday ELSE chargesToday + 1
    /\ charging' = [charging EXCEPT ![r] = "idle"]
    /\ UNCHANGED <<attempted, inWindow, known, settledBy, gaps>>

StoreChargeId(r) ==
    /\ charging[r] = "answered"
    /\ known' = known \cup {r}
    /\ charging' = [charging EXCEPT ![r] = IF charge[r] = "pending" THEN "idle" ELSE "settling"]
    /\ UNCHANGED <<attempted, inWindow, charge, settledBy, chargesToday, unlucky, gaps>>

(* PaymentService.process: a completed charge renews, once. *)
Settle(r) ==
    /\ settledBy' = IF charge[r] = "taken" THEN settledBy \cup {r} ELSE settledBy
    /\ inWindow' = (inWindow /\ charge[r] # "taken")

SettleNow(r) ==
    /\ charging[r] = "settling"
    /\ Settle(r)
    /\ charging' = [charging EXCEPT ![r] = "idle"]
    /\ UNCHANGED <<attempted, charge, known, chargesToday, unlucky, gaps>>

(* The webhook, or the sweep for a payment whose id is stored. *)
SettleLater(r) ==
    /\ charging[r] = "idle" /\ r \in known /\ r \notin settledBy
    /\ charge[r] = "taken"
    /\ Settle(r)
    /\ UNCHANGED <<attempted, charging, charge, known, chargesToday, unlucky, gaps>>

PendingResolves(r) ==
    /\ charge[r] = "pending"
    /\ charge' = [charge EXCEPT ![r] = "taken"]
    /\ UNCHANGED <<attempted, inWindow, charging, known, settledBy, chargesToday, unlucky, gaps>>

CardRunDies(r) ==
    /\ charging[r] # "idle"
    /\ unlucky > 0 /\ unlucky' = unlucky - 1
    /\ charging' = [charging EXCEPT ![r] = "idle"]
    /\ UNCHANGED <<attempted, inWindow, charge, known, settledBy, chargesToday, gaps>>

(* Twenty hours after the last stamp; no run lasts that long. *)
GapPasses ==
    /\ attempted /\ gaps > 0 /\ gaps' = gaps - 1
    /\ \A r \in CardRuns : charging[r] \in {"idle", "candidate"}
    /\ attempted' = FALSE /\ chargesToday' = 0
    /\ UNCHANGED <<inWindow, charging, charge, known, settledBy, unlucky>>

CardStep(r) ==
    \/ Snapshot(r) \/ ClaimAttempt(r) \/ StartPayment(r) \/ ChargeCard(r)
    \/ StoreChargeId(r) \/ SettleNow(r) \/ SettleLater(r)

CardNext ==
    \/ \E r \in CardRuns :
         CardStep(r) \/ ChargeUnanswered(r) \/ PendingResolves(r) \/ CardRunDies(r)
    \/ GapPasses

CardSpec == CardInit /\ [][CardNext]_cardVars

-----------------------------------------------------------------------------
(* However runs overlap and whatever is lost, a card is charged at most    *)
(* once in the 20 hours after an attempt: a charge in limbo is not         *)
(* repeated (tasks.py:1887-1905, 1972).                                    *)
OneChargePerGap == chargesToday <= 1
=============================================================================
