--------------------------- MODULE ReferralBonus ----------------------------
(***************************************************************************)
(* The one-time bonus days of a referral (_grant_signup_days, referral.py) *)
(* inside the settlements of the referred user's payments.  The slot is a  *)
(* zero-amount row with a partial unique index, inserted in a savepoint    *)
(* after the commission, whose credit holds the referrer's row.  The       *)
(* winner renews both parties on the panel, then the settlement commits,   *)
(* or fails and is processed again.  Meanwhile the panel tells of every    *)
(* date it was given, late, twice or out of order, and its webhook copies  *)
(* the date into the row (panel.py:101-110), whichever of the two is newer.*)
(***************************************************************************)
EXTENDS Naturals, FiniteSets

CONSTANTS
    Rewards,          \* payments of the referred user, each settled by a worker
    NoReward,
    MaxRollbacks      \* bound: settlements that fail after the slot was theirs

ASSUME RewardsAssumption == NoReward \notin Rewards

VARIABLES
    referrerRow,      \* the settlement that holds the referrer's row
    slot,             \* the settlement whose marker row exists, committed or not
    slotKept,         \* that row is committed
    rewarding,        \* each settlement: how far it is
    renewedTo,        \* the date each settlement renewed to; 0: it did not
    bonusDays,        \* bonus days in the subscriptions' rows
    panelDays,        \* bonus days on the panel
    news,             \* dates the panel may still tell of
    copied,           \* history: a webhook changed the date in the rows
    undone,           \* history: renewals whose settlement rolled back
    rollbacks

bonusVars == <<referrerRow, slot, slotKept, rewarding, renewedTo, bonusDays, panelDays,
               news, copied, undone, rollbacks>>
told == <<news, copied>>

BonusInit ==
    /\ referrerRow = NoReward /\ slot = NoReward /\ slotKept = FALSE
    /\ rewarding = [p \in Rewards |-> "due"]
    /\ renewedTo = [p \in Rewards |-> 0] /\ bonusDays = 0 /\ panelDays = 0
    /\ news = {0} /\ copied = FALSE
    /\ undone = 0 /\ rollbacks = MaxRollbacks

(* The commission is credited: the referrer's row is held from here on. *)
EarnCommission(p) ==
    /\ rewarding[p] = "due"
    /\ referrerRow = NoReward /\ referrerRow' = p
    /\ rewarding' = [rewarding EXCEPT ![p] = "earned"]
    /\ UNCHANGED <<slot, slotKept, renewedTo, bonusDays, panelDays, told, undone, rollbacks>>

SlotFree == slot = NoReward

ClaimSlot(p) ==
    /\ rewarding[p] = "earned"
    /\ SlotFree
    /\ slot' = p
    /\ rewarding' = [rewarding EXCEPT ![p] = "winner"]
    /\ UNCHANGED <<referrerRow, slotKept, renewedTo, bonusDays, panelDays, told, undone, rollbacks>>

(* The index refuses the row: the savepoint rolls back, the settlement     *)
(* goes on without the bonus.                                              *)
SlotTaken(p) ==
    /\ rewarding[p] = "earned" /\ slotKept
    /\ rewarding' = [rewarding EXCEPT ![p] = "ready"]
    /\ UNCHANGED <<referrerRow, slot, slotKept, renewedTo, bonusDays, panelDays, told, undone,
                   rollbacks>>

(* renew: the panel at once, the rows with the commit, to the date that    *)
(* the days make of the one in the row.                                    *)
GrantDays(p) ==
    /\ rewarding[p] = "winner"
    /\ panelDays' = bonusDays + 1
    /\ news' = news \cup {bonusDays + 1}
    /\ renewedTo' = [renewedTo EXCEPT ![p] = bonusDays + 1]
    /\ rewarding' = [rewarding EXCEPT ![p] = "ready"]
    /\ UNCHANGED <<referrerRow, slot, slotKept, bonusDays, copied, undone, rollbacks>>

RewardCommits(p) ==
    /\ rewarding[p] = "ready"
    /\ bonusDays' = IF renewedTo[p] > 0 THEN renewedTo[p] ELSE bonusDays
    /\ slotKept' = (slotKept \/ slot = p)
    /\ referrerRow' = NoReward
    /\ rewarding' = [rewarding EXCEPT ![p] = "settled"]
    /\ UNCHANGED <<slot, renewedTo, panelDays, told, undone, rollbacks>>

AfterRollback(p) == IF slot = p THEN NoReward ELSE slot

(* A panel error, a crash: everything rolls back but the panel. *)
RewardRollsBack(p) ==
    /\ rewarding[p] \in {"earned", "winner", "ready"}
    /\ rollbacks > 0 /\ rollbacks' = rollbacks - 1
    /\ slot' = AfterRollback(p)
    /\ referrerRow' = NoReward
    /\ undone' = IF renewedTo[p] > 0 THEN undone + 1 ELSE undone
    /\ renewedTo' = [renewedTo EXCEPT ![p] = 0]
    /\ rewarding' = [rewarding EXCEPT ![p] = "due"]
    /\ UNCHANGED <<slotKept, bonusDays, panelDays, told>>

(* The panel's webhook: the row takes the date that is told.               *)
PanelTells ==
    /\ bonusDays' \in news \ {bonusDays}
    /\ copied' = TRUE
    /\ UNCHANGED <<referrerRow, slot, slotKept, rewarding, renewedTo, panelDays, news,
                   undone, rollbacks>>

BonusStep(p) ==
    EarnCommission(p) \/ ClaimSlot(p) \/ SlotTaken(p) \/ GrantDays(p) \/ RewardCommits(p)

BonusNext ==
    \/ \E p \in Rewards : BonusStep(p) \/ RewardRollsBack(p)
    \/ PanelTells

(* Settlements go on, in whatever order the referrer's row passes. *)
BonusFairness == WF_bonusVars(\E p \in Rewards : BonusStep(p))

BonusSpec == BonusInit /\ [][BonusNext]_bonusVars /\ BonusFairness

-----------------------------------------------------------------------------
(* However many payments of a referral are settled at once, and whatever   *)
(* fails, the bonus days come once, in the rows and on the panel           *)
(* (referral.py:127-132).  Exception: when the webhook has copied a date   *)
(* into the row, every renewal that was rolled back may count once more.   *)
BonusOnce ==
    LET most == 1 + (IF copied THEN undone ELSE 0)
    IN  bonusDays <= most /\ panelDays <= most

(* The first money of a referral brings the bonus to the panel, and to the *)
(* rows unless a webhook puts an older date there; every settlement ends,  *)
(* with the bonus or without.                                              *)
BonusComes ==
    <>(/\ panelDays >= 1 /\ (bonusDays >= 1 \/ copied)
       /\ \A p \in Rewards : rewarding[p] = "settled")
=============================================================================
