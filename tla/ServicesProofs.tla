---------------------------- MODULE ServicesProofs ----------------------------
(***************************************************************************)
(* Machine-checked proofs about the services around the core, composed as  *)
(* in MCServices: for any sales, runs, sweeps, settlements, accounts and   *)
(* payment sums, each safety property the model checker checks there on a  *)
(* small instance.  One inductive invariant per service; a step of         *)
(* MCServices is a step of one of them and leaves the others alone.        *)
(***************************************************************************)
EXTENDS MCServices, Sums, TLAPS

-----------------------------------------------------------------------------
(* Fiscal receipts: a sale in the hand of a run is claimed, and by nobody  *)
(* else; what is unclaimed, or about to be called for, has been registered *)
(* only as often as an answer was lost.                                    *)

ReceiptsTyped ==
    /\ claimed \in [Sales -> BOOLEAN]
    /\ filed \in [Sales -> Nat]
    /\ unheard \in [Sales -> Nat]
    /\ queue \in [ReceiptRuns -> SUBSET Sales]
    /\ inHand \in [ReceiptRuns -> Sales \cup {NoSale}]
    /\ filing \in [ReceiptRuns -> {"no", "calling", "answered", "failed"}]

InHandClaimed(r) ==
    filing[r] # "no" => inHand[r] \in Sales /\ claimed[inHand[r]]

(* Every registration of the sale is one whose answer never arrived. *)
Unanswered(s) == filed[s] = unheard[s]

ReceiptsInv ==
    /\ ReceiptsTyped
    /\ IncomeOnce
    /\ \A r \in ReceiptRuns : InHandClaimed(r)
    /\ \A r, q \in ReceiptRuns :
          filing[r] # "no" /\ filing[q] # "no" /\ r # q => inHand[r] # inHand[q]
    /\ \A s \in Sales : ~claimed[s] => Unanswered(s)
    /\ \A r \in ReceiptRuns : filing[r] \in {"calling", "failed"} => Unanswered(inHand[r])

LEMMA InitReceipts == ReceiptsInit => ReceiptsInv
  BY DEF ReceiptsInit, ReceiptsInv, ReceiptsTyped, IncomeOnce, InHandClaimed, Unanswered

LEMMA ReceiptsStep == ReceiptsInv /\ [ReceiptsNext]_receiptVars => ReceiptsInv'
<1> SUFFICES ASSUME ReceiptsInv, [ReceiptsNext]_receiptVars PROVE ReceiptsInv'
  OBVIOUS
<1> USE DEF ReceiptsInv, ReceiptsTyped, InHandClaimed, Unanswered, IncomeOnce, saleVars
<1>1. CASE UNCHANGED receiptVars
  BY <1>1 DEF receiptVars
<1>2. ASSUME NEW r \in ReceiptRuns, ListSales(r) PROVE ReceiptsInv'
  BY <1>2 DEF ListSales, Unreceipted
<1>3. ASSUME NEW r \in ReceiptRuns, ClaimSale(r) PROVE ReceiptsInv'
  <2>1. PICK s \in Sales :
          /\ queue' = [queue EXCEPT ![r] = @ \ {s}]
          /\ IF Unclaimed(s)
             THEN /\ claimed' = [claimed EXCEPT ![s] = TRUE]
                  /\ inHand' = [inHand EXCEPT ![r] = s]
                  /\ filing' = [filing EXCEPT ![r] = "calling"]
             ELSE UNCHANGED <<claimed, inHand, filing>>
    BY <1>3 DEF ClaimSale
  <2>2. filing[r] = "no" /\ UNCHANGED <<filed, unheard>>
    BY <1>3 DEF ClaimSale
  <2>3. queue' \in [ReceiptRuns -> SUBSET Sales]
    BY <2>1
  <2>4. CASE Unclaimed(s)
    <3>1. /\ claimed' = [claimed EXCEPT ![s] = TRUE]
          /\ inHand' = [inHand EXCEPT ![r] = s]
          /\ filing' = [filing EXCEPT ![r] = "calling"]
          /\ filed[s] = unheard[s] /\ ~claimed[s]
      BY <2>1, <2>4 DEF Unclaimed
    <3>2. \A q \in ReceiptRuns : filing[q] # "no" => inHand[q] # s
      BY <3>1
    <3>3. QED BY <2>2, <2>3, <3>1, <3>2
  <2>5. CASE ~Unclaimed(s)
    BY <2>1, <2>2, <2>3, <2>5
  <2>6. QED BY <2>4, <2>5
<1>4. ASSUME NEW r \in ReceiptRuns, Registered(r) PROVE ReceiptsInv'
  BY <1>4 DEF Registered
<1>5. ASSUME NEW r \in ReceiptRuns, CallFails(r) PROVE ReceiptsInv'
  BY <1>5 DEF CallFails
<1>6. ASSUME NEW r \in ReceiptRuns, TakeBackClaim(r) PROVE ReceiptsInv'
  BY <1>6 DEF TakeBackClaim, AfterFailure
<1>7. ASSUME NEW r \in ReceiptRuns, SaveReceipt(r) PROVE ReceiptsInv'
  BY <1>7 DEF SaveReceipt
<1>8. ASSUME NEW r \in ReceiptRuns, ReceiptRunDies(r) PROVE ReceiptsInv'
  BY <1>8 DEF ReceiptRunDies
<1>9. ASSUME NEW s \in Sales, GrowsOld(s) PROVE ReceiptsInv'
  BY <1>9 DEF GrowsOld
<1>10. QED BY <1>1, <1>2, <1>3, <1>4, <1>5, <1>6, <1>7, <1>8, <1>9 DEF ReceiptsNext, ReceiptStep

-----------------------------------------------------------------------------
(* Referral bonus: from the commission to the commit a settlement holds    *)
(* the referrer's row, so at most one is on its way; days are granted only *)
(* by the settlement whose marker row is there.                            *)

UnderWay == {"earned", "winner", "ready"}

BonusTyped ==
    /\ referrerRow \in Rewards \cup {NoReward}
    /\ slot \in Rewards \cup {NoReward}
    /\ slotKept \in BOOLEAN
    /\ rewarding \in [Rewards -> UnderWay \cup {"due", "settled"}]
    /\ renewedTo \in [Rewards -> Nat]
    /\ bonusDays \in Nat /\ panelDays \in Nat /\ undone \in Nat
    /\ news \subseteq Nat /\ copied \in BOOLEAN

SlotsInOrder ==
    /\ \A p \in Rewards : rewarding[p] \in UnderWay => referrerRow = p
    /\ slot # NoReward /\ ~slotKept => rewarding[slot] \in {"winner", "ready"}
    /\ slotKept => slot # NoReward /\ rewarding[slot] = "settled"
    /\ \A p \in Rewards : rewarding[p] = "winner" => slot = p /\ ~slotKept
    /\ \A p \in Rewards : renewedTo[p] > 0 => slot = p /\ rewarding[p] \in {"ready", "settled"}
    /\ slot # NoReward => (rewarding[slot] = "ready" => renewedTo[slot] > 0)

(* The renewals that have been, the one that stands and those undone.      *)
Renewals == IF slot # NoReward /\ renewedTo[slot] > 0 THEN undone + 1 ELSE undone

(* Each counts once at most, in what is written, told or to be committed.  *)
DatesBounded ==
    /\ bonusDays <= Renewals /\ panelDays <= Renewals
    /\ \A d \in news : d <= Renewals
    /\ \A p \in Rewards : renewedTo[p] <= Renewals

RowsOwn ==
    ~copied =>
        /\ bonusDays = (IF slotKept THEN 1 ELSE 0)
        /\ panelDays <= 1
        /\ \A p \in Rewards : renewedTo[p] <= 1

BonusInv == BonusTyped /\ SlotsInOrder /\ DatesBounded /\ RowsOwn

LEMMA InitBonus == BonusInit => BonusInv
<1> SUFFICES ASSUME BonusInit PROVE BonusInv
  OBVIOUS
<1>1. BonusTyped
  <2>1. /\ rewarding \in [Rewards -> UnderWay \cup {"due", "settled"}]
        /\ renewedTo \in [Rewards -> Nat]
    BY DEF BonusInit, UnderWay
  <2>2. news \subseteq Nat /\ bonusDays \in Nat /\ panelDays \in Nat /\ undone \in Nat
    BY DEF BonusInit
  <2>3. /\ referrerRow \in Rewards \cup {NoReward} /\ slot \in Rewards \cup {NoReward}
        /\ slotKept \in BOOLEAN /\ copied \in BOOLEAN
    BY DEF BonusInit
  <2>4. QED BY <2>1, <2>2, <2>3 DEF BonusTyped
<1>2. /\ slot = NoReward /\ slotKept = FALSE /\ bonusDays = 0 /\ panelDays = 0 /\ news = {0}
      /\ undone = 0
  BY DEF BonusInit
<1>3. \A p \in Rewards : rewarding[p] = "due" /\ renewedTo[p] = 0
  BY DEF BonusInit
<1>4. SlotsInOrder
  BY <1>2, <1>3 DEF SlotsInOrder, UnderWay
<1>5. DatesBounded /\ RowsOwn
  BY <1>2, <1>3 DEF DatesBounded, RowsOwn, Renewals
<1>6. QED BY <1>1, <1>4, <1>5 DEF BonusInv

LEMMA BonusInvStep == BonusInv /\ [BonusNext]_bonusVars => BonusInv'
<1> SUFFICES ASSUME BonusInv, [BonusNext]_bonusVars PROVE BonusInv'
  OBVIOUS
<1> USE RewardsAssumption DEF BonusInv, BonusTyped, UnderWay
<1>1. CASE UNCHANGED bonusVars
  BY <1>1 DEF bonusVars, SlotsInOrder, DatesBounded, RowsOwn, Renewals
<1>2. ASSUME NEW p \in Rewards, EarnCommission(p) PROVE BonusInv'
  <2>1. BonusTyped' /\ SlotsInOrder'
    BY <1>2 DEF EarnCommission, SlotsInOrder, told
  <2>2. DatesBounded' /\ RowsOwn'
    BY <1>2 DEF EarnCommission, DatesBounded, RowsOwn, Renewals, told
  <2>3. QED BY <2>1, <2>2
<1>3. ASSUME NEW p \in Rewards, ClaimSlot(p) PROVE BonusInv'
  <2>1. /\ slot = NoReward /\ slot' = p /\ rewarding[p] = "earned"
        /\ rewarding' = [rewarding EXCEPT ![p] = "winner"]
        /\ UNCHANGED <<referrerRow, slotKept, renewedTo, bonusDays, panelDays, news, copied, undone>>
    BY <1>3 DEF ClaimSlot, SlotFree, told
  <2>2. BonusTyped' /\ SlotsInOrder'
    BY <2>1 DEF SlotsInOrder
  <2>3. renewedTo[p] = 0
    BY <2>1 DEF SlotsInOrder
  <2>4. Renewals' = Renewals
    BY <2>1, <2>3 DEF Renewals
  <2>5. DatesBounded' /\ RowsOwn'
    BY <2>1, <2>4 DEF DatesBounded, RowsOwn
  <2>6. QED BY <2>2, <2>5
<1>4. ASSUME NEW p \in Rewards, SlotTaken(p) PROVE BonusInv'
  <2>1. /\ rewarding[p] = "earned" /\ slotKept
        /\ rewarding' = [rewarding EXCEPT ![p] = "ready"]
        /\ UNCHANGED <<referrerRow, slot, slotKept, renewedTo, bonusDays, panelDays, news, copied,
                       undone>>
    BY <1>4 DEF SlotTaken, told
  <2>2. BonusTyped' /\ SlotsInOrder'
    BY <2>1 DEF SlotsInOrder
  <2>3. DatesBounded' /\ RowsOwn'
    BY <2>1 DEF DatesBounded, RowsOwn, Renewals
  <2>4. QED BY <2>2, <2>3
<1>5. ASSUME NEW p \in Rewards, GrantDays(p) PROVE BonusInv'
  <2>1. /\ rewarding[p] = "winner" /\ panelDays' = bonusDays + 1
        /\ news' = news \cup {bonusDays + 1}
        /\ renewedTo' = [renewedTo EXCEPT ![p] = bonusDays + 1]
        /\ rewarding' = [rewarding EXCEPT ![p] = "ready"]
        /\ UNCHANGED <<referrerRow, slot, slotKept, bonusDays, copied, undone>>
    BY <1>5 DEF GrantDays
  <2>2. slot = p /\ ~slotKept /\ renewedTo[p] = 0
    BY <2>1 DEF SlotsInOrder
  <2>3. BonusTyped'
    BY <2>1
  <2>4. SlotsInOrder'
    BY <2>1, <2>2 DEF SlotsInOrder
  <2>5. Renewals = undone /\ Renewals' = undone + 1
    BY <2>1, <2>2 DEF Renewals
  <2>6. DatesBounded'
    BY <2>1, <2>5 DEF DatesBounded
  <2>7. RowsOwn'
    BY <2>1, <2>2 DEF RowsOwn
  <2>8. QED BY <2>3, <2>4, <2>6, <2>7
<1>6. ASSUME NEW p \in Rewards, RewardCommits(p) PROVE BonusInv'
  <2>1. /\ rewarding[p] = "ready" /\ referrerRow = p
        /\ bonusDays' = (IF renewedTo[p] > 0 THEN renewedTo[p] ELSE bonusDays)
        /\ slotKept' = (slotKept \/ slot = p) /\ referrerRow' = NoReward
        /\ rewarding' = [rewarding EXCEPT ![p] = "settled"]
        /\ UNCHANGED <<slot, renewedTo, panelDays, news, copied, undone>>
    BY <1>6 DEF RewardCommits, told, SlotsInOrder
  <2>2. slotKept' \in BOOLEAN /\ bonusDays' \in Nat
    BY <2>1
  <2>3. DatesBounded'
    BY <2>1 DEF DatesBounded, Renewals
  <2>4. CASE slot = p
    <3>1. renewedTo[p] > 0 /\ slotKept' = TRUE
      BY <2>1, <2>4 DEF SlotsInOrder
    <3>2. SlotsInOrder'
      BY <2>1, <2>4, <3>1 DEF SlotsInOrder
    <3>3. RowsOwn'
      BY <2>1, <2>4, <3>1 DEF RowsOwn
    <3>4. QED BY <2>1, <2>2, <2>3, <3>2, <3>3
  <2>5. CASE slot # p
    <3>1. renewedTo[p] = 0 /\ slotKept' = slotKept
      BY <2>1, <2>5 DEF SlotsInOrder
    <3>2. SlotsInOrder'
      BY <2>1, <2>5, <3>1 DEF SlotsInOrder
    <3>3. RowsOwn'
      BY <2>1, <3>1 DEF RowsOwn
    <3>4. QED BY <2>1, <2>2, <2>3, <3>2, <3>3
  <2>6. QED BY <2>4, <2>5
<1>7. ASSUME NEW p \in Rewards, RewardRollsBack(p) PROVE BonusInv'
  <2>1. /\ rewarding[p] \in UnderWay /\ slot' = (IF slot = p THEN NoReward ELSE slot)
        /\ referrerRow' = NoReward /\ referrerRow = p
        /\ undone' = (IF renewedTo[p] > 0 THEN undone + 1 ELSE undone)
        /\ renewedTo' = [renewedTo EXCEPT ![p] = 0]
        /\ rewarding' = [rewarding EXCEPT ![p] = "due"]
        /\ UNCHANGED <<slotKept, bonusDays, panelDays, news, copied>>
    BY <1>7 DEF RewardRollsBack, AfterRollback, told, SlotsInOrder
  <2>2. BonusTyped'
    BY <2>1
  <2>3. SlotsInOrder'
    BY <2>1 DEF SlotsInOrder
  <2>4. Renewals' = Renewals
    <3>1. CASE slot = p
      BY <2>1, <3>1 DEF Renewals
    <3>2. CASE slot # p
      <4>1. renewedTo[p] = 0
        BY <3>2 DEF SlotsInOrder
      <4>2. QED BY <2>1, <3>2, <4>1 DEF Renewals
    <3>3. QED BY <3>1, <3>2
  <2>5. Renewals \in Nat
    BY DEF Renewals
  <2>6. DatesBounded'
    BY <2>1, <2>4, <2>5 DEF DatesBounded
  <2>7. RowsOwn'
    BY <2>1 DEF RowsOwn
  <2>8. QED BY <2>2, <2>3, <2>6, <2>7
<1>8. CASE PanelTells
  <2>1. /\ bonusDays' \in news /\ copied' = TRUE
        /\ UNCHANGED <<referrerRow, slot, slotKept, rewarding, renewedTo, panelDays, news, undone>>
    BY <1>8 DEF PanelTells
  <2>2. BonusTyped' /\ SlotsInOrder'
    BY <2>1 DEF SlotsInOrder
  <2>3. DatesBounded' /\ RowsOwn'
    BY <2>1 DEF DatesBounded, RowsOwn, Renewals
  <2>4. QED BY <2>2, <2>3
<1>9. QED BY <1>1, <1>2, <1>3, <1>4, <1>5, <1>6, <1>7, <1>8 DEF BonusNext, BonusStep

LEMMA BonusGivenOnce == BonusInv => BonusOnce
<1> SUFFICES ASSUME BonusInv PROVE BonusOnce
  OBVIOUS
<1> USE DEF BonusInv
<1>1. CASE copied
  BY <1>1 DEF BonusTyped, DatesBounded, Renewals, BonusOnce
<1>2. CASE ~copied
  BY <1>2 DEF BonusTyped, RowsOwn, BonusOnce
<1>3. QED BY <1>1, <1>2

-----------------------------------------------------------------------------
(* Panel watchdog: under an administrator's own flag, unless the watchdog  *)
(* overlooked it, there is no marker, and the task is not between its two  *)
(* writes.                                                                 *)

WatchInv ==
    /\ cached \in {"none", "on", "off"}
    /\ byHand /\ ~overlooked => maintenance /\ ~marker /\ ~BetweenWrites

LEMMA InitWatch == WatchInit => WatchInv
  BY DEF WatchInit, WatchInv, BetweenWrites

LEMMA WatchInvStep == WatchInv /\ [WatchNext]_watchVars => WatchInv'
<1> SUFFICES ASSUME WatchInv, [WatchNext]_watchVars PROVE WatchInv'
  OBVIOUS
<1> USE DEF WatchInv, BetweenWrites, hand
<1>1. CASE UNCHANGED watchVars
  BY <1>1 DEF watchVars
<1>2. ASSUME NEW on \in BOOLEAN, AdminSets(on) PROVE WatchInv'
  <2>1. /\ maintenance' = on /\ UNCHANGED <<marker, watch, cached>>
        /\ byHand' = (on /\ (byHand \/ ~marker))
        /\ overlooked' = (on /\ (overlooked \/ BetweenWrites))
    BY <1>2 DEF AdminSets
  <2>2. CASE byHand
    BY <2>1, <2>2
  <2>3. CASE ~byHand
    BY <2>1, <2>3
  <2>4. QED BY <2>2, <2>3
<1>3. CASE Recognise
  BY <1>3 DEF Recognise, OwnFlag
<1>4. CASE Raise
  <2>1. CASE AlreadyOn
    BY <1>4, <2>1 DEF Raise, AlreadyOn
  <2>2. CASE ~AlreadyOn
    <3>1. maintenance => cached = "off"
      BY <2>2 DEF AlreadyOn, Filled, InDatabase
    <3>2. cached' \in {"none", "on", "off"}
      BY <1>4, <2>2 DEF Raise, CacheDropped, InDatabase
    <3>3. byHand' = byHand /\ overlooked' = (overlooked \/ (byHand /\ cached = "off"))
      BY <1>4 DEF Raise
    <3>4. QED BY <3>1, <3>2, <3>3
  <2>3. QED BY <2>1, <2>2
<1>5. CASE PingAnswered \/ PingFails
  BY <1>5 DEF PingAnswered, PingFails, Filled, InDatabase
<1>6. CASE Lift
  BY <1>6 DEF Lift, CacheDropped, InDatabase
<1>7. CASE Mark
  BY <1>7 DEF Mark
<1>8. CASE CacheFills \/ CacheAges
  BY <1>8 DEF CacheFills, CacheAges, Filled, InDatabase
<1>9. CASE PanelFlips \/ CounterExpires \/ MarkerExpires \/ WatchDies
  BY <1>9 DEF PanelFlips, CounterExpires, MarkerExpires, WatchDies
<1>10. QED BY <1>1, <1>2, <1>3, <1>4, <1>5, <1>6, <1>7, <1>8, <1>9 DEF WatchNext, WatchStep

-----------------------------------------------------------------------------
(* Reconcile sweep: until a lock is robbed, a working sweep that has not   *)
(* outlived its lock is the one that holds it.                             *)

SweepTyped ==
    /\ sweepLock \in Sweeps \cup {NoSweep}
    /\ sweep \in [Sweeps -> {"idle", "tier", "polling", "over", "releasing"}]
    /\ outlived \subseteq Sweeps
    /\ robbed \in BOOLEAN

SweepInv ==
    /\ SweepTyped
    /\ robbed \/ \A w \in Sweeps :
          /\ w \notin outlived /\ sweep[w] # "idle" => sweepLock = w
          /\ sweep[w] = "releasing" => w \notin outlived
    /\ sweepLock \notin outlived

LEMMA InitSweep == SweepInit => SweepInv
  BY DEF SweepInit, SweepInv, SweepTyped

LEMMA SweepInvStep == SweepInv /\ [SweepNext]_sweepVars => SweepInv'
<1> SUFFICES ASSUME SweepInv, [SweepNext]_sweepVars PROVE SweepInv'
  OBVIOUS
<1> USE StuckAssumption DEF SweepInv, SweepTyped
<1>1. CASE UNCHANGED sweepVars
  BY <1>1 DEF sweepVars
<1>2. ASSUME NEW w \in Sweeps, TakeLock(w) PROVE SweepInv'
  BY <1>2 DEF TakeLock
<1>3. ASSUME NEW w \in Sweeps, ReadPage(w) \/ PollStuck(w) \/ PageDone(w) PROVE SweepInv'
  BY <1>3 DEF ReadPage, PollStuck, PageDone
<1>4. ASSUME NEW w \in Sweeps, CheckLock(w) PROVE SweepInv'
  BY <1>4 DEF CheckLock, OwnLock
<1>5. ASSUME NEW w \in Sweeps, DeleteLock(w) PROVE SweepInv'
  BY <1>5 DEF DeleteLock
<1>6. ASSUME NEW w \in Sweeps, SweepDies(w) PROVE SweepInv'
  BY <1>6 DEF SweepDies
<1>7. CASE LockExpires
  <2>1. /\ sweepLock \in Sweeps /\ outlived' = outlived \cup {sweepLock}
        /\ robbed' = (robbed \/ sweep[sweepLock] = "releasing") /\ sweepLock' = NoSweep
        /\ sweep' = sweep
    BY <1>7 DEF LockExpires
  <2>2. CASE robbed'
    BY <2>1, <2>2
  <2>3. CASE ~robbed'
    <3>1. ~robbed /\ sweep[sweepLock] # "releasing" /\ robbed' = FALSE
      BY <2>1, <2>3
    <3>2. QED BY <2>1, <3>1
  <2>4. QED BY <2>2, <2>3
<1>8. CASE WideComesDue
  BY <1>8 DEF WideComesDue
<1>9. QED BY <1>1, <1>2, <1>3, <1>4, <1>5, <1>6, <1>7, <1>8 DEF SweepNext, SweepStep

LEMMA OneSweepAtWork == SweepInv => SweepsApart
<1> SUFFICES ASSUME SweepInv, ~robbed
             PROVE  Cardinality({w \in Sweeps \ outlived : sweep[w] # "idle"}) <= 1
  BY DEF SweepsApart
<1> DEFINE Working == {w \in Sweeps \ outlived : sweep[w] # "idle"}
<1>1. Working \subseteq {sweepLock}
  BY DEF SweepInv
<1> HIDE DEF Working
<1>2. Cardinality(Working) <= Cardinality({sweepLock})
  BY <1>1, FS_Subset, FS_Singleton
<1>3. QED BY <1>2, FS_Singleton DEF Working

-----------------------------------------------------------------------------
(* Updater: while the sidecar is between reading the file and removing it, *)
(* what is owed is what it has read.                                       *)

UpdaterInv ==
    /\ owed \subseteq Asked
    /\ sidecar \in [at : {"asleep", "reading", "update", "restart", "down"},
                    req : Asked \cup {"none"}]
    /\ signal \in Asked \cup {"none"}
    /\ sidecar.at = "reading" => sidecar.req # "none" /\ owed \subseteq {sidecar.req}
    /\ sidecar.at # "reading" => owed \subseteq {signal}

LEMMA InitUpdater == UpdaterInit => UpdaterInv
  BY DEF UpdaterInit, UpdaterInv, Asleep, Asked

LEMMA UpdaterInvStep == UpdaterInv /\ [UpdaterNext]_updaterVars => UpdaterInv'
<1> SUFFICES ASSUME UpdaterInv, [UpdaterNext]_updaterVars PROVE UpdaterInv'
  OBVIOUS
<1> USE DEF UpdaterInv, Asked
<1>1. CASE UNCHANGED updaterVars
  BY <1>1 DEF updaterVars
<1>2. ASSUME NEW what \in Asked, Push(what), sidecar' = sidecar PROVE UpdaterInv'
  BY <1>2 DEF Push, InHand
<1>3. ASSUME NEW what \in Asked, PressButton(what) PROVE UpdaterInv'
  BY <1>2, <1>3 DEF PressButton
<1>4. CASE CheckActs
  BY <1>2, <1>4 DEF CheckActs
<1>5. CASE CheckStarts \/ CheckAsks \/ CheckClaims \/ CheckFails \/ FlipAuto \/ Release \/ BeatGoesStale
  BY <1>5 DEF CheckStarts, CheckAsks, CheckClaims, CheckFails, FlipAuto, Release, BeatGoesStale
<1>6. CASE \E r \in Revisions : KeyExpires(r)
  BY <1>6 DEF KeyExpires
<1>7. CASE Wakes
  BY <1>7 DEF Wakes, Sidecar, Asleep
<1>8. CASE Removes
  <2>1. /\ sidecar.at = "reading" /\ signal' = "none" /\ owed' = owed \ {sidecar.req}
        /\ sidecar' = [sidecar EXCEPT !.at = sidecar.req]
    BY <1>8 DEF Removes, Sidecar
  <2>2. owed' = {}
    BY <2>1
  <2>3. sidecar'.req = sidecar.req /\ sidecar'.at = sidecar.req /\ sidecar'.at # "reading"
    BY <2>1
  <2>4. sidecar' \in [at : {"asleep", "reading", "update", "restart", "down"},
                      req : Asked \cup {"none"}]
    BY <2>1
  <2>5. QED BY <2>1, <2>2, <2>3, <2>4
<1>9. CASE UpdateSucceeds \/ UpdateFails \/ Restarts \/ SidecarReturns
  <2>1. sidecar.at # "reading" /\ sidecar' = Asleep /\ UNCHANGED <<owed, signal>>
    BY <1>9 DEF UpdateSucceeds, UpdateFails, Restarts, SidecarReturns, Sidecar
  <2>2. sidecar'.at = "asleep" /\ sidecar'.req = "none"
    BY <2>1 DEF Asleep
  <2>3. QED BY <2>1, <2>2 DEF Asleep
<1>10. CASE SidecarDies
  <2>1. sidecar' = [at |-> "down", req |-> "none"] /\ owed' = owed \cap {signal}
        /\ signal' = signal
    BY <1>10 DEF SidecarDies, Sidecar, Asleep
  <2>2. sidecar'.at = "down"
    BY <2>1
  <2>3. sidecar' \in [at : {"asleep", "reading", "update", "restart", "down"},
                      req : Asked \cup {"none"}]
    BY <2>1
  <2>4. owed' \subseteq Asked /\ owed' \subseteq {signal'} /\ signal' \in Asked \cup {"none"}
    BY <2>1
  <2>5. QED BY <2>2, <2>3, <2>4
<1>11. QED BY <1>1, <1>3, <1>4, <1>5, <1>6, <1>7, <1>8, <1>9, <1>10
           DEF UpdaterNext, CheckStep, SidecarRuns

LEMMA OwedIsThere == UpdaterInv => AskedIsBegun
  BY DEF UpdaterInv, AskedIsBegun, InHand

-----------------------------------------------------------------------------
(* Gateways: what the adapters have in common, then what a word, a task or *)
(* an acknowledgement of the provider implies about the money it took.     *)

Arrived == {"paid", "over"}

(* Only a report that money arrived completes a payment, unless the sum    *)
(* comes with it, or CloudPayments holds it; whoever can be polled says of *)
(* a paid invoice that it is paid, under an id the adapter knows.          *)
Sound(g) ==
    /\ \A w \in Words : g.hook[w] = "COMPLETED" =>
          \/ w \in Arrived
          \/ w = "short" /\ "hook" \in g.tells
          \/ w = "held" /\ g = Cloudpayments
    /\ \A w \in Words : g.poll[w] = "COMPLETED" => w \in Arrived
    /\ g.polls # "nothing" =>
          /\ g.poll["paid"] = "COMPLETED"
          /\ "over" \in g.odd => g.poll["over"] = "COMPLETED"
          /\ IF g.newId THEN g.polls = "charge" ELSE g.polls = "bill"
    /\ g.newId => ~g.fresh

(* The sum taken is final: nothing the payer can still do changes it. *)
Final ==
    \/ bill \in {"paid", "over", "returned"}
    \/ bill = "short" /\ gateway.hook["short"] # "PENDING"

(* CloudPayments holds the invoice, or did, and has taken nothing. *)
Held == gateway = Cloudpayments /\ bill \in {"held", "released"} /\ took = 0

(* A report of the sum s is backed by what was taken, or is held. *)
Backed(s) ==
    \/ Final /\ (IF s = 0 THEN took >= InvoiceSum ELSE s = took)
    \/ Held /\ s = InvoiceSum

Owed == bill \in {"paid", "over"} \/ Held

(* A word was once true of the bill. *)
WasTrue(w) ==
    /\ w \in Arrived => bill \in Arrived \cup {"returned"} /\ took >= InvoiceSum
    /\ w = "short" => bill \in {"short", "paid", "over", "returned"} /\ took > 0
    /\ w = "short" /\ gateway.hook["short"] # "PENDING" => Final
    /\ w = "held" =>
          \/ bill \in {"held", "released"} /\ took = 0
          \/ bill \in {"paid", "returned"} /\ took = InvoiceSum

GatewaysTyped ==
    /\ bill \in Words /\ took \in Nat
    /\ mail \subseteq Words /\ handling \in Words \cup {"nothing"}
    /\ value \in Nat
    /\ paidRow \in {"ABSENT", "PENDING", "CANCELED", "FAILED", "COMPLETED"}
    /\ storedId \in {"bill", "charge"}
    /\ age \in {"young", "late", "gone"}
    /\ ackedPaid \in BOOLEAN /\ lastCall \in BOOLEAN

BillInv ==
    /\ WasTrue(bill)
    /\ bill \in {"open", "closed", "held", "released"} => took = 0
    /\ bill = "returned" => took >= InvoiceSum
    /\ bill = "over" => "over" \in gateway.odd

RouteInv ==
    /\ handling # "nothing" => paidRow # "ABSENT"
    /\ handling # "nothing" /\ gateway.newId /\ gateway.hook[handling] = "COMPLETED" =>
          storedId = "charge"
    /\ storedId = "charge" => paidRow # "ABSENT" /\ gateway.newId
    /\ age = "young" => ~lastCall

PromisesInv ==
    /\ \A t \in tasks : paidRow # "ABSENT" /\ (t.st = "COMPLETED" => Backed(t.sum))
    /\ paidRow = "COMPLETED" => Final \/ Held
    /\ ackedPaid => paidRow # "ABSENT" /\ (Final \/ Held)
    /\ CreditIsTrue

Waits == ackedPaid /\ paidRow = "PENDING" /\ Owed
TaskThere == \E t \in tasks : t.st = "COMPLETED"

RecoveryInv ==
    Waits => /\ TaskThere \/ (gateway.polls = storedId /\ age # "gone")
             /\ TaskThere \/ ~lastCall

GatewaysInv ==
    /\ GatewaysTyped
    /\ IF paidRow = "ABSENT" THEN bill = "open" /\ mail = {} ELSE Sound(gateway)
    /\ BillInv
    /\ \A w \in mail \cup {handling} : WasTrue(w)
    /\ RouteInv
    /\ PromisesInv
    /\ RecoveryInv

(* The adapters, one by one. *)
LEMMA AdaptersSound == \A g \in Registry : Sound(g)
<1> USE DEF Sound, Hooked, Polled, Answers, Words, Arrived
<1>1. Sound(Yookassa)
  BY DEF Yookassa
<1>2. Sound(Cryptobot)
  BY DEF Cryptobot
<1>3. Sound(Cryptomus)
  BY DEF Cryptomus
<1>4. Sound(Heleket)
  BY DEF Heleket, Cryptomus
<1>5. Sound(Yoomoney)
  BY DEF Yoomoney
<1>6. Sound(Platega)
  BY DEF Platega
<1>7. Sound(Wata)
  BY DEF Wata
<1>8. Sound(Freekassa)
  BY DEF Freekassa
<1>9. Sound(KassaAi)
  BY DEF KassaAi
<1>10. Sound(Robokassa)
  BY DEF Robokassa
<1>11. Sound(Paypalych)
  BY DEF Paypalych
<1>12. Sound(Cloudpayments)
  BY DEF Cloudpayments
<1>13. Sound(Lava)
  BY DEF Lava
<1>14. Sound(Mulenpay)
  BY DEF Mulenpay
<1>15. Sound(Rollypay)
  BY DEF Rollypay
<1>16. Sound(Cispay)
  BY DEF Cispay
<1>17. Sound(Riopay)
  BY DEF Riopay
<1>18. Sound(Severpay)
  BY DEF Severpay
<1>19. Sound(Aurapay)
  BY DEF Aurapay
<1>20. Sound(Antilopay)
  BY DEF Antilopay
<1>21. Sound(Manual)
  BY DEF Manual
<1>22. QED BY <1>1, <1>2, <1>3, <1>4, <1>5, <1>6, <1>7, <1>8, <1>9, <1>10, <1>11, <1>12, <1>13, <1>14, <1>15, <1>16, <1>17, <1>18, <1>19, <1>20, <1>21 DEF Registry

(* CloudPayments cannot be polled, and tells the sum. *)
LEMMA HoldsUnpolled ==
  /\ Cloudpayments.polls = "nothing" /\ "hook" \in Cloudpayments.tells
  /\ Cloudpayments.fresh = FALSE
  BY DEF Cloudpayments, Hooked

LEMMA InitGateways == GatewaysInit => GatewaysInv
<1> SUFFICES ASSUME GatewaysInit PROVE GatewaysInv
  OBVIOUS
<1>1. GatewaysTyped
  BY DEF GatewaysInit, GatewaysTyped, Words
<1>2. /\ paidRow = "ABSENT" /\ bill = "open" /\ mail = {} /\ handling = "nothing" /\ tasks = {}
      /\ took = 0 /\ storedId = "bill" /\ ~ackedPaid /\ ~lastCall
  BY DEF GatewaysInit
<1>3. BillInv /\ WasTrue(handling)
  BY <1>2 DEF BillInv, WasTrue, Arrived
<1>4. RouteInv /\ PromisesInv /\ RecoveryInv
  BY <1>2 DEF RouteInv, PromisesInv, CreditIsTrue, RecoveryInv, Waits
<1>5. QED BY <1>1, <1>2, <1>3, <1>4 DEF GatewaysInv

LEMMA WaitsIsRecoverable == GatewaysInv => AckedIsRecoverable
  BY DEF GatewaysInv, RecoveryInv, Waits, TaskThere, Owed, AckedIsRecoverable

(* The sums, and what a process call makes of them. *)
LEMMA ProcessIsTrue ==
  ASSUME GatewaysInv, NEW st, NEW s, Process(st, s), UNCHANGED <<gateway, bill, took>>,
         paidRow # "ABSENT",
         st = "COMPLETED" => Backed(s)
  PROVE  /\ paidRow' \in {"PENDING", "CANCELED", "FAILED", "COMPLETED"} /\ value' \in Nat
         /\ paidRow' = "COMPLETED" => Final \/ Held
         /\ CreditIsTrue'
         /\ st = "COMPLETED" => paidRow' # "PENDING"
         /\ paidRow' = "PENDING" => paidRow = "PENDING"
<1>0. took \in Nat /\ value \in Nat /\ InvoiceSum \in Nat \ {0}
      /\ paidRow \in {"ABSENT", "PENDING", "CANCELED", "FAILED", "COMPLETED"}
  BY InvoiceSumAssumption DEF GatewaysInv, GatewaysTyped
<1>1. CASE paidRow = "PENDING" /\ st = "COMPLETED"
  <2>1. CASE s > 0 /\ ~PaidEnough(s)
    BY <1>0, <1>1, <2>1 DEF Process, CreditIsTrue
  <2>2. CASE ~(s > 0 /\ ~PaidEnough(s))
    <3>1. paidRow' = "COMPLETED" /\ value' = IF s > 0 THEN Worth(s) ELSE InvoiceSum
      BY <1>1, <2>2 DEF Process
    <3>2. Backed(s) /\ s \in Nat
      BY <1>0, <1>1 DEF Backed
    <3>3. CASE Final /\ (IF s = 0 THEN took >= InvoiceSum ELSE s = took)
      <4>1. 100 * took >= 95 * InvoiceSum
        BY <1>0, <2>2, <3>2, <3>3 DEF PaidEnough
      <4>2. value' = InvoiceSum \/ (value' = took /\ took > InvoiceSum)
        BY <1>0, <3>1, <3>2, <3>3 DEF Worth
      <4>3. value' \in Nat
        BY <1>0, <4>2
      <4>4. QED BY <1>0, <1>1, <3>1, <3>3, <4>1, <4>2, <4>3 DEF CreditIsTrue
    <3>4. CASE Held /\ s = InvoiceSum
      <4>1. value' = InvoiceSum
        BY <1>0, <3>1, <3>4 DEF Worth
      <4>2. CreditIsTrue'
        BY <3>4, <4>1 DEF CreditIsTrue, CreditedOnHold, Held
      <4>3. QED BY <1>0, <1>1, <3>1, <3>4, <4>1, <4>2
    <3>5. QED BY <3>2, <3>3, <3>4 DEF Backed
  <2>3. QED BY <2>1, <2>2
<1>2. CASE paidRow = "PENDING" /\ st = "CANCELED"
  BY <1>0, <1>2 DEF Process, CreditIsTrue
<1>3. CASE ~(paidRow = "PENDING" /\ st \in {"COMPLETED", "CANCELED"})
  <2>1. UNCHANGED <<paidRow, value>>
    BY <1>3 DEF Process, ourRow
  <2>2. CreditIsTrue'
    BY <2>1 DEF GatewaysInv, PromisesInv, CreditIsTrue, CreditedOnHold
  <2>3. QED BY <1>0, <1>3, <2>1, <2>2 DEF GatewaysInv, PromisesInv
<1>4. QED BY <1>1, <1>2, <1>3

(* What the route makes of a word it handles. *)
LEMMA MeaningIsTrue ==
  ASSUME GatewaysInv, NEW w \in Words, WasTrue(w), Sound(gateway), Meaning(w) = "COMPLETED"
  PROVE  /\ Final \/ Held
         /\ Backed(IF "hook" \in gateway.tells THEN Stated(w) ELSE 0)
<1>0. took \in Nat /\ InvoiceSum \in Nat \ {0} /\ bill \in Words /\ WasTrue(bill)
  BY InvoiceSumAssumption DEF GatewaysInv, GatewaysTyped, BillInv
<1>1. PICK v \in Words : /\ gateway.hook[v] = "COMPLETED" /\ WasTrue(v)
                         /\ v = w \/ gateway.fresh
  BY <1>0 DEF Meaning
<1>2. ASSUME Final, took > 0, "hook" \in gateway.tells \/ took >= InvoiceSum
      PROVE  Backed(IF "hook" \in gateway.tells THEN Stated(w) ELSE 0)
  <2>1. Stated(w) = took
    BY <1>0, <1>2 DEF Stated, WasTrue, Final
  <2>2. QED BY <1>0, <1>2, <2>1 DEF Backed
<1>3. CASE v \in Arrived
  <2>1. Final /\ took > 0 /\ took >= InvoiceSum
    BY <1>0, <1>1, <1>3 DEF WasTrue, Final, Arrived
  <2>2. QED BY <1>2, <2>1
<1>4. CASE v = "short" /\ "hook" \in gateway.tells
  <2>1. Final /\ took > 0
    BY <1>0, <1>1, <1>4 DEF WasTrue
  <2>2. QED BY <1>2, <1>4, <2>1
<1>5. CASE v = "held" /\ gateway = Cloudpayments
  <2>1. w = "held" /\ "hook" \in gateway.tells /\ Stated(w) = InvoiceSum
    BY <1>1, <1>5, HoldsUnpolled DEF Stated
  <2>2. CASE bill \in {"held", "released"} /\ took = 0
    BY <1>5, <2>1, <2>2 DEF Held, Backed
  <2>3. CASE bill \in {"paid", "returned"} /\ took = InvoiceSum
    BY <1>0, <2>1, <2>3 DEF Final, Backed
  <2>4. QED BY <1>1, <1>5, <2>2, <2>3 DEF WasTrue
<1>6. QED BY <1>1, <1>3, <1>4, <1>5 DEF Sound

(* A word of the provider that leaves true what is true, and credited what *)
(* is credited.                                                            *)
LEMMA BillMoves ==
  ASSUME GatewaysInv, NEW v \in Words, Says(v), paidRow # "ABSENT",
         UNCHANGED <<gateway, handling, paidRow, value, storedId, tasks, ackedPaid, age, lastCall>>,
         took' \in Nat, BillInv',
         \A w \in Words : WasTrue(w) => WasTrue(w)',
         \A s : Backed(s) => Backed(s)',
         Final \/ Held => Final' \/ Held',
         CreditIsTrue',
         (ackedPaid /\ Owed') => Owed
  PROVE  GatewaysInv'
<1>1. bill' = v /\ mail' = mail \cup {v}
  BY DEF Says
<1>2. GatewaysTyped'
  <2>1. GatewaysTyped
    BY DEF GatewaysInv
  <2>2. QED BY <1>1, <2>1 DEF GatewaysTyped
<1>3. \A w \in (mail \cup {handling})' : WasTrue(w)'
  <2>1. WasTrue("nothing")'
    BY DEF WasTrue, Arrived
  <2>2. ASSUME NEW w \in mail \cup {handling}, w # "nothing" PROVE WasTrue(w)'
    <3>1. w \in Words /\ WasTrue(w)
      BY <2>2 DEF GatewaysInv, GatewaysTyped
    <3>2. QED BY <3>1
  <2>3. WasTrue(v)'
    BY <1>1 DEF BillInv
  <2>4. QED BY <1>1, <2>1, <2>2, <2>3
<1>4. RouteInv'
  BY DEF GatewaysInv, RouteInv
<1>5. PromisesInv'
  BY DEF GatewaysInv, PromisesInv
<1>6. RecoveryInv'
  BY DEF GatewaysInv, RecoveryInv, Waits, TaskThere
<1>7. Sound(gateway)'
  BY DEF GatewaysInv, Sound
<1>8. QED BY <1>2, <1>3, <1>4, <1>5, <1>6, <1>7 DEF GatewaysInv

LEMMA ProviderKeeps ==
  ASSUME GatewaysInv, PayInvoice \/ PayTheRest \/ HoldSum \/ EndInvoice
  PROVE  GatewaysInv'
<1> USE InvoiceSumAssumption
<1>0. /\ took \in Nat /\ bill \in Words /\ BillInv /\ CreditIsTrue
      /\ ackedPaid => Final \/ Held
      /\ paidRow = "COMPLETED" => Final \/ Held
      /\ paidRow = "ABSENT" => bill = "open"
  BY DEF GatewaysInv, GatewaysTyped, PromisesInv
<1>1. /\ UNCHANGED <<gateway, handling, paidRow, value, storedId, tasks, ackedPaid, age, lastCall>>
      /\ paidRow # "ABSENT"
  BY <1>0 DEF PayInvoice, PayTheRest, HoldSum, EndInvoice, Payable, ourRow, clock
<1> DEFINE Kept == /\ took' \in Nat /\ BillInv'
                   /\ \A w \in Words : WasTrue(w) => WasTrue(w)'
                   /\ \A s : Backed(s) => Backed(s)'
                   /\ Final \/ Held => Final' \/ Held'
                   /\ CreditIsTrue'
                   /\ (ackedPaid /\ Owed') => Owed
<1>2. ASSUME NEW v \in Words, Says(v), Kept PROVE GatewaysInv'
  BY <1>1, <1>2, BillMoves
<1>3. CASE PayInvoice
  <2>1. PICK v \in {"paid", "short", "over"} :
          /\ Says(v) /\ took' \in Nat \ {0}
          /\ v = "paid" => took' = InvoiceSum
          /\ v = "over" => took' > InvoiceSum /\ "over" \in gateway.odd
    <3>1. took' = InvoiceSum /\ Says("paid") =>
            /\ Says("paid") /\ took' \in Nat \ {0}
      OBVIOUS
    <3>2. ASSUME NEW s \in OddSums, took' = s, s < InvoiceSum, Says("short")
          PROVE  Says("short") /\ took' \in Nat \ {0}
      BY <3>2
    <3>3. ASSUME NEW s \in OddSums, took' = s, s > InvoiceSum, "over" \in gateway.odd, Says("over")
          PROVE  Says("over") /\ took' \in Nat \ {0} /\ took' > InvoiceSum
      BY <3>3
    <3>4. QED BY <1>3, <3>1, <3>2, <3>3 DEF PayInvoice
  <2>2. bill \in {"open", "closed"} /\ bill' = v
    BY <1>3, <2>1 DEF PayInvoice, Payable, Says
  <2>3. ~Final /\ ~Held /\ ~ackedPaid /\ paidRow # "COMPLETED"
    BY <1>0, <2>2 DEF Final, Held
  <2>4. \A w \in Words : WasTrue(w) => WasTrue(w)'
    BY <2>2, <1>0, <1>1 DEF WasTrue, Arrived, Final
  <2>5. BillInv'
    BY <2>1, <2>2, <1>1 DEF BillInv, WasTrue, Arrived, Final
  <2>6. CreditIsTrue' /\ \A s : Backed(s) => Backed(s)'
    BY <1>1, <2>3 DEF CreditIsTrue, Backed
  <2>7. QED BY <1>2, <2>1, <2>3, <2>4, <2>5, <2>6 DEF Words
<1>4. CASE PayTheRest
  <2>1. /\ Says("paid") /\ took' = InvoiceSum /\ bill' = "paid"
        /\ bill = "held" \/ (bill = "short" /\ gateway.hook["short"] = "PENDING")
    BY <1>4 DEF PayTheRest, Says
  <2>2. ~Final /\ Final' /\ (bill = "held" => took = 0)
    BY <1>0, <2>1 DEF Final, BillInv
  <2>3. \A w \in Words : WasTrue(w) => WasTrue(w)'
    BY <2>1, <2>2, <1>1 DEF WasTrue, Arrived
  <2>4. BillInv'
    BY <2>1, <2>2, <1>1 DEF BillInv, WasTrue, Arrived
  <2>5. \A s : Backed(s) => Backed(s)'
    BY <2>1, <2>2 DEF Backed
  <2>6. CreditIsTrue'
    <3>1. paidRow = "COMPLETED" => Held
      BY <1>0, <2>2
    <3>2. Held => ~(100 * took >= 95 * InvoiceSum)
      BY DEF Held
    <3>3. paidRow = "COMPLETED" => value = InvoiceSum
      BY <1>0, <3>1, <3>2 DEF CreditIsTrue, CreditedOnHold
    <3>4. QED BY <1>1, <2>1, <3>3 DEF CreditIsTrue
  <2>7. ackedPaid => Owed
    BY <1>0, <2>2 DEF Owed
  <2>8. QED BY <1>2, <2>1, <2>2, <2>3, <2>4, <2>5, <2>6, <2>7 DEF Words
<1>5. CASE HoldSum
  <2>1. Says("held") /\ bill \in {"open", "closed"} /\ bill' = "held" /\ took' = took
    BY <1>5 DEF HoldSum, Payable, Says
  <2>2. ~Final /\ ~Held /\ ~ackedPaid /\ paidRow # "COMPLETED" /\ took = 0
    BY <1>0, <2>1 DEF Final, Held, BillInv
  <2>3. \A w \in Words : WasTrue(w) => WasTrue(w)'
    BY <2>1, <1>0, <1>1 DEF WasTrue, Arrived, Final
  <2>4. BillInv'
    BY <2>1, <2>2, <1>1 DEF BillInv, WasTrue, Arrived
  <2>5. CreditIsTrue' /\ \A s : Backed(s) => Backed(s)'
    BY <1>1, <2>2 DEF CreditIsTrue, Backed
  <2>6. QED BY <1>0, <1>2, <2>1, <2>2, <2>3, <2>4, <2>5 DEF Words
<1>6. CASE EndInvoice
  <2>1. PICK v \in Words : /\ Says(v) /\ bill' = v
                           /\ \/ bill = "open" /\ v = "closed"
                              \/ bill = "held" /\ v = "released"
                              \/ bill \in {"paid", "over"} /\ v = "returned"
    BY <1>6 DEF EndInvoice, Says, Words
  <2>2. took' = took
    BY <1>6 DEF EndInvoice
  <2>3. (Final <=> Final') /\ (Held <=> Held')
    BY <2>1, <2>2, <1>1 DEF Final, Held
  <2>4. \A w \in Words : WasTrue(w) => WasTrue(w)'
    BY <2>1, <2>2, <2>3, <1>1 DEF WasTrue, Arrived
  <2>5. BillInv'
    BY <1>0, <2>1, <2>2, <2>3, <1>1 DEF BillInv, WasTrue, Arrived
  <2>6. \A s : Backed(s) => Backed(s)'
    BY <2>2, <2>3 DEF Backed
  <2>7. CreditIsTrue'
    BY <1>0, <1>1, <2>1, <2>2 DEF CreditIsTrue, CreditedOnHold
  <2>8. Owed' => Owed
    BY <2>1, <2>3 DEF Owed
  <2>9. QED BY <1>0, <1>2, <2>1, <2>2, <2>3, <2>4, <2>5, <2>6, <2>7, <2>8
<1>7. QED BY <1>3, <1>4, <1>5, <1>6

(* What is said of the money stays while the bill does. *)
LEMMA BillStays ==
  ASSUME UNCHANGED <<gateway, bill, took>>
  PROVE  /\ BillInv <=> BillInv'
         /\ \A w : WasTrue(w) <=> WasTrue(w)'
         /\ Final <=> Final'
         /\ Held <=> Held'
         /\ \A s : Backed(s) <=> Backed(s)'
         /\ Owed <=> Owed'
         /\ Sound(gateway) <=> Sound(gateway)'
  BY DEF BillInv, WasTrue, Arrived, Final, Held, Backed, Owed, Sound

LEMMA GatewaysInvStep == GatewaysInv /\ [GatewaysNext]_gateVars => GatewaysInv'
<1> SUFFICES ASSUME GatewaysInv, [GatewaysNext]_gateVars PROVE GatewaysInv'
  OBVIOUS
<1> USE DEF theirSide, ourRow, clock
<1>0. /\ GatewaysTyped /\ BillInv /\ RouteInv /\ PromisesInv /\ RecoveryInv /\ CreditIsTrue
      /\ \A w \in mail \cup {handling} : WasTrue(w)
      /\ IF paidRow = "ABSENT" THEN bill = "open" /\ mail = {} ELSE Sound(gateway)
  BY DEF GatewaysInv, PromisesInv
<1>1. CASE UNCHANGED gateVars
  <2>1. UNCHANGED <<gateway, bill, took, mail, handling, paidRow, value, storedId, tasks, ackedPaid,
                    age, lastCall>>
    BY <1>1 DEF gateVars
  <2>2. BillInv' /\ (\A w \in (mail \cup {handling})' : WasTrue(w)')
    BY <1>0, <2>1, BillStays
  <2>3. PromisesInv'
    BY <1>0, <2>1, BillStays DEF PromisesInv, CreditIsTrue, CreditedOnHold
  <2>4. RecoveryInv' /\ RouteInv' /\ GatewaysTyped'
    BY <1>0, <2>1, BillStays DEF RecoveryInv, Waits, TaskThere, RouteInv, GatewaysTyped
  <2>5. QED BY <1>0, <2>1, <2>2, <2>3, <2>4, BillStays DEF GatewaysInv
<1>2. CASE CreatePayment
  <2>1. /\ paidRow = "ABSENT" /\ paidRow' = "PENDING" /\ gateway' \in Registry
        /\ bill = "open" /\ mail = {}
        /\ UNCHANGED <<bill, took, mail, handling, value, storedId, tasks, ackedPaid, age, lastCall>>
    BY <1>0, <1>2 DEF CreatePayment
  <2>2. handling = "nothing" /\ tasks = {} /\ ackedPaid = FALSE /\ storedId = "bill"
    BY <1>0, <2>1 DEF RouteInv, PromisesInv, GatewaysTyped
  <2>3. Sound(gateway') /\ (Sound(gateway') <=> Sound(gateway)')
    BY <2>1, AdaptersSound DEF Sound
  <2>4. BillInv' /\ (\A w \in (mail \cup {handling})' : WasTrue(w)')
    BY <1>0, <2>1, <2>2 DEF BillInv, WasTrue, Arrived
  <2>5. PromisesInv' /\ RecoveryInv' /\ RouteInv'
    BY <1>0, <2>1, <2>2 DEF PromisesInv, RecoveryInv, RouteInv, Waits, CreditIsTrue
  <2>6. GatewaysTyped'
    BY <1>0, <2>1 DEF GatewaysTyped
  <2>7. QED BY <2>1, <2>3, <2>4, <2>5, <2>6 DEF GatewaysInv
<1>3. CASE PayInvoice \/ PayTheRest \/ HoldSum \/ EndInvoice
  BY <1>3, ProviderKeeps
<1>4. ASSUME NEW w \in Words, SendAgain(w) PROVE GatewaysInv'
  <2>1. /\ paidRow # "ABSENT" /\ mail' = mail \cup {w} /\ bill \in {"paid", "over", "returned"}
        /\ w \in {bill, "paid"} /\ (w = "paid" => bill \in {"paid", "returned"})
        /\ UNCHANGED <<gateway, bill, took, handling, paidRow, value, storedId, tasks, ackedPaid,
                       age, lastCall>>
    BY <1>0, <1>4 DEF SendAgain
  <2>2. WasTrue(w)
    <3>1. WasTrue(bill) /\ (bill = "returned" => took >= InvoiceSum)
      BY <1>0 DEF BillInv
    <3>2. QED BY <2>1, <3>1 DEF WasTrue, Arrived
  <2>3. BillInv' /\ (\A x \in (mail \cup {handling})' : WasTrue(x)')
    BY <1>0, <2>1, <2>2, BillStays
  <2>4. PromisesInv'
    BY <1>0, <2>1, BillStays DEF PromisesInv, CreditIsTrue, CreditedOnHold
  <2>5. RecoveryInv' /\ RouteInv' /\ GatewaysTyped'
    BY <1>0, <2>1, BillStays DEF RecoveryInv, Waits, TaskThere, RouteInv, GatewaysTyped
  <2>6. QED BY <1>0, <2>1, <2>3, <2>4, <2>5, BillStays DEF GatewaysInv
<1>7. ASSUME NEW w \in Words, HandleWebhook(w) PROVE GatewaysInv'
  <2>1. /\ w \in mail /\ handling' = w
        /\ storedId' = IF Meaning(w) = "COMPLETED" /\ gateway.newId THEN "charge" ELSE storedId
        /\ UNCHANGED <<gateway, bill, took, mail, paidRow, value, tasks, ackedPaid, age, lastCall>>
    BY <1>7 DEF HandleWebhook
  <2>2. WasTrue(w) /\ paidRow # "ABSENT" /\ Sound(gateway)
    BY <1>0, <2>1
  <2>3. gateway.newId /\ gateway.hook[w] = "COMPLETED" => storedId' = "charge"
    BY <2>1, <2>2 DEF Meaning, Sound
  <2>4. storedId' \in {"bill", "charge"} /\ (storedId' = "charge" => gateway.newId)
    BY <1>0, <2>1 DEF RouteInv, GatewaysTyped
  <2>5. RouteInv' /\ GatewaysTyped'
    BY <1>0, <2>1, <2>2, <2>3, <2>4 DEF RouteInv, GatewaysTyped
  <2>6. RecoveryInv'
    <3>1. gateway.polls = storedId => gateway.polls = storedId'
      BY <1>0, <2>1, <2>2 DEF Sound, GatewaysTyped
    <3>2. QED BY <1>0, <2>1, <3>1, BillStays DEF RecoveryInv, Waits, TaskThere
  <2>7. BillInv' /\ (\A x \in (mail \cup {handling})' : WasTrue(x)')
    BY <1>0, <2>1, <2>2, BillStays
  <2>8. PromisesInv'
    BY <1>0, <2>1, BillStays DEF PromisesInv, CreditIsTrue, CreditedOnHold
  <2>9. QED BY <2>1, <2>2, <2>5, <2>6, <2>7, <2>8, BillStays DEF GatewaysInv
<1>8. CASE Enqueue
  <2>1. PICK t : /\ t = [st |-> Meaning(handling),
                         sum |-> IF "hook" \in gateway.tells THEN Stated(handling) ELSE 0]
                 /\ tasks' = tasks \cup {t}
    BY <1>8 DEF Enqueue
  <2>2. /\ t.st = Meaning(handling)
        /\ t.sum = IF "hook" \in gateway.tells THEN Stated(handling) ELSE 0
    BY <2>1
  <2>3. /\ handling \in Words /\ paidRow # "ABSENT" /\ Sound(gateway) /\ WasTrue(handling)
        /\ handling' = "nothing" /\ mail' = mail \ {handling}
        /\ ackedPaid' = (ackedPaid \/ Meaning(handling) = "COMPLETED")
        /\ UNCHANGED <<gateway, bill, took, paidRow, value, storedId, age, lastCall>>
    BY <1>0, <1>8 DEF Enqueue, Acknowledge, RouteInv, GatewaysTyped
  <2>4. t.st = "COMPLETED" => Backed(t.sum) /\ (Final \/ Held)
    BY <2>2, <2>3, MeaningIsTrue
  <2>5. ackedPaid' = (ackedPaid \/ t.st = "COMPLETED")
    BY <2>2, <2>3
  <2>6. PromisesInv'
    BY <1>0, <2>1, <2>3, <2>4, <2>5, BillStays DEF PromisesInv, CreditIsTrue, CreditedOnHold
  <2>7. RecoveryInv'
    BY <1>0, <2>1, <2>3, <2>5, BillStays DEF RecoveryInv, Waits, TaskThere
  <2>8. RouteInv' /\ GatewaysTyped'
    BY <1>0, <2>3, <2>5 DEF RouteInv, GatewaysTyped
  <2>9. WasTrue("nothing")
    BY DEF WasTrue, Arrived
  <2>10. BillInv' /\ (\A x \in (mail \cup {handling})' : WasTrue(x)')
    BY <1>0, <2>3, <2>9, BillStays
  <2>11. QED BY <2>3, <2>6, <2>7, <2>8, <2>10, BillStays DEF GatewaysInv
<1>9. CASE EnqueueFails
  <2>1. /\ handling \in Words /\ paidRow # "ABSENT" /\ Sound(gateway) /\ WasTrue(handling)
        /\ handling' = "nothing" /\ mail' \subseteq mail
        /\ UNCHANGED <<gateway, bill, took, paidRow, value, storedId, tasks, age, lastCall>>
    BY <1>0, <1>9 DEF EnqueueFails, Acknowledge, RouteInv, GatewaysTyped
  <2>2. /\ ackedPaid' \in BOOLEAN
        /\ ackedPaid' => ackedPaid \/ (ReconcilerCovers /\ Meaning(handling) = "COMPLETED")
    BY <1>0, <1>9 DEF EnqueueFails, Acknowledge, GatewaysTyped
  <2>3. ASSUME ReconcilerCovers, Meaning(handling) = "COMPLETED"
        PROVE  (Final \/ Held) /\ gateway.polls = storedId /\ age = "young" /\ ~lastCall
    <3>1. Final \/ Held
      BY <2>1, <2>3, MeaningIsTrue
    <3>2. gateway.polls = storedId
      <4>1. gateway.polls # "nothing" /\ storedId \in {"bill", "charge"} /\ handling # "nothing"
        BY <1>0, <2>1, <2>3 DEF ReconcilerCovers, GatewaysTyped, Words
      <4>2. CASE gateway.newId
        <5>1. ~gateway.fresh /\ gateway.polls = "charge"
          BY <2>1, <4>1, <4>2 DEF Sound
        <5>2. storedId = "charge"
          BY <1>0, <2>3, <4>1, <4>2, <5>1 DEF Meaning, RouteInv
        <5>3. QED BY <5>1, <5>2
      <4>3. CASE ~gateway.newId
        <5>1. gateway.polls = "bill" /\ storedId # "charge"
          BY <1>0, <2>1, <4>1, <4>3 DEF Sound, RouteInv
        <5>2. QED BY <4>1, <5>1
      <4>4. QED BY <4>2, <4>3
    <3>3. QED BY <1>0, <2>3, <3>1, <3>2 DEF ReconcilerCovers, RouteInv
  <2>4. PromisesInv'
    BY <1>0, <2>1, <2>2, <2>3, BillStays DEF PromisesInv, CreditIsTrue, CreditedOnHold
  <2>5. RecoveryInv'
    BY <1>0, <2>1, <2>2, <2>3, BillStays DEF RecoveryInv, Waits, TaskThere
  <2>6. RouteInv' /\ GatewaysTyped'
    BY <1>0, <2>1, <2>2 DEF RouteInv, GatewaysTyped
  <2>7. WasTrue("nothing")
    BY DEF WasTrue, Arrived
  <2>8. BillInv' /\ (\A x \in (mail \cup {handling})' : WasTrue(x)')
    BY <1>0, <2>1, <2>7, BillStays
  <2>9. QED BY <2>1, <2>4, <2>5, <2>6, <2>8, BillStays DEF GatewaysInv
<1>10. CASE RunTask
  <2>1. PICK t \in tasks : /\ tasks' = tasks \ {t} /\ Process(t.st, t.sum)
          /\ UNCHANGED <<gateway, bill, took, mail, handling, storedId, ackedPaid, age, lastCall>>
    BY <1>10 DEF RunTask
  <2>2. paidRow # "ABSENT" /\ Sound(gateway) /\ (t.st = "COMPLETED" => Backed(t.sum))
    BY <1>0, <2>1 DEF PromisesInv
  <2>3. /\ paidRow' \in {"PENDING", "CANCELED", "FAILED", "COMPLETED"} /\ value' \in Nat
        /\ paidRow' = "COMPLETED" => Final \/ Held
        /\ CreditIsTrue'
        /\ t.st = "COMPLETED" => paidRow' # "PENDING"
        /\ paidRow' = "PENDING" => paidRow = "PENDING"
    BY <2>1, <2>2, ProcessIsTrue
  <2>4. PromisesInv'
    BY <1>0, <2>1, <2>3, BillStays DEF PromisesInv
  <2>5. RecoveryInv'
    <3>1. Waits' => Waits /\ t.st # "COMPLETED"
      BY <2>1, <2>3, BillStays DEF Waits
    <3>2. t.st # "COMPLETED" => (TaskThere <=> TaskThere')
      BY <2>1 DEF TaskThere
    <3>3. QED BY <1>0, <2>1, <3>1, <3>2 DEF RecoveryInv
  <2>6. RouteInv' /\ GatewaysTyped'
    BY <1>0, <2>1, <2>3 DEF RouteInv, GatewaysTyped
  <2>7. BillInv' /\ (\A x \in (mail \cup {handling})' : WasTrue(x)')
    BY <1>0, <2>1, BillStays
  <2>8. QED BY <2>1, <2>2, <2>3, <2>4, <2>5, <2>6, <2>7, BillStays DEF GatewaysInv
<1>11. CASE Poll
  <2>1. /\ gateway.polls # "nothing" /\ paidRow = "PENDING" /\ age # "gone" /\ Sound(gateway)
        /\ lastCall' = (age = "late")
        /\ UNCHANGED <<gateway, bill, took, mail, handling, storedId, tasks, ackedPaid, age>>
    BY <1>0, <1>11 DEF Poll
  <2>2. /\ paidRow' \in {"PENDING", "CANCELED", "FAILED", "COMPLETED"} /\ value' \in Nat
        /\ paidRow' = "COMPLETED" => Final \/ Held
        /\ CreditIsTrue'
        /\ (Owed /\ gateway.polls = storedId) => paidRow' # "PENDING"
    <3>1. CASE gateway.polls = storedId
      <4>1. PICK s : /\ Process(gateway.poll[bill], s)
                     /\ s = IF "poll" \in gateway.tells THEN took ELSE 0
        BY <1>11, <3>1 DEF Poll, Recognised
      <4>2. gateway.poll[bill] = "COMPLETED" => Backed(s)
        <5>1. ASSUME gateway.poll[bill] = "COMPLETED" PROVE bill \in Arrived /\ took >= InvoiceSum
          BY <1>0, <2>1, <5>1 DEF Sound, BillInv, WasTrue, GatewaysTyped
        <5>2. took \in Nat /\ InvoiceSum \in Nat \ {0}
          BY <1>0, InvoiceSumAssumption DEF GatewaysTyped
        <5>3. QED BY <4>1, <5>1, <5>2 DEF Backed, Final, Arrived
      <4>3. /\ paidRow' \in {"PENDING", "CANCELED", "FAILED", "COMPLETED"} /\ value' \in Nat
            /\ paidRow' = "COMPLETED" => Final \/ Held
            /\ CreditIsTrue'
            /\ gateway.poll[bill] = "COMPLETED" => paidRow' # "PENDING"
        BY <2>1, <4>1, <4>2, ProcessIsTrue
      <4>4. Owed => gateway.poll[bill] = "COMPLETED"
        <5>1. ~Held
          BY <2>1, HoldsUnpolled DEF Held
        <5>2. QED BY <1>0, <2>1, <5>1 DEF Owed, Sound, BillInv
      <4>5. QED BY <4>3, <4>4
    <3>2. CASE gateway.polls # storedId
      <4>1. UNCHANGED <<paidRow, value>>
        BY <1>11, <3>2 DEF Poll, Recognised
      <4>2. CreditIsTrue'
        BY <1>0, <2>1, <4>1 DEF CreditIsTrue, CreditedOnHold
      <4>3. QED BY <1>0, <2>1, <3>2, <4>1, <4>2 DEF GatewaysTyped
    <3>3. QED BY <3>1, <3>2
  <2>3. PromisesInv'
    BY <1>0, <2>1, <2>2, BillStays DEF PromisesInv
  <2>4. RecoveryInv'
    <3>1. Waits' => Waits /\ gateway.polls # storedId
      BY <2>1, <2>2, BillStays DEF Waits
    <3>2. TaskThere <=> TaskThere'
      BY <2>1 DEF TaskThere
    <3>3. QED BY <1>0, <3>1, <3>2 DEF RecoveryInv
  <2>5. RouteInv' /\ GatewaysTyped'
    BY <1>0, <2>1, <2>2 DEF RouteInv, GatewaysTyped
  <2>6. BillInv' /\ (\A x \in (mail \cup {handling})' : WasTrue(x)')
    BY <1>0, <2>1, BillStays
  <2>7. QED BY <2>1, <2>2, <2>3, <2>4, <2>5, <2>6, BillStays DEF GatewaysInv
<1>12. CASE RowAges
  <2>1. /\ UNCHANGED <<gateway, bill, took, mail, handling, paidRow, value, storedId, tasks,
                       ackedPaid, lastCall>>
        /\ paidRow = "PENDING"
        /\ \/ age = "young" /\ age' = "late"
           \/ age = "late" /\ (lastCall \/ gateway.polls = "nothing") /\ age' = "gone"
    BY <1>12 DEF RowAges
  <2>2. RecoveryInv'
    <3>1. (Waits <=> Waits') /\ (TaskThere <=> TaskThere')
      BY <2>1, BillStays DEF Waits, TaskThere
    <3>2. gateway.polls = "nothing" => gateway.polls # storedId
      BY <1>0 DEF GatewaysTyped
    <3>3. QED BY <1>0, <2>1, <3>1, <3>2 DEF RecoveryInv
  <2>3. RouteInv' /\ GatewaysTyped'
    BY <1>0, <2>1 DEF RouteInv, GatewaysTyped
  <2>4. PromisesInv'
    BY <1>0, <2>1, BillStays DEF PromisesInv, CreditIsTrue, CreditedOnHold
  <2>5. BillInv' /\ (\A x \in (mail \cup {handling})' : WasTrue(x)')
    BY <1>0, <2>1, BillStays
  <2>6. QED BY <1>0, <2>1, <2>2, <2>3, <2>4, <2>5, BillStays DEF GatewaysInv
<1>13. QED BY <1>1, <1>2, <1>3, <1>4, <1>7, <1>8, <1>9, <1>10, <1>11, <1>12 DEF GatewaysNext

-----------------------------------------------------------------------------
(* Account linking: who holds which wallet, and what is in it. *)

Stages == {"idle", "crediting", "rewarding", "committing", "locking", "moving", "merging",
           "merged", "refused"}

LinkTyped ==
    /\ exists \in BOOLEAN
    /\ funds \in [Accounts -> Nat]
    /\ owner \in [Invoices -> Accounts]
    /\ inviter \in [Accounts -> Accounts \cup {NoAccount}]
    /\ credited \subseteq Invoices /\ rewarded \subseteq credited
    /\ link \in [Workers -> Stages]
    /\ userOwner \in [Accounts -> Workers \cup {NoWorker}]
    /\ seenOwner \in [Invoices -> Accounts \cup {NoAccount}]
    /\ seenInviter \in [Invoices -> Accounts \cup {NoAccount}]
    /\ seenFunds \in [Confirms -> Nat]

Locked(x, u) == u \in Accounts /\ userOwner[u] = x

(* A settlement credits deposits that are not credited yet, to wallets it  *)
(* has locked and that are still there.                                    *)
SettlesWhatItHolds(i) ==
    /\ link[i] \in {"crediting", "rewarding", "committing"} =>
          i \notin credited /\ seenOwner[i] \in Accounts
    /\ link[i] \in {"rewarding", "committing"} => Locked(i, seenOwner[i]) /\ There(seenOwner[i])
    /\ link[i] = "committing" /\ seenInviter[i] # NoAccount =>
          Locked(i, seenInviter[i]) /\ There(seenInviter[i])

(* A merge has locked both wallets, and knows what the web account holds. *)
MergesWhatItHolds(c) ==
    link[c] \in {"moving", "merging"} =>
        /\ exists
        /\ Locked(c, WebAccount) /\ Locked(c, Tapper[c])
        /\ seenFunds[c] = funds[WebAccount]

LinkInv ==
    /\ LinkTyped
    /\ \A i \in Invoices : SettlesWhatItHolds(i)
    /\ \A c \in Confirms : MergesWhatItHolds(c)
    /\ MergeKeepsBooks

LEMMA InitLink == LinkInit => LinkInv
<1> SUFFICES ASSUME LinkInit PROVE LinkInv
  OBVIOUS
<1> USE AccountsAssumption DEF LinkInit
<1>1. LinkTyped
  BY DEF LinkTyped, Stages
<1>2. /\ \A i \in Invoices : SettlesWhatItHolds(i)
      /\ \A c \in Confirms : MergesWhatItHolds(c)
  BY DEF SettlesWhatItHolds, MergesWhatItHolds, Workers
<1>3. MergeKeepsMoney
  <2>1. SumFunctionOnSet(funds, Accounts) = 0
    BY SumOfZeros
  <2>2. Cardinality(credited) = 0 /\ Cardinality(rewarded) = 0
    BY FS_EmptySet
  <2>3. QED BY <2>1, <2>2 DEF MergeKeepsMoney, Deposit, Share
<1>4. NobodyInvitesThemselves
  BY DEF NobodyInvitesThemselves
<1>5. QED BY <1>1, <1>2, <1>3, <1>4 DEF LinkInv, MergeKeepsBooks

(* Letting go of the locks of x leaves what the others hold. *)
LEMMA LetGoKeeps ==
  ASSUME LinkTyped, NEW x \in Workers, LetGo(x), UNCHANGED exists
  PROVE  /\ userOwner' \in [Accounts -> Workers \cup {NoWorker}]
         /\ \A y, u : y # x /\ Locked(y, u) => Locked(y, u)'
<1>1. userOwner' = [u \in Accounts |-> IF userOwner[u] = x THEN NoWorker ELSE userOwner[u]]
  BY DEF LetGo
<1>2. QED BY <1>1 DEF LinkTyped, Locked

LEMMA RollbackKeeps ==
  ASSUME LinkInv, NEW x \in Workers, Rollback(x)
  PROVE  LinkInv'
<1>1. /\ link' = [link EXCEPT ![x] = IF x \in Confirms THEN "refused" ELSE "idle"]
      /\ UNCHANGED <<exists, funds, owner, inviter, credited, rewarded, seenOwner, seenInviter, seenFunds>>
  BY DEF Rollback, linkRows, linkSeen
<1>2. /\ userOwner' \in [Accounts -> Workers \cup {NoWorker}]
      /\ \A y, u : y # x /\ Locked(y, u) => Locked(y, u)'
  BY <1>1, LetGoKeeps DEF Rollback, LinkInv
<1>3. LinkTyped'
  BY <1>1, <1>2 DEF LinkInv, LinkTyped, Stages
<1>4. ASSUME NEW i \in Invoices PROVE SettlesWhatItHolds(i)'
  BY <1>1, <1>2, <1>4 DEF LinkInv, LinkTyped, SettlesWhatItHolds, Workers, There
<1>5. ASSUME NEW c \in Confirms PROVE MergesWhatItHolds(c)'
  BY <1>1, <1>2, <1>5 DEF LinkInv, LinkTyped, MergesWhatItHolds, Workers
<1>6. MergeKeepsBooks'
  BY <1>1 DEF LinkInv, MergeKeepsBooks, MergeKeepsMoney, NobodyInvitesThemselves
<1>7. QED BY <1>3, <1>4, <1>5, <1>6 DEF LinkInv

(* The deposit and its commission reach the wallets together. *)
LEMMA SettlementAdds ==
  ASSUME LinkInv, NEW i \in Invoices, SettleInvoice(i)
  PROVE  MergeKeepsMoney' /\ funds' \in [Accounts -> Nat]
<1> DEFINE o == seenOwner[i]
           v == seenInviter[i]
           f == [u \in Accounts |-> funds[u] + (IF u = o THEN 10 ELSE 0)]
<1>1. /\ funds \in [Accounts -> Nat] /\ o \in Accounts /\ v \in Accounts \cup {NoAccount}
      /\ NoAccount \notin Accounts /\ There(o) /\ (v # NoAccount => There(v))
      /\ i \notin credited /\ rewarded \subseteq credited /\ credited \subseteq Invoices
      /\ IsFiniteSet(Invoices) /\ IsFiniteSet(Accounts)
  BY AccountsAssumption DEF SettleInvoice, LinkInv, LinkTyped, SettlesWhatItHolds
<1>2. /\ funds' = [u \in Accounts |-> funds[u] + (IF u = o THEN 10 ELSE 0) + (IF u = v THEN 1 ELSE 0)]
      /\ credited' = credited \cup {i}
      /\ rewarded' = IF v = NoAccount THEN rewarded ELSE rewarded \cup {i}
      /\ UNCHANGED <<exists, owner>>
  BY DEF SettleInvoice, Deposit, Share
<1> HIDE DEF o, v
<1>3. /\ \A u \in Accounts : funds[u] \in Int
      /\ \A u \in Accounts : f[u] \in Int
      /\ f[o] = funds[o] + 10
      /\ \A u \in Accounts \ {o} : funds[u] = f[u]
  BY <1>1
<1>4. /\ \A u \in Accounts : funds'[u] \in Int
      /\ v # NoAccount => funds'[v] = f[v] + 1
      /\ \A u \in Accounts \ {v} : f[u] = funds'[u]
      /\ funds' \in [Accounts -> Nat]
  BY <1>1, <1>2
<1> HIDE DEF f
<1>5. SumFunctionOnSet(f, Accounts) = SumFunctionOnSet(funds, Accounts) + 10
  BY <1>1, <1>3, SumOneMore
<1>6. SumFunctionOnSet(funds', Accounts) =
        SumFunctionOnSet(f, Accounts) + (IF v = NoAccount THEN 0 ELSE 1)
  <2>1. CASE v = NoAccount
    <3>1. SumFunctionOnSet(funds', Accounts) = SumFunctionOnSet(f, Accounts)
      BY <1>1, <1>4, <2>1, SumSame
    <3>2. SumFunctionOnSet(f, Accounts) \in Int
      BY <1>1, <1>3, SumType
    <3>3. QED BY <2>1, <3>1, <3>2
  <2>2. CASE v # NoAccount
    BY <1>1, <1>3, <1>4, <2>2, SumOneMore
  <2>3. QED BY <2>1, <2>2
<1>7. /\ IsFiniteSet(credited) /\ IsFiniteSet(rewarded)
      /\ Cardinality(credited') = Cardinality(credited) + 1
      /\ Cardinality(rewarded') = IF v = NoAccount THEN Cardinality(rewarded) ELSE Cardinality(rewarded) + 1
  <2>1. IsFiniteSet(credited) /\ IsFiniteSet(rewarded)
    BY <1>1, FS_Subset
  <2>2. Cardinality(credited \cup {i}) = Cardinality(credited) + 1
    BY <1>1, <2>1, FS_AddElement
  <2>3. Cardinality(rewarded \cup {i}) = Cardinality(rewarded) + 1
    BY <1>1, <2>1, FS_AddElement
  <2>4. QED BY <1>2, <2>1, <2>2, <2>3
<1>8. Cardinality(credited) \in Nat /\ Cardinality(rewarded) \in Nat
  BY <1>7, FS_CardinalityType
<1>9. SumFunctionOnSet(funds, Accounts) = 10 * Cardinality(credited) + 1 * Cardinality(rewarded)
  BY DEF LinkInv, MergeKeepsBooks, MergeKeepsMoney, Deposit, Share
<1>10. SumFunctionOnSet(funds', Accounts) = 10 * Cardinality(credited') + 1 * Cardinality(rewarded')
  <2>1. SumFunctionOnSet(funds, Accounts) \in Int
    BY <1>8, <1>9
  <2>2. QED BY <1>5, <1>6, <1>7, <1>8, <1>9, <2>1
<1>11. exists' \/ (funds'[WebAccount] = 0 /\ \A j \in Invoices : owner'[j] # WebAccount)
  <2>1. SUFFICES ASSUME ~exists
                 PROVE  funds'[WebAccount] = 0 /\ \A j \in Invoices : owner'[j] # WebAccount
    BY <1>2
  <2>2. funds[WebAccount] = 0 /\ \A j \in Invoices : owner[j] # WebAccount
    BY <2>1 DEF LinkInv, MergeKeepsBooks, MergeKeepsMoney
  <2>3. o # WebAccount /\ v # WebAccount
    BY <1>1, <2>1, AccountsAssumption DEF There
  <2>4. QED BY <1>2, <2>2, <2>3, AccountsAssumption
<1>12. QED BY <1>4, <1>10, <1>11 DEF MergeKeepsMoney, Deposit, Share

(* What a merge moves is what the survivor gets. *)
LEMMA MergeMoves ==
  ASSUME LinkInv, NEW c \in Confirms, Merge(c)
  PROVE  MergeKeepsBooks' /\ funds' \in [Accounts -> Nat]
<1> DEFINE t == Tapper[c]
           f == [u \in Accounts |-> IF u = WebAccount THEN 0 ELSE funds[u]]
           less == 0 - funds[WebAccount]
<1>1. /\ funds \in [Accounts -> Nat] /\ t \in Accounts \ {WebAccount} /\ WebAccount \in Accounts
      /\ seenFunds[c] = funds[WebAccount] /\ exists /\ IsFiniteSet(Accounts)
      /\ owner \in [Invoices -> Accounts]
      /\ inviter \in [Accounts -> Accounts \cup {NoAccount}] /\ NoAccount \notin Accounts
  BY AccountsAssumption DEF Merge, LinkInv, LinkTyped, MergesWhatItHolds
<1>2. /\ funds' = [funds EXCEPT ![t] = funds[t] + seenFunds[c], ![WebAccount] = 0]
      /\ exists' = FALSE /\ owner' = NewOwners(c) /\ inviter' = NewInviters(c)
      /\ UNCHANGED <<credited, rewarded>>
  BY DEF Merge
<1>3. \A i \in Invoices : owner'[i] # WebAccount
  BY <1>1, <1>2 DEF NewOwners
<1>4. NobodyInvitesThemselves'
  <2>1. \A u \in Accounts : inviter[u] # u
    BY <1>1 DEF LinkInv, MergeKeepsBooks, NobodyInvitesThemselves
  <2>2. \A u \in Accounts \ {WebAccount} : inviter'[u] # u /\ inviter'[u] # WebAccount
    BY <1>1, <1>2, <2>1 DEF NewInviters
  <2>3. QED BY <1>2, <2>2 DEF NobodyInvitesThemselves
<1> HIDE DEF t
<1>5. /\ \A u \in Accounts : funds[u] \in Int
      /\ \A u \in Accounts : f[u] \in Int
      /\ f[WebAccount] = funds[WebAccount] + less
      /\ \A u \in Accounts \ {WebAccount} : funds[u] = f[u]
      /\ funds[WebAccount] \in Int /\ less \in Int
  BY <1>1
<1>6. /\ \A u \in Accounts : funds'[u] \in Int
      /\ funds'[t] = f[t] + funds[WebAccount]
      /\ \A u \in Accounts \ {t} : f[u] = funds'[u]
      /\ funds' \in [Accounts -> Nat]
      /\ funds'[WebAccount] = 0
  BY <1>1, <1>2
<1> HIDE DEF f
<1>7. SumFunctionOnSet(f, Accounts) = SumFunctionOnSet(funds, Accounts) + less
  <2> HIDE DEF less
  <2>1. QED BY <1>1, <1>5, SumOneMore
<1>8. SumFunctionOnSet(funds', Accounts) = SumFunctionOnSet(f, Accounts) + funds[WebAccount]
  BY <1>1, <1>5, <1>6, SumOneMore
<1>9. SumFunctionOnSet(funds, Accounts) \in Int
  BY <1>1, <1>5, SumType
<1>10. SumFunctionOnSet(funds', Accounts) = SumFunctionOnSet(funds, Accounts)
  BY <1>5, <1>7, <1>8, <1>9
<1>11. MergeKeepsMoney'
  BY <1>2, <1>3, <1>6, <1>10 DEF LinkInv, MergeKeepsBooks, MergeKeepsMoney
<1>12. QED BY <1>4, <1>6, <1>11 DEF MergeKeepsBooks

(* The steps that touch no committed row. *)
LEMMA BooksUntouched == MergeKeepsBooks /\ UNCHANGED linkRows => MergeKeepsBooks'
  BY DEF MergeKeepsBooks, MergeKeepsMoney, NobodyInvitesThemselves, linkRows

LEMMA LinkInvStep == LinkInv /\ [LinkNext]_linkVars => LinkInv'
<1> SUFFICES ASSUME LinkInv, [LinkNext]_linkVars PROVE LinkInv'
  OBVIOUS
<1>0. /\ LinkTyped /\ MergeKeepsBooks
      /\ \A i \in Invoices : SettlesWhatItHolds(i)
      /\ \A c \in Confirms : MergesWhatItHolds(c)
  BY DEF LinkInv
<1> USE <1>0, AccountsAssumption
    DEF LinkTyped, Stages, Workers, SettlesWhatItHolds, MergesWhatItHolds, Locked, There
<1>1. CASE UNCHANGED linkVars
  BY <1>1, BooksUntouched DEF linkVars, linkRows, linkSeen, linkLocks, LinkInv
<1>2. ASSUME NEW i \in Invoices, LockInvoice(i) PROVE LinkInv'
  <2>1. MergeKeepsBooks'
    BY <1>2, BooksUntouched DEF LockInvoice
  <2>2. QED BY <1>2, <2>1 DEF LockInvoice, LinkInv, linkRows
<1>3. ASSUME NEW i \in Invoices, CreditPayer(i) PROVE LinkInv'
  <2>1. MergeKeepsBooks'
    BY <1>3, BooksUntouched DEF CreditPayer
  <2>2. /\ link[i] = "crediting" /\ link' = [link EXCEPT ![i] = "rewarding"]
        /\ userOwner[seenOwner[i]] \in {NoWorker, i} /\ There(seenOwner[i])
        /\ userOwner' = [userOwner EXCEPT ![seenOwner[i]] = i]
        /\ seenInviter' = [seenInviter EXCEPT ![i] = inviter[seenOwner[i]]]
        /\ UNCHANGED <<exists, funds, owner, inviter, credited, rewarded, seenOwner, seenFunds>>
    BY <1>3 DEF CreditPayer, RowFree, linkRows
  <2>3. seenOwner[i] \in Accounts /\ inviter[seenOwner[i]] \in Accounts \cup {NoAccount}
    BY <2>2
  <2>4. LinkTyped'
    BY <2>2, <2>3
  <2>5. ASSUME NEW j \in Invoices PROVE SettlesWhatItHolds(j)'
    BY <2>2, <2>3, <2>5
  <2>6. ASSUME NEW c \in Confirms PROVE MergesWhatItHolds(c)'
    BY <2>2, <2>3, <2>6
  <2>7. QED BY <2>1, <2>4, <2>5, <2>6 DEF LinkInv
<1>4. ASSUME NEW i \in Invoices, RewardInviter(i) PROVE LinkInv'
  <2>1. MergeKeepsBooks'
    BY <1>4, BooksUntouched DEF RewardInviter
  <2>2. /\ link[i] = "rewarding" /\ link' = [link EXCEPT ![i] = "committing"]
        /\ UNCHANGED <<exists, funds, owner, inviter, credited, rewarded,
                       seenOwner, seenInviter, seenFunds>>
    BY <1>4 DEF RewardInviter, linkSeen, linkRows
  <2>3. CASE seenInviter[i] = NoAccount
    BY <1>4, <2>1, <2>2, <2>3 DEF RewardInviter, LinkInv
  <2>4. CASE seenInviter[i] # NoAccount
    <3>1. /\ userOwner[seenInviter[i]] \in {NoWorker, i} /\ There(seenInviter[i])
          /\ userOwner' = [userOwner EXCEPT ![seenInviter[i]] = i]
          /\ seenInviter[i] \in Accounts
      BY <1>4, <2>4 DEF RewardInviter, RowFree
    <3>2. LinkTyped'
      BY <2>2, <3>1
    <3>3. ASSUME NEW j \in Invoices PROVE SettlesWhatItHolds(j)'
      BY <2>2, <3>1, <3>3
    <3>4. ASSUME NEW c \in Confirms PROVE MergesWhatItHolds(c)'
      BY <2>2, <3>1, <3>4
    <3>5. QED BY <2>1, <3>2, <3>3, <3>4 DEF LinkInv
  <2>5. QED BY <2>3, <2>4
<1>5. ASSUME NEW i \in Invoices, InviterMissed(i) PROVE LinkInv'
  <2>1. MergeKeepsBooks'
    BY <1>5, BooksUntouched DEF InviterMissed
  <2>2. QED BY <1>5, <2>1 DEF InviterMissed, LinkInv, linkRows, linkLocks
<1>6. ASSUME NEW i \in Invoices, SettleInvoice(i) PROVE LinkInv'
  <2>1. MergeKeepsMoney' /\ funds' \in [Accounts -> Nat]
    BY <1>6, SettlementAdds
  <2>2. MergeKeepsBooks'
    BY <1>6, <2>1 DEF SettleInvoice, MergeKeepsBooks, NobodyInvitesThemselves
  <2>3. /\ link[i] = "committing" /\ link' = [link EXCEPT ![i] = "idle"]
        /\ LetGo(i) /\ credited' = credited \cup {i}
        /\ rewarded' \subseteq rewarded \cup {i}
        /\ funds' = [u \in Accounts |->
                       funds[u] + (IF u = seenOwner[i] THEN Deposit ELSE 0)
                                + (IF u = seenInviter[i] THEN Share ELSE 0)]
        /\ UNCHANGED <<exists, owner, inviter, seenOwner, seenInviter, seenFunds>>
    BY <1>6 DEF SettleInvoice, linkSeen
  <2>4. /\ userOwner' \in [Accounts -> Workers \cup {NoWorker}]
        /\ \A y, u : y # i /\ Locked(y, u) => Locked(y, u)'
    BY <2>3, LetGoKeeps
  <2>5. ASSUME NEW j \in Invoices PROVE SettlesWhatItHolds(j)'
    BY <2>3, <2>4, <2>5
  <2>6. ASSUME NEW c \in Confirms PROVE MergesWhatItHolds(c)'
    <3>1. CASE link[c] \notin {"moving", "merging"}
      BY <2>3, <3>1
    <3>2. CASE link[c] \in {"moving", "merging"}
      <4>1. userOwner[WebAccount] = c /\ c # i
        BY <3>2
      <4>2. seenOwner[i] # WebAccount /\ seenInviter[i] # WebAccount
        BY <2>3, <4>1
      <4>3. funds'[WebAccount] = funds[WebAccount]
        BY <2>3, <4>2
      <4>4. QED BY <2>3, <2>4, <3>2, <4>3
    <3>3. QED BY <3>1, <3>2
  <2>7. LinkTyped'
    BY <2>1, <2>3, <2>4
  <2>8. QED BY <2>2, <2>5, <2>6, <2>7 DEF LinkInv
<1>7. ASSUME NEW i \in Invoices, AccountGone(i) PROVE LinkInv'
  BY <1>7, RollbackKeeps DEF AccountGone
<1>8. ASSUME NEW c \in Confirms, SpendCode(c) PROVE LinkInv'
  <2>1. MergeKeepsBooks'
    BY <1>8, BooksUntouched DEF SpendCode
  <2>2. QED BY <1>8, <2>1 DEF SpendCode, LinkInv, linkRows, linkSeen, linkLocks
<1>9. ASSUME NEW c \in Confirms, LockAccounts(c) PROVE LinkInv'
  <2>1. MergeKeepsBooks'
    BY <1>9, BooksUntouched DEF LockAccounts
  <2>2. PICK u \in LocksBoth(c) : userOwner[u] = NoWorker /\ userOwner' = [userOwner EXCEPT ![u] = c]
    BY <1>9 DEF LockAccounts
  <2>3. u \in Accounts
    BY <2>2 DEF LocksBoth
  <2>4. UNCHANGED <<exists, funds, owner, inviter, credited, rewarded, link,
                    seenOwner, seenInviter, seenFunds>>
    BY <1>9 DEF LockAccounts, linkRows, linkSeen
  <2>5. LinkTyped'
    BY <2>2, <2>3, <2>4
  <2>6. ASSUME NEW j \in Invoices PROVE SettlesWhatItHolds(j)'
    BY <2>2, <2>3, <2>4, <2>6
  <2>7. ASSUME NEW k \in Confirms PROVE MergesWhatItHolds(k)'
    BY <2>2, <2>3, <2>4, <2>7
  <2>8. QED BY <2>1, <2>5, <2>6, <2>7 DEF LinkInv
<1>10. ASSUME NEW c \in Confirms, ReadWeb(c) PROVE LinkInv'
  <2>1. MergeKeepsBooks'
    BY <1>10, BooksUntouched DEF ReadWeb
  <2>2. CASE exists
    BY <1>10, <2>1, <2>2 DEF ReadWeb, LinkInv, linkRows, linkLocks, LocksBoth
  <2>3. CASE ~exists
    <3>1. /\ link' = [link EXCEPT ![c] = "refused"] /\ LetGo(c)
          /\ UNCHANGED <<exists, funds, owner, inviter, credited, rewarded, seenOwner, seenInviter, seenFunds>>
      BY <1>10, <2>3 DEF ReadWeb, linkRows
    <3>2. /\ userOwner' \in [Accounts -> Workers \cup {NoWorker}]
          /\ \A y, u : y # c /\ Locked(y, u) => Locked(y, u)'
      BY <3>1, LetGoKeeps
    <3>3. QED BY <2>1, <3>1, <3>2 DEF LinkInv
  <2>4. QED BY <2>2, <2>3
<1>11. ASSUME NEW c \in Confirms, MoveRows(c) PROVE LinkInv'
  <2>1. MergeKeepsBooks'
    BY <1>11, BooksUntouched DEF MoveRows
  <2>2. QED BY <1>11, <2>1 DEF MoveRows, LinkInv, linkRows, linkSeen
<1>12. ASSUME NEW c \in Confirms, Merge(c) PROVE LinkInv'
  <2>1. MergeKeepsBooks' /\ funds' \in [Accounts -> Nat]
    BY <1>12, MergeMoves
  <2>2. /\ link[c] = "merging" /\ link' = [link EXCEPT ![c] = "merged"]
        /\ exists' = FALSE /\ LetGo(c)
        /\ owner' = NewOwners(c) /\ inviter' = NewInviters(c)
        /\ UNCHANGED <<credited, rewarded, seenOwner, seenInviter, seenFunds>>
    BY <1>12 DEF Merge, linkSeen
  <2>3. /\ userOwner' \in [Accounts -> Workers \cup {NoWorker}]
        /\ \A y, u : y # c /\ userOwner[u] = y /\ u \in Accounts => userOwner'[u] = y
    BY <2>2 DEF LetGo
  <2>4. userOwner[WebAccount] = c
    BY <2>2
  <2>5. ASSUME NEW j \in Invoices PROVE SettlesWhatItHolds(j)'
    BY <2>2, <2>3, <2>4, <2>5
  <2>6. ASSUME NEW k \in Confirms PROVE MergesWhatItHolds(k)'
    BY <2>2, <2>4, <2>6
  <2>7. owner' \in [Invoices -> Accounts] /\ inviter' \in [Accounts -> Accounts \cup {NoAccount}]
    BY <2>2 DEF NewOwners, NewInviters
  <2>8. LinkTyped'
    BY <2>1, <2>2, <2>3, <2>7
  <2>9. QED BY <2>1, <2>5, <2>6, <2>8 DEF LinkInv
<1>13. ASSUME NEW x \in Invoices \cup Confirms, Breaks(x) \/ DeadlockVictim(x) PROVE LinkInv'
  BY <1>13, RollbackKeeps DEF Breaks, DeadlockVictim
<1>14. QED
  BY <1>1, <1>2, <1>3, <1>4, <1>5, <1>6, <1>7, <1>8, <1>9, <1>10, <1>11, <1>12, <1>13
     DEF LinkNext, SettleStep, MergeStep

-----------------------------------------------------------------------------
(* The services side by side: a step of MCServices is a step of one of     *)
(* them, and leaves the variables of the others alone.                     *)

ServicesInv ==
    /\ ReceiptsInv /\ BonusInv /\ WatchInv /\ SweepInv /\ UpdaterInv
    /\ GatewaysInv /\ LinkInv

LEMMA InitServices == MCInit => ServicesInv
  BY InitReceipts, InitBonus, InitWatch, InitSweep, InitUpdater, InitGateways, InitLink
     DEF MCInit, ServicesInv

LEMMA OneStepsAtATime ==
  ASSUME [MCNext]_<<part, Services>>
  PROVE  /\ [ReceiptsNext]_receiptVars /\ [BonusNext]_bonusVars /\ [WatchNext]_watchVars
         /\ [SweepNext]_sweepVars /\ [UpdaterNext]_updaterVars /\ [GatewaysNext]_gateVars
         /\ [LinkNext]_linkVars
  BY DEF MCNext, Services

LEMMA ServicesStep == ServicesInv /\ [MCNext]_<<part, Services>> => ServicesInv'
<1> SUFFICES ASSUME ServicesInv, [MCNext]_<<part, Services>> PROVE ServicesInv'
  OBVIOUS
<1>1. /\ [ReceiptsNext]_receiptVars /\ [BonusNext]_bonusVars /\ [WatchNext]_watchVars
      /\ [SweepNext]_sweepVars /\ [UpdaterNext]_updaterVars /\ [GatewaysNext]_gateVars
      /\ [LinkNext]_linkVars
  BY OneStepsAtATime
<1>2. ReceiptsInv' /\ BonusInv' /\ WatchInv' /\ SweepInv'
  BY <1>1, ReceiptsStep, BonusInvStep, WatchInvStep, SweepInvStep DEF ServicesInv
<1>3. UpdaterInv' /\ GatewaysInv' /\ LinkInv'
  BY <1>1, UpdaterInvStep, GatewaysInvStep, LinkInvStep DEF ServicesInv
<1>4. QED BY <1>2, <1>3 DEF ServicesInv

(* Each service keeps its inductive invariant, for any instance.           *)
THEOREM ServicesHold == MCSpec => []ServicesInv
  BY InitServices, ServicesStep, PTL DEF MCSpec

(* An income is registered at most once for each answer that arrived       *)
(* (Receipts), and a referral brings its days at most once, in the bot and *)
(* in the panel, but for renewals that were rolled back after the panel    *)
(* was written, each of which may count once more when its webhook has     *)
(* copied the date into the row (ReferralBonus): for any number of sales,  *)
(* runs and settlements of the same referral.                              *)
THEOREM EverythingOnce == MCSpec => []OnceOnly
<1>1. ServicesInv => OnceOnly
  BY BonusGivenOnce DEF ServicesInv, ReceiptsInv, OnceOnly
<1>2. QED BY <1>1, ServicesHold, PTL

(* What the administrator switched by hand stays until a hand switches it  *)
(* back, unless the watchdog overlooked the switch: behind its 15 s cache, *)
(* or between its own two writes (PanelWatchdog); of the sweeps that have  *)
(* not outlived their lock one is at work, until a lock is robbed          *)
(* (ReconcileSweep).                                                       *)
THEOREM NobodyInTheWay == MCSpec => []JobsKeepApart
<1>1. ServicesInv => JobsKeepApart
  BY OneSweepAtWork DEF ServicesInv, WatchInv, JobsKeepApart, HandKept
<1>2. QED BY <1>1, ServicesHold, PTL

(* However merges and settlements interleave, the wallets hold exactly the *)
(* deposits and commissions credited, none of it in the account that is    *)
(* gone, and nobody invited themselves (AccountLink).                      *)
THEOREM MergesKeepBooks == MCSpec => []MergeKeepsBooks
<1>1. ServicesInv => MergeKeepsBooks
  BY DEF ServicesInv, LinkInv
<1>2. QED BY <1>1, ServicesHold, PTL

(* Through every adapter of the registry, for any invoice and any sums a   *)
(* payer makes a provider take, a row is COMPLETED only when at least 95%  *)
(* of the invoice was taken, and is worth the invoice or what was taken    *)
(* beyond it (Gateways); except where CloudPayments only holds the sum, or *)
(* released it, after "authorized".                                        *)
THEOREM CreditsAreTrue == MCSpec => []CreditIsTrue
<1>1. ServicesInv => CreditIsTrue
  BY DEF ServicesInv, GatewaysInv, PromisesInv
<1>2. QED BY <1>1, ServicesHold, PTL

(* An acknowledged report of a payment still has a task, or a poll that    *)
(* recognises it (Gateways); an announced update is begun or is on its way *)
(* (Updater).                                                              *)
THEOREM UnderWayArrives == MCSpec => []AckedIsUnderWay
<1>1. ServicesInv => AckedIsUnderWay
  BY OwedIsThere, WaitsIsRecoverable DEF ServicesInv, AckedIsUnderWay
<1>2. QED BY <1>1, ServicesHold, PTL
=============================================================================
