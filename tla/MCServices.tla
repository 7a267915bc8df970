------------------------------ MODULE MCServices ------------------------------
(* The services around the core, each on a small instance.  They share no  *)
(* state, so they are checked side by side: part, chosen in the initial    *)
(* state, says which one runs; the others stay in their initial states.    *)
EXTENDS Receipts, PanelWatchdog, ReconcileSweep, AccountLink, ReferralBonus,
        Gateways, Updater, Integers, TLC

CONSTANTS a, b, d1, d2, p1, s1, s2, i1, i2, c1, c2, Nobody, NoJob

VARIABLES
    part,
    balance, payment, earned, clawed, boughtNow, request, granted, taken,
    step, job, rowLock, wallet, corrections

MCPayerOf == (i1 :> 1) @@ (i2 :> 3)
MCInviterOf == (1 :> 2) @@ (2 :> 1) @@ (3 :> 1)
MCTapper == (c1 :> 2) @@ (c2 :> 3)

(* Users who invited each other: settlements lock the wallets in opposite  *)
(* orders.                                                                 *)
W == INSTANCE Wallet WITH
    Users <- {a, b}, Payments <- {d1, d2}, Topups <- {d1},
    Purchases <- {p1}, Requests <- {}, Sessions <- {s1, s2}, Askers <- {s1},
    Corrections <- {12}, MaxCorrections <- 1,
    Referrer <- (a :> b) @@ (b :> a), Rate <- (a :> 50) @@ (b :> 150),
    Payer <- (d1 :> a) @@ (d2 :> b), Sum <- (d1 :> 20) @@ (d2 :> 41),
    Buyer <- (p1 :> a), Price <- (p1 :> 15), MinWithdrawal <- 10,
    bought <- boughtNow, pc <- step

wallets == <<balance, payment, earned, clawed, boughtNow, request, granted, taken,
             step, job, rowLock, wallet, corrections>>

Services ==
    <<receiptVars, watchVars, sweepVars, linkVars, bonusVars, gateVars,
      updaterVars, wallets>>

MCInit ==
    /\ part \in {"receipts", "watchdog", "sweep", "link", "bonus",
                 "gateways", "updater", "wallets"}
    /\ ReceiptsInit /\ WatchInit /\ SweepInit /\ LinkInit /\ BonusInit
    /\ GatewaysInit /\ UpdaterInit /\ W!Init
    /\ part # "updater" => running = 1 /\ auto /\ beat

MCNext ==
    \/ /\ part = "receipts" /\ ReceiptsNext
       /\ UNCHANGED <<part, watchVars, sweepVars, linkVars, bonusVars,
                      gateVars, updaterVars, wallets>>
    \/ /\ part = "watchdog" /\ WatchNext
       /\ UNCHANGED <<part, receiptVars, sweepVars, linkVars, bonusVars,
                      gateVars, updaterVars, wallets>>
    \/ /\ part = "sweep" /\ SweepNext
       /\ UNCHANGED <<part, receiptVars, watchVars, linkVars, bonusVars,
                      gateVars, updaterVars, wallets>>
    \/ /\ part = "link" /\ LinkNext
       /\ UNCHANGED <<part, receiptVars, watchVars, sweepVars, bonusVars,
                      gateVars, updaterVars, wallets>>
    \/ /\ part = "bonus" /\ BonusNext
       /\ UNCHANGED <<part, receiptVars, watchVars, sweepVars, linkVars,
                      gateVars, updaterVars, wallets>>
    \/ /\ part = "gateways" /\ GatewaysNext
       /\ UNCHANGED <<part, receiptVars, watchVars, sweepVars, linkVars,
                      bonusVars, updaterVars, wallets>>
    \/ /\ part = "updater" /\ UpdaterNext
       /\ UNCHANGED <<part, receiptVars, watchVars, sweepVars, linkVars,
                      bonusVars, gateVars, wallets>>
    \/ /\ part = "wallets" /\ W!Next
       /\ UNCHANGED <<part, receiptVars, watchVars, sweepVars, linkVars,
                      bonusVars, gateVars, updaterVars>>

(* The fairness of each service, asked of the part that runs. *)
MCFairness ==
    /\ \A r \in ReceiptRuns : WF_receiptVars(part = "receipts" /\ ReceiptStep(r))
    /\ WF_watchVars(part = "watchdog" /\ WatchStep)
    /\ WF_sweepVars(part = "sweep" /\ \E w \in Sweeps : SweepStep(w))
    /\ WF_sweepVars(part = "sweep" /\ WideComesDue)
    /\ WF_sweepVars(part = "sweep" /\ AbandonedLockExpires)
    /\ WF_linkVars(part = "link" /\ \E i \in Invoices : SettleStep(i))
    /\ \A c \in Confirms : SF_linkVars(part = "link" /\ MergeStep(c))
    /\ WF_linkVars(part = "link" /\ \E x \in Workers : DeadlockVictim(x))
    /\ WF_bonusVars(part = "bonus" /\ \E p \in Rewards : BonusStep(p))
    /\ WF_gateVars(part = "gateways" /\ \E w \in Words : HandleWebhook(w))
    /\ WF_gateVars(part = "gateways" /\ (Enqueue \/ EnqueueFails))
    /\ WF_gateVars(part = "gateways" /\ RunTask)
    /\ SF_gateVars(part = "gateways" /\ Poll)
    /\ WF_updaterVars(part = "updater" /\ SidecarRuns)
    /\ SF_updaterVars(part = "updater" /\ UpdateSucceeds)
    /\ WF_updaterVars(part = "updater" /\ BeatGoesStale)
    /\ WF_updaterVars(part = "updater" /\ CheckStep)
    /\ \A r \in Revisions : WF_updaterVars(part = "updater" /\ KeyExpires(r))
    /\ W!Fairness

MCSpec == MCInit /\ [][MCNext]_<<part, Services>> /\ MCFairness

-----------------------------------------------------------------------------
(* At most once, whatever overlaps, crashes or is asked again: an income is *)
(* registered (see Receipts), the bonus days of a referral are granted, but *)
(* for the dates a webhook copies (ReferralBonus).                          *)
OnceOnly == IncomeOnce /\ BonusOnce

(* Jobs keep out of one another's way: the watchdog does not undo what the  *)
(* administrator switched by hand, unless its cache or its own two writes   *)
(* hid the switch (PanelWatchdog), a sweep does not run beside the next one *)
(* (ReconcileSweep).                                                        *)
JobsKeepApart == HandKept /\ SweepsApart

(* What somebody was told is under way can still get there: a webhook that  *)
(* was acknowledged (Gateways), an update that was announced (Updater).     *)
AckedIsUnderWay == AckedIsRecoverable /\ AskedIsBegun

(* The periodic jobs get there: no income is forgotten (Receipts), automatic *)
(* maintenance does not outlast the outage (PanelWatchdog), every stuck      *)
(* payment is polled again and again (ReconcileSweep), bonus days come       *)
(* although a settlement was rolled back (ReferralBonus), and automatic      *)
(* updates are installed although installs fail (Updater).                   *)
JobsGetThere ==
    /\ part = "receipts" => IncomeFiled
    /\ part = "watchdog" => OutageEnds
    /\ part = "sweep" => NobodyStarves
    /\ part = "bonus" => BonusComes
    /\ part = "updater" => AutoInstalls

(* Money taken arrives: every deposit is credited although accounts merge   *)
(* meanwhile (AccountLink), every invoice paid in full is credited or given *)
(* back, unless a failed attempt had closed its row (Gateways), and no      *)
(* settlement waits for ever for another's wallet (Wallet).                 *)
MoneyArrives ==
    /\ part = "link" => DepositsSurviveMerges
    /\ part = "gateways" => PaymentsAreCredited
    /\ part = "wallets" => W!EverySessionEnds
=============================================================================
