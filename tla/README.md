# Formal models of StepBot

StepBot sells VPN subscriptions from a Telegram bot, a mini-app and a web
cabinet. Money comes in through some twenty payment gateways, value goes out as
users of a Remnawave VPN panel, and a Postgres database, a Redis broker and a
set of taskiq workers stand in between. This directory holds TLA+ models of the
parts where steps of several processes meet, the TLC runs that check them and
the TLAPS proofs about them.

```
tlc -config PipelineRaces.cfg MCPaymentPipeline      # any run of the table below
tlapm PaymentPipelineProofs.tla                      # likewise the other seven: *Proofs and Sums
```

## The system

| Component | State | Operations | Talks to | Module |
|---|---|---|---|---|
| Payment pipeline (`services/payment.py`, `web/routes/payments.py`, `infrastructure/taskiq/`) | `transactions` row per invoice, Redis job list | checkout, webhook, `process_payment`, minute sweep, "check payment", dead letter | providers, workers, wallet, fulfilment | `PaymentPipeline`, `Settlement` |
| Payment gateways (`infrastructure/payments/gateways/`) | none of their own | `handle_webhook`, `fetch_status`, `create_payment` | pipeline | `Gateways` |
| Sweep scheduling (`tasks.py` 467-629) | Redis lock, cursor, wide-pass key | take lock, page, poll, release | pipeline | `ReconcileSweep` |
| Refunds (`web/routes/admin/payments.py`) | the same row | `refund_payment` | provider refund API, wallet, panel | `PaymentPipeline`, `Wallet`, `Lifecycle` |
| Checkout and trial (`handlers/purchase.py`, `web/routes/cabinet.py`, `handlers/topup.py`) | Redis tap key, quotes, one-shot discount | pay, top up, trial, Stars charge | pipeline, fulfilment | `Till` |
| Wallet and withdrawals (`dao/user.py`, `handlers/withdraw.py`, `admin/withdrawals.py`) | `users.balance_minor`, `withdrawal_requests`, `referral_earnings` | guarded debit, increment, row lock, request, pay, reject | everything that moves money | `Wallet` |
| Purchase and fulfilment (`services/purchase.py`, `services/subscription.py`) | `subscriptions`, `users.current_subscription_id`, panel users | balance checkout, `fulfill`, grant, renew, change, traffic top-up | panel first, then database | `Fulfilment`, `Pricing` |
| Autopay (`tasks.py` 1797-2042) | `subscriptions.autopay_*` | renewal from balance or saved card | wallet, pipeline, fulfilment | `Fulfilment`, `CardAutopay` |
| Smart cart (`services/cart.py`) | Redis intent | stash, take, put back | wallet, fulfilment | `SmartCart` |
| Subscription lifecycle (`web/routes/panel.py`, `services/resync.py`, `services/grace.py`, retry tasks) | row and panel status, dates | panel events, resync, grace, retry, backstop, push | panel | `Lifecycle` |
| Panel client (`infrastructure/remnawave/`) | mode and id cache per process | probe, retry, number lookup | panel 2.x or 3.x | `PanelClient` |
| Panel watchdog (`tasks.py` 880-960) | Redis counter and marker, maintenance flag | ping, switch, lift | panel, maintenance | `PanelWatchdog` |
| Fiscal receipts (`tasks.py`) | claim and receipt columns | claim, register, un-claim | tax service | `Receipts` |
| Referrals and promo codes (`services/referral.py`, `services/promo.py`) | earnings, activations | commission, one-time days, rewards | wallet, subscriptions | `Wallet`, `ReferralBonus`, `Promo` |
| First contact (`middlewares/`, `handlers/start.py`) | user row, inviter, campaign, promo group | create, gate, welcome, attribute | all of the bot | `Arrivals` |
| Sign-in (`web/routes/cabinet_auth.py`, `cabinet_link.py`, `oauth.py`) | refresh tokens, codes, identities | register, log in, rotate, link, unlink | accounts | `CabinetSessions`, `WebLogin` |
| Account linking (`services/account_link.py`) | two user rows | merge | wallet, transactions | `AccountLink` |
| Menus and parameters (`admin/menu.py`, `services/bot_config.py`) | `bot_config_values`, `menu_nodes`, caches | edit, read, show | every screen | `BotMenu`, `BotConfig` |
| Messages (`tasks.py`, `admin/broadcasts.py`) | Redis keys, `broadcasts` | collect, send, save progress | Telegram | `Notices`, `Broadcasts` |
| Support (`services/tickets.py`, `ai_support.py`) | tickets, messages | write, answer, escalate, close | AI provider | `SupportDesk` |
| Importers (`services/*_import.py`) | all of the above | import a dump | panel | `Importers` |
| Operations (`backup.py`, `telemetry.py`, `telemetry-server/`, `update.py`, `updater.sh`) | archives, issues, marker file | dump, send, ingest, update | Docker host, vendor | `Backups`, `Telemetry`, `Updater` |
| Admin cabinet listings, statistics, texts, landing pages | none of their own | single-statement edits and I/O | database | not modelled |

What is hard in it: webhooks are duplicated, lost, reordered and race with the
sweep and the buyer's own check; a job is off the broker's list before it runs,
so a dying worker loses it; the panel is written before the database commits;
row locks serialise sessions whose identity maps may already hold older rows;
Redis keys with a TTL stand in for locks.  `PROJECT.json` lists these places
one by one under `hazards`, and every component, modelled or not, under
`components`.

## PaymentPipeline: one invoice from webhook to value

`Settlement.tla` is the promise: money the provider took is turned into value
at most once and for the right sum, and an invoice is closed without value only
when the provider took no sufficient payment. `PaymentPipeline.tla` is the code.

| Model | Code |
|---|---|
| `status`, `amount`, `canonical`, `age` | `transactions.status`, `amount_minor`, `external_id` replaced by the provider's own id, bucket of `created_at` |
| `effect`, `commission` | value credited (`_fulfill`) and the base handed to `reward_on_topup`, committed |
| `panel` | panel writes made for the payment: never rolled back |
| `told`, `alerted` | direct message to the buyer; dead-letter alert to admins: none, sent, or lost (the day's key is set before the alert, whose failure is suppressed) |
| `prov`, `charge`, `notices` | the provider: its verdict, the money, the webhooks it still redelivers |
| `queue`, `hand`, `attempt` | Redis list of the broker, job in hand of an actor, try inside `_process_with_backoff` |
| `lock`, `pc` | owner of the row lock; step of the actor inside the unit of work |

Actors are worker slots, sweeps, "check payment" callbacks and refund requests.
All of them except refunds go through `Lock`, then `Duplicate`, `Reject` or
`Fulfill` and `Commit`, which is `PaymentService.process` and the commit of its
caller, then `AfterSettled`. `TransientError`, `AfterFails`, `DeadLetter`,
`PollerFails` and `Crash` leave the unit of work and roll it back.

Abstractions:

* a PENDING notice changes nothing in the code and is left out; the gateway
  stays active; all invoices quote the same sum, and gateways whose payers
  cannot edit the sum charge exactly it;
* `created_at` is one of four buckets: under 90 s (not swept yet), up to 23 h
  (the webhook may defer to the sweep), up to 24 h (swept, not deferred to),
  older. It moves only for pollable gateways and PENDING rows, where it is read;
* the sweep's Redis lock, cursor and tiers are not modelled: the code says
  correctness never depends on the lock, so any two sweeps may overlap, and
  fairness stands for "every row of the window is visited", which
  `ReconcileSweep` shows of the schedule;
* overpay alerts, the saved card token and domain events are left out; what a
  refund does to the wallet is in `Wallet`, to the subscription in `Lifecycle`.

Bounds: `MaxAttempts` is `len(PROCESS_BACKOFF) + 1` (3 in the code, 1 or 2 in
the runs), `MaxRuns` is `max_retries` (5 in the code, 2 or 3 in the runs),
`MaxFaults` the failures the environment may inject (transient errors, domain
errors, lost answers, broker outages, crashes). One fault in `races` fails any
one step of any actor while the others go on; `liveness` has two.
Two workers, a sweep and a check are two holders of the same report and two
pollers. The sums 18, 19, 22,
40 and 41 on an invoice of 20 lie on both sides of 95%, 105% and twice. At
exactly twice (40) `Worth` believes the sum, as `payment.py:114` does, against
one sentence of the comment above it ("Where code, comments and docs part").

| Run | Shows |
|---|---|
| `races` | a pollable deposit of an editable sum and a subscription of a webhook-only gateway, every actor, crashes included: `EffectMatchesRow`, `BuyerToldTheTruth`, `RefundTargetsCharge`, `StatusOnlyAdvances`, and the refinement of `Settlement` |
| `liveness` | under fairness, with fewer faults than retries: `PaidIsNotForgotten`, `PaidIsSettled`. What no poll recovers may end dead-lettered; the admins then were told, or it took a second fault for their alert to fail |
| `declined` (violation) | a declined attempt closes the row; the later success is dropped as a "duplicate" |
| `refund` (violation) | a crash between the provider's refund and the commit: the provider refunds twice, although the endpoint says it fires at most once |

Fairness (`FairSpec`): providers redeliver until they get a 200; free workers
pop the list; a started unit of work goes on (asyncio tasks are not starved);
Postgres grants a row lock to its waiters in turn, hence strong fairness on
`Lock`; time passes; the minute cron keeps visiting stuck rows. Nothing makes a
buyer press the button, an admin refund, or a failure happen. The run checks
`PaidIsNotForgotten` with faults below the number of tries and without crashes:
with faults on every try of every run it does not hold: the job of a gateway
without `fetch_status` is dropped, although `broker.py:95` says the reconciler
covers longer outages, and a crash after pickup loses a job in the same way.

The runs state `CHECK_DEADLOCK FALSE` because a shop with nothing to do stops.


## Wallet: units of work on balances

`Wallet.tla` models every unit of work that moves `users.balance_minor`, at the
granularity of the row locks PostgreSQL takes for it.

| Model | Code |
|---|---|
| `balance`, `wallet` | committed `users.balance_minor`; owner of the user row's lock |
| `payment`, `earned`, `clawed` | a gateway payment, its `referral_earnings` row, what its refund took back |
| `bought` | a purchase, renewal or paid trial paid from the balance |
| `request` | `withdrawal_requests` |
| `granted`, `taken` | an admin's positive and negative corrections |
| `pc`, `job`, `rowLock` | each session: step, what it does, the row it claimed |

A session begins (`BeginSettle`, `BeginSpend`, `BeginAsk`, `BeginProcess`,
`BeginUndeposit`, `BeginUnspend`, `BeginAdjust`): it claims its row and checks
the status. It then takes the wallet rows it updates (`Hold`, `RefundWithoutClaw`,
`Reward`), and commits or rolls back. A guarded debit evaluates its `WHERE` on
what the previous owner of the row committed. `take_details` computes the
available sum before it holds anything, so that sum is fixed in `BeginAsk`.

Abstractions: currencies are one; panel work inside the unit of work is only a
reason to roll back; whether an autopay is due, a trial unused or a plan on sale
is an input; merges, importers and promo rewards also write balances, and are in
`AccountLink`, `Importers` and `Promo`. `MaxCorrections` bounds how often an
admin corrects a balance.

| Run | Shows |
|---|---|
| `backoffice`, part "books" | a negative correction, three sessions, one of them a withdrawal chat; users who invited each other, rates of 50% and 150%: `LedgerReconciles`, `NeverOverdrawn`, `RewardWithinPayment`, `AnsweredOnce`, and `HoldsWithinEarnings` |
| `services`, part "wallets" | a gift, two settlements taking the two wallets in opposite orders: `EverySessionEnds` (in `MoneyArrives`) |
| `wallet_two_chats` (violation) | two withdrawal messages at once reserve more than was earned, although the docs subtract what is already reserved |

Two payments, a purchase and two requests over two users give every pair of
units of work that meets on one wallet, and the only ring of waiting sessions
two users allow; a third session is a bystander who takes a lock in between. In
`backoffice` one session alone serves withdrawals, so the run says the sum
check is right as long as a user's messages are handled one at a time.

Fairness: PostgreSQL queues the waiters of a row, so `Work` is strongly fair;
its deadlock detector picks a victim, who rolls back. Nothing makes a session
start or fail. A rolled back settlement is the pipeline's retry (the deadlock
error is not in its transient list, so it goes to the dead letters).


## Fulfilment: from a paid order to a subscription

`Fulfilment.tla` models `PurchaseService.fulfill`, `checkout_from_balance` and
the balance path of `_autopay_one` on the subscriptions of one user, as several
workers run them at once. One user is enough: the locks are the rows of a user
and of that user's subscriptions, and sessions of two users share nothing here.

| Model | Code |
|---|---|
| `current`, `sub` | `users.current_subscription_id`, `subscriptions` rows |
| `panel` | the panel users behind them, never rolled back |
| `due` | `expire_at` is within the autopay horizon |
| `pc`, `seen`, `target`, `base` | each order's session: step, `current_subscription_id` in its identity map, subscription it works on, row it loaded |
| `userLock`, `subLock` | owners of the row locks |

A hosted order is invoiced (`Checkout`), read (`ReadUser`, line 212 of
`purchase.py`), locked (`LockUser`, line 232), resolved and loaded (`Load`),
written to the panel (`PanelWrite`) and committed (`Commit`, whose flush waits
for the subscription's row). A wallet purchase locks first and so reads the
user under the lock. Autopay locks the subscription's row (`AutopayLock`) and
meets the user's row at its guarded debit (`AutopayDebit`). `DuplicateKey`,
`Fail`, `Declined` and `DeadlockVictim` roll back.

Abstractions: an expiry date is the set of orders whose days it holds and a
traffic limit is the set of packs added to the plan's own, so a lost update is
a missing element. A plan change keeps the set of days: the code converts the
remainder to days of the new plan (the rate is in `Pricing`). A session
writes the columns it assigned with values computed from the row it loaded, and
leaves the other columns of the row as they are. Subscriptions are live and
have a panel user; constructor limits, trials, squads and the discount reset
are left out. A new subscription is named by its order, so the panel account a
rolled back NEW leaves behind is the one its retry writes again. Which orders
come back after a rollback is the pipeline's matter (redelivery, dead letter,
sweep); here a paid hosted order may always be served again. `MaxFaults` bounds
panel errors, lost connections and crashes.

| Run | Shows |
|---|---|
| `shopfront`, part "fulfilment" | a plan change by a gateway, a renewal from the wallet, two traffic packs and two autopays on an imported subscription (no plan yet): `PaidTimeKept`, `PanelNeverBehind`, `RenewedOncePerPeriod`, `PacksKept` |
| `ends` | two invoices of the same plan, a pack and an autopay, no subscription yet: the one that breaks the unique index is retried and renews; `OneAccountPerUser`, `PaidIsFulfilled` |
| `fulfil_two_invoices` (violation) | two invoices of different plans, no subscription yet: both workers read the user before the lock, and `SELECT ... FOR UPDATE` does not refresh the object they read, so both create a subscription |

Two orders of each kind meet in every order, and a third beside them covers the
session that only holds a lock; two plans tell a renewal from a change; one
fault fails any one step of any order while the others go on.

Fairness: a started session goes on and PostgreSQL queues the waiters of a row
(strong fairness on `Work` once an order is not idle: paid orders are served
again), and the deadlock detector picks a victim. Nothing makes a buyer order,
a subscription come due, or a failure happen.


## Lifecycle: one subscription between its writers

`Lifecycle.tla` models everything that moves the status and dates of one paid
subscription after it was bought. Ten jobs write it: paid renewals (`pay`),
renewals given by codes, referrals and admins (`extend`), a date set by hand
(`calendar`), refunds, the device guard, the grace sweep, the nightly resync,
`panel_write_retry`, the backstop `reconcile_disabled` and a re-push of limits;
and the panel answers with webhooks.

| Model | Code |
|---|---|
| `sub` | the row: `status`, `expire_at`, `grace_until`, `grace_started_at` |
| `user` | the panel user: status, expiry, the traffic cap of a grace window |
| `events` | webhooks the panel sent and the bot has not handled, in any order |
| `session[j]` | job `j`: its step, the row as it loaded it, the row as it set it |
| `due`, `retry` | paid renewals not fulfilled yet; a queued `panel_write_retry` |
| `entitled`, `graces`, `cut` | what the customer is owed, kept for the properties only |

A job loads the row into its session, calls the panel and commits; the flush
writes only the columns the job changed, so a job may overwrite one column of
another and keep the rest. Nothing keeps two jobs apart, and the module lets
any two overlap within `shop.open`. Left out: limited, deleted and created
events, adoption of numeric ids (in `PanelClient`), several subscriptions.

The run `lifecycle` checks six small shops at once, each a set of jobs, with or
without the panel's webhook (`MCShops`): revocation with overlapping jobs;
service of paid renewals one job at a time; gifts against grace; payments
against resync; grace against pushed limits; the calendar against the guard. A
period is one day, grace one day, the cooldown and the look-back two, over five
days (0 to `MaxTime`); one order, one refund or guard action, two events in
flight and one failing call. One day of each kind is enough to be before,
inside and after every window.

* `NoFreeTime`: the row and the panel never show a day that was not paid, given,
  set by hand or opened as grace: no job makes days out of what another wrote.
* `GraceOncePerCooldown`: a grace window opens on the panel only after the
  cooldown of the previous one.
* `RefundSticks`: through outages, lost retries and a resync that read the row
  before, a refunded user is off on the panel in the end and stays off until a
  payment. For a shop without the webhook and without grace: both may write a
  status from before the refund over it (see the last chapter).
* `PaidIsServed`: a paid renewal is served in the end, in a shop without the
  webhook whose jobs do not overlap, unless the resync took an outage of the
  panel for a vanished user.

`lifecycle_paid_once` (violation) lets a commit fail after the panel was
written: the panel's webhook copies the new date into the row, the retry renews
from there, and one payment buys two periods.

Fairness: days pass (strong, a day with an open session does not end), the
panel expires users, started jobs go on, resync and backstop come every night
(strong). Nothing makes a customer pay, an admin act or a call fail.


## The services around the core

Each service has a module of its own with its own small instance. Their run
modules, `MCServices`, `MCShopfront` and `MCBackoffice`, put several side by
side: a constant-in-time variable `part` says which of them moves, so the state
space is the sum of theirs and not the product, and every part still meets all
its own interleavings. The run modules add no behaviour. A property that joins
parts is the conjunction of theirs; the initial states satisfy the parts that
do not move.

### Run `services`: jobs that must get there

| Part | Property | What it says |
|---|---|---|
| `Receipts` | `IncomeOnce` (in `OnceOnly`) | a sale is registered once as income, and once more only for each registration whose answer was lost |
| | `IncomeFiled` (in `JobsGetThere`) | no income is forgotten: a sale is registered, unless it grew too old or a run died with its claim |
| `ReferralBonus` | `BonusOnce` (in `OnceOnly`), `BonusComes` (in `JobsGetThere`) | the one-time days of a referral are granted once, in the row and on the panel, and do come; when a settlement rolls back after the panel was told and the panel's webhook copies the new date into the row, the retry renews from there and the rolled-back renewal counts once more |
| `PanelWatchdog` | `HandKept` (in `JobsKeepApart`), `OutageEnds` (in `JobsGetThere`) | maintenance switched on by hand, without a marker of the watchdog, is never switched off by it, unless the watchdog overlooked the switch: the worker's 15 s cache did not show it, or it fell between the watchdog's two writes; automatic maintenance does not outlast the outage while nobody loses the marker |
| `ReconcileSweep` | `SweepsApart` (in `JobsKeepApart`), `NobodyStarves` (in `JobsGetThere`) | two sweeps work at once only when one outlived its lock; every stuck payment is polled again and again |
| `AccountLink` | `MergeKeepsBooks`, `DepositsSurviveMerges` (in `MoneyArrives`) | a merge loses and makes no money, nobody comes to invite himself, every deposit is credited although the payer's account is merged away |
| `Gateways` | `CreditIsTrue`, `AckedIsRecoverable` (in `AckedIsUnderWay`), `PaymentsAreCredited` (in `MoneyArrives`) | a row is COMPLETED only when the provider took at least 95% of the invoice, and is worth more than the invoice only if more was taken, except for a sum CloudPayments only holds; a report is acknowledged only when a task or a poll in its window will settle it; what was paid in full is credited, unless the provider gives it back first, or an attempt reported as failed had closed the row |
| `Updater` | `AskedIsBegun` (in `AckedIsUnderWay`), `AutoInstalls` (in `JobsGetThere`) | a request whose owner was told "started" is begun later, but for those overwritten or removed unread (below); automatic updates come although installs fail, workers die and requests are overwritten |
| `Wallet` | `EverySessionEnds` (in `MoneyArrives`) | two settlements that wait for one another's wallet both end |

Bounds: two sales and two runs; three toggles and a death of the watchdog, whose
cache fills and ages at any time; three stuck payments in pages of two, two
sweeps; three accounts, two invoices and two merges; three settlements of one
referral; for the gateways one invoice of 20 with sums on both sides of every
threshold, `MaxBlips` = 1 (a webhook repeated or a broker outage); two
revisions, one button press, one failing install, one switch of the automatic
updates. Two runs of a job are the pair that overlaps; a third account is the
inviter the other two share.

Fairness: a started job goes on and a cron fires again (weak); an abandoned key
expires (weak); a merge is asked for again after a deadlock, a poll comes again
although an outage hit one, an install that keeps being tried is not refused
for ever (strong). Nothing makes a person act.

Abstractions. `Gateways`: signatures count as verified, a provider's words are
those its adapter tells apart, ids are "ours", "theirs" or none; Telegram Stars
settle in the bot (`Till`); an invoice may be paid after a failed attempt
whatever the provider, and no worker dies with a job (`PaymentPipeline` has the
crash). `ReferralBonus` counts days as renewals, and the panel's webhook may
bring any date the panel has had. `Updater` has the sidecar of
`scripts/updater.sh` and what `scripts/update.sh` leaves behind: the thirty-day
Redis key does not expire; `flock` and runs on the host are left out.

### Run `shopfront`: what buyers do

| Part | Property | What it says |
|---|---|---|
| `Fulfilment` | see above | |
| `Till` | `OneShotsSpentOnce` | the wallet spends a one-time discount once; a trial is given once and never over a paid subscription that still runs; after it has ended, or was refunded, a trial may be taken, as in the code |
| | `TillIsHonest` | the bot handles one payment of a user at a time, but for handlers that outlive the key; an invoice shown has its row; whoever paid with Stars was credited, or will be, or somebody was told; the wallet adds up with purchases, top-ups and paid trials |
| `SmartCart` | `PromiseKept` | a stashed purchase is bought at most once, and while the buyer is owed it the intent is in the cart or in the hands of a worker |
| `CardAutopay` | `OneChargePerGap` (in `AtMostOnce`) | overlapping and dying runs charge the card at most once in the 20 hours after an attempt |
| `Promo` | `RewardOncePerSlot` (in `AtMostOnce`) | a code is activated no more often than a limit it had; a person gets its reward once, in the rows for an activation only, on the panel also for a request that rolled back, and once more for each such request when a webhook copied its date into the row |
| `Importers` | `ImportsAreRepeatable` (in `RowsMeetTheirUsers`) | a run may be repeated, die half-way and go on while the shop is open; the old wallet comes in at most once, a subscription with a key has one row, what was bought here keeps its term and stays current (exceptions per importer below) |
| `PanelClient` | `PanelUnderstood` (in `RowsMeetTheirUsers`) | across an upgrade of the panel every request and webhook meets its own user, a call that returns has done what it says, and users the bot made stay within reach |
| `Pricing` | `NothingFromNothing` | no sequence of quotes, renewals, changes of plan, trials and gifts, settled in any order, makes time worth more than was bought or given, but for the half day rounding may add |
| `Telemetry` | `TroublesAreTold` | every occurrence of an error is counted, queued, on its way, or was given up by a limit; an open issue is one the team was alerted of |

Bounds. `Till`: three taps of any kind, two Stars charges, one slow handler (its
key expires), one upset; prices are chosen so that a trial is affordable only
after a top-up. `SmartCart`: two intents, two deposits, three taps.
`CardAutopay`: three runs. `Promo`: two people, three redemptions, limits 1 and
2, a code for the wallet and a code for days (`inDays`). `Importers`: one person
of a dump with two legacy subscriptions, one of them with a tariff tag, two
runs, one live change, one accident. `Pricing`: ticks of half a day, three
tariffs, one free. `PanelClient`: one subscription the bot made and one it
adopted, two processes with one call each. `Telemetry`: two installations, two
bugs, limits of one or two everywhere, so that each is reached. One misfortune
per part meets every step.

Abstractions. `Importers`: reading a dump, promo codes and profile fields are
left out; the seven importers are records of what they look up, stamp and write.
`PanelClient`: device and connection calls and the clamp of an expiry are left
out; names and short ids are unique. `Telemetry`: its clock is the number of
occurrences; lists of installations and versions, event rows, scrubbing and
rendering are left out.

### Run `backoffice`: books, doors and messages

| Part | Property | What it says |
|---|---|---|
| `Wallet` | see above | |
| `CabinetSessions` | `SessionsDoNotFork` (in `SignInHolds`) | a refresh token makes at most one further session however many requests carry it, and none once a logout has ended it |
| `WebLogin` | `DoorsLeadHome` (in `SignInHolds`) | one address opens one account; it counts as confirmed only by who read its mail or entered; every account keeps a way in, unless its address still waits to be confirmed or two identities were unlinked at once |
| `Arrivals` | `NewcomersHold` (in `SignInHolds`) | one registration however many first updates come at once, and none of them fails; the inviter is whose link opened the account; a Stars charge passes the gates. The registration is announced after its commit, so a crash between the two loses the event |
| `BotMenu` | `WhatIsSavedIsShown`, `NothingVanishes`, `MenuIsWhole` (in `ScreensAreAsSaved`) | the cabinet shown is the one saved (but for web app buttons), no override makes a screen lose a button its owner did not switch off, a menu is the whole of what somebody saved |
| `Notices` | `NoticesHold` (in `OfficeInOrder`) | no notice reaches its chat twice, whoever was due for a step that began after the purchase was collected, a spent discount does not come back |
| `SupportDesk` | `NobodyLeftAlone` (in `OfficeInOrder`) | unless the AI was off or failed, or the call to an operator was lost, every message was read by an answer of the AI, or an operator is in the ticket or was called |
| `Broadcasts` | `CastAddsUp` (in `OfficeInOrder`) | everybody a finished broadcast set out to reach is counted once, nobody else got it, and whoever refused it is marked unless they came back |
| `Backups` | `BackupsHold` (in `OfficeInOrder`) | the last archives are kept and only a death or a shared second makes a bad one; a plain dump lies about only while a job is at it or died there; a copy leaves the host unless the owners could not be reached; a day has one of each |
| `BotConfig` | `ConfigIsRecent` (in `OfficeInOrder`) | a handler reads what an administrator meant at most `CACHE_TTL` ago, never what was rolled back, never the mask |

Bounds. `CabinetSessions`: two browsers, three tokens. `WebLogin`: two accounts,
two visits at once, two providers. `Arrivals`: two overlapping updates, two
campaigns and a code. `BotMenu`: two editors, two saves, two menu nodes.
`Notices`: a tick is five minutes, a day three of them, one step longer than
what is bought, two overlapping runs that live shorter than a day.
`SupportDesk`: one person with three messages in order, two AI turns, one step
of the staff. `Broadcasts`: two chats, two broadcasts, batches of two, one crash
or flood. `Backups`: three jobs in two seconds, keep one. `BotConfig`: one
switch, one secret, two processes, an age of two ticks. One failure per part, as
above.

Abstractions. `WebLogin`: a Telegram login is one step; an account once entered
stays open, as the end of a session only takes options away. `Notices`: sends
are in a fixed order and their arrival is not told apart. `Broadcasts`: a job is
handed over once and nothing cancels. `Backups`: one worker process runs all
jobs, so packing and pruning, between which nothing is awaited, are one step;
topic, password and channels are read again at each step. `BotConfig`: what a
reader read it stores in the same tick; no handler reads its own uncommitted
write. `Arrivals`: `ref_` stands for `partner_` too; gates are read when the row
is committed; the person is not an admin.

The parts have no liveness here, so no fairness is assumed, and a run states
`CHECK_DEADLOCK FALSE` because a shop in which nobody acts stops.


## What is proved

Each theorem holds for every value of the constants that meets the named
assumptions of the modules, unless it states a hypothesis of its own; what those
hypotheses exclude is the behaviour of a run that ends in a violation, or is
named here. Every inductive invariant was checked by TLC on a small instance
before it was proved.

`PaymentPipelineProofs`, for any payments, actors, sums and bounds:

* `TypeCorrect`: `Spec => []TypeOK`.
* `SettlementIsSound`: `Spec => []EffectMatchesRow`. The property is not
  inductive: it says nothing about a worker that has decided but not committed.
  `IInv` adds what makes it so. `ReportsAuthentic`: every notice, job and job
  in hand says what the provider really did (a COMPLETED report comes from a
  charge, and its sum, when comparable, is that charge). `LockOwned`: an actor
  past the row lock owns it. `DecisionHolds`: while an actor holds the lock and
  has passed the compare-and-set, the row is still PENDING and the report in
  hand still covers the invoice, so the commit is right when it comes.
* `StatusMonotone`: `Spec => StatusOnlyAdvances`.
* `Refinement`: if `Retryable = {}`, `Spec => ImplementsSettlement`. The
  hypothesis is needed: a provider that takes money after it reported a
  decline leaves an invoice the abstract specification says is closed
  unpaid (run `declined`).
* `MessagesAreTrue` (`BuyerToldTheTruth`) and `RefundsFindTheCharge`
  (`RefundTargetsCharge`), from `Journey`, whose invariant `JInv` adds to `IInv`
  that a job which reports a completed payment came with the canonical id or is
  for a row that can be polled, that pollers work on rows that can be polled,
  and that an actor past its commit finds the row settled.
* `PaidStaysOnItsWay`: if no process dies (`MayCrash = FALSE`) and `MaxFaults <
  MaxRuns * MaxAttempts`, `Spec => []PaidIsNotForgotten`. Its invariant counts:
  what a job has used up of its tries was paid for by failures (`TriesPaid`), so
  a job is never given up without the dead letter, whose alert took a failure of
  its own to be lost. With a crash at the wrong moment, or as many failures as
  there are tries, the job is gone; the run `liveness` checks the property
  within the same hypotheses.

`WalletProofs`, for any users, referral graph, rates, sums and sessions (the
rows are finite in number):

* `TypeCorrect`, `WalletsCovered` (`NeverOverdrawn`), `RewardsBounded`
  (`RewardWithinPayment`) and `PaidOutOnce` (`AnsweredOnce`). `NeverOverdrawn`
  alone is not inductive: a session between its debit and its commit carries an
  amount. `IInv` adds that such a session owns the wallet and the balance
  covers the amount (`Covered`), and that each session's row still has the
  status it read (`Knows`). `Frame` is the lemma all steps share: a step leaves
  alone whatever another session has locked.
* `CommissionBounded`: the rounded commission is within the payment, the
  arithmetic under `RewardsBounded`.
* `LedgerHolds` (`LedgerReconciles`): the balance is the sum of the rows. A
  session carries the entry it will make (`EntriesKnown`: whose wallet, which
  row, what amount), and one commit changes one wallet and one term of one sum.
* `EarningsCover` (`HoldsWithinEarnings`): if there is at most one asking chat.
  `available_minor` is read before any lock, so with two chats the property is
  false (run `wallet_two_chats`). `Fits` says that what one chat asked for still
  fits when it commits, as earnings never shrink.

`Sums` is what these need to know of the library's `SumFunctionOnSet`, for any
finite set and whatever order its fold takes: an element added, taken out or
given another value changes the sum by that much. The sum is the value of a
recursive equation; `SubsetInduction` is the induction it takes, stated with a
set of good sets where the library's has an operator parameter.

`FulfilmentProofs`, for any orders, plans, first subscription and number
of failures:

* `TypeCorrect`, `PaidTimeSafe` (`PaidTimeKept`), `PanelFirst`
  (`PanelNeverBehind`), `PacksSafe` (`PacksKept`) and `AutopayOnce`
  (`RenewedOncePerPeriod`). What makes them inductive is `SessionInv`: a
  session past the user's lock owns it (`OwnsUser`), the row it loaded is still
  the row (`BaseIsRow`), an autopay run owns the row it loaded while it is due
  (`Holds`), and after the panel's write the panel holds what the commit will
  write (`PanelWritten`). `Frame` and `OthersKeep` say once why a step of one
  order disturbs no other.
* `OneAccount`: if `Hosted = {}` or `First # None`, `Spec => []OneAccountPerUser`.
  The hypothesis is where the identity map does no harm: a wallet purchase
  reads under the lock, and a user who has a subscription keeps it. Without it
  the property fails (run `fulfil_two_invoices`). `Single` strengthens it: every
  subscription is the current one, and a session that saw none still sees none.

`ServicesProofs`, for the composition `MCServices` and any sales, runs, sweeps,
settlements, accounts and sums: every safety property of the run `services`.
`ServicesHold` joins one inductive invariant per service; a step of the
composition is a step of one service, and leaves the variables of the others.

* `EverythingOnce` (`OnceOnly`): a sale in a run's hand is claimed and in no
  other hand, and what is not claimed has been registered only as often as an
  answer was lost (`ReceiptsInv`); the bonus is granted by whoever holds the
  referral's row, and every date about, in the row, in a settlement's hand or in
  a webhook, counts the bonus and the renewals rolled back at most
  (`BonusInv`). A copied date is the theorem's exception.
* `NobodyInTheWay` (`JobsKeepApart`): `SweepInv`; and `WatchInv`, that over a
  switch nobody overlooked there is no marker, and the watchdog is not between
  its two writes. The exceptions are the property's.
* `MergesKeepBooks` (`MergeKeepsBooks`): `LinkInv`, with the sums of `Sums`.
  `InviterOf[u] # u` is an assumption: `ReferralService.bind` refuses to bind a
  user to himself, and a merge drops the binding that would.
* `CreditsAreTrue` (`CreditIsTrue`) and `UnderWayArrives` (`AckedIsUnderWay`):
  `GatewaysInv` relates each report on its way to the charge behind it, or to
  the sum CloudPayments holds (`Backed`), and `AdaptersSound` is what it needs of
  the registry of adapters.

`ShopfrontProofs`, for the composition `MCShopfront` and any deposits, intents,
taps, charges, runs, requests, dumps, calls and bounds (taps, Stars charges and
deposits are finite in number, as their sums and counts are taken):

* `PromisesKept` (`PromiseKept`): of every purchase promised, at most one copy is
  about, in the cart, in one worker's hands, or bought (`CartInv`).
* `DiscountsSpentOnce` (`OneShotsSpentOnce`) and `TillKeepsFaith`
  (`TillIsHonest`), from `TillInv`. `TapsInv` says of every tap what its row, its
  link and its lock are at each step of the handler; `StarsInv` of every Stars
  charge where it is; `CountsInv` pays each handler that outlives its key, and
  each row left behind, from `slow` and `upsets`; `MoneyInv` relates wallet,
  discount and trial to the rows. `TapShape` states which shapes a tap may have:
  the trial is paid from the wallet, a top-up never is.
* `OverlapsCountOnce` (`AtMostOnce`): a run that may still charge the card finds
  the gap stamped and nothing charged in it, and is alone (`CardInv`); who is
  between the check of a promo code and its activation holds the code's row, so
  what the check found stays true (`PromoInv`); `DaysInv` bounds the dates of a
  person as `BonusInv` does those of a referral.
* `RowsStayTogether` (`RowsMeetTheirUsers`): every key a row, a call, a cache or
  a webhook holds leads to its own subscription's panel user (`ClientInv`); what
  an import that nobody raced has seen is still so, and what it is about to
  write clashes with no unique index (`ImportsInv`, `UpToDate`).
* `WorthIsPaidFor` (`NothingFromNothing`), for any plans and prices. With types
  the property is inductive (`PricingInv`); what it takes is arithmetic. The
  period that is cheapest per day exists (`CheapestIs`), so no period of a plan
  is sold below its rate (`ListedIsWorth`), and days rounded half to even are
  worth no more than half a day above what they stand for (`BonusIsWorth`).
  `PricingAssumption`: prices are natural numbers, periods positive, a plan's
  list is finite, and `Scale`, the unit worth is measured in, is a multiple of
  every denominator, so that worth is a whole number.
* `TroublesReachTheTeam` (`TroublesAreTold`). `TelemetryInv` adds to the books
  that the server's tables are in order (`Tidy`) and that nothing is in a lane
  which is not in use. Queue and tables change event by event, in any order
  (`PutBackIs`, `IngestedIs`): each event's lemma says that it moves occurrences
  from one place to another, and the sums over installations and lanes follow.

`LifecycleProofs`, for any shops, periods, windows and bounds:

* `LifecycleTyped` and `GraceCooled` (`GraceOncePerCooldown`), from
  `LifecycleHolds`. The dates travel in a circle: the panel's into webhooks, from
  there into the row, into sessions and back to the panel. So one predicate
  bounds them all (`DatesUpTo`), by a day that only moves with a renewal told to
  the panel, a hand-set date or a grace window (`DatesStep`); `Counted` bounds
  that day by the orders and failures. `GraceKept` says that the sweep's session
  and the row agree on when grace began, as no other session changes it.
* `NoDayForFree`: if `CommitFails = FALSE`, `LifecycleSpec => []NoFreeTime`. The
  bound is `Allowed`: what is owed, what renewals have told the panel and not
  committed, and the grace windows. A commit that fails after the panel was told
  breaks it (run `lifecycle_paid_once`).

`BackofficeProofs`, for the composition `MCBackoffice` but its wallets, which
`WalletProofs` has, and any tabs, editors, buttons, menu nodes, visits, updates,
processes, chats, requests, runs and jobs (chats and seconds are finite in
number, as they are counted). `BackofficeHolds` joins one inductive invariant
per part.

* `EveryoneComesHome` (`SignInHolds`). A token a request has spent has no child
  until that request mints one, and then one (`SessionsInv`). Of the overlapping
  first updates one has the uncommitted row, and whoever goes on finds it
  committed (`ArrivalsInv`). An account an identity is about to leave keeps
  another way in, unless two leave at once (`Keeps`), and no row that is not
  there is held by anything (`DoorsInv`).
* `OfficeRuns` (`OfficeInOrder`):
  * `NoticesInv`: a notice told, or in a run's hand, has a key that lives, or
    has lived so long that no run may tell it again (`KeyOutlives`, from the
    windows, the lifetimes of the keys and `Lookback <= 6 * DayLength`: 15
    minutes against six days). A run is assumed to last less than a day.
  * `DeskInv`: each message has been attended to, or its ticket is one where the
    AI or the call failed, or a request is under way that has not asked the AI
    yet, or whose AI has read as far as the message.
  * `CastsInv`: while a worker is at a broadcast, what is sent, failed and still
    on its list adds up to its audience.
  * `BackupsInv`: `BadOnesHaveCauses` counts broken archives, which does not say
    where they come from. The invariant counts the seconds whose archive is
    broken or will be (`Tainted`), as a dump spoilt by a shared second lies about
    before it is packed.
  * `ConfigInv`: what the rows mean is what was last saved, and each process's
    cache was meant no longer ago than it is old.
* `WhatIsSavedStands` (`ScreensAreAsSaved`), for any catalogue of buttons without
  repeats that has `app` and `back` (`MenuAssumption`). `MenuInv` says which
  forms can be open and stored: an open form has every key once. What the bot
  reads of the rows of such a form is the form but for the web app's buttons
  (`ShownAsSaved`), and no override of a screen loses a button (`ScreenKeeps`).
  Of the tree, `OneSaveAtATime`: the DELETE of a save saw another save's rows all
  or not at all, so a commit takes no menu apart; and nodes that go in round
  after round hang from the root (`NoRing`).

The search for these invariants corrected the model: a reminder step may be
longer than the plan that was bought, and its window is then over at the purchase,
so `StepNeverMissed` speaks of windows that begin after it (`from`). Earlier,
in `Lifecycle`: a date set by hand counts as owed from the moment the panel is
told, not from the commit, as an overlapping renewal may extend it in between;
and the type `Days` counts the renewals told twice. In the Wallet's proof, `Asked`
and `Brought` name the functions the sums range over.

Where an operator goes through a sequence (`Among`, `FirstOfEach`, `PutBack`,
`Ingested`, `Inserted`), it is a recursive function over the positions, and its
lemma an induction over them with a set of good positions (`CountUp`, `Iterates`
in `Sums`), as for the sums.

Only model-checked: everything about liveness and `ENABLED`, which are beyond
the prover, and the runs that end in a violation. Every safety property of a
passing run is stated by a theorem.


## Where code, comments and docs part

Runs that end in a violation, listed under `findings`: `declined`, `refund`,
`wallet_two_chats`, `fulfil_two_invoices`, `lifecycle_paid_once`. The following
came up while modelling. They have no run of their own; the models either
contain the behaviour and the property names it as an exception, or the
property is stated for the shops where it does not arise.

Payments and wallet

* At exactly twice the invoice `payment.py:114` (`>`) credits the whole sum, as
  "Up to 2x the invoice we still trust the figure" (72) says; "AT or above 2x
  ... we credit ONLY the invoice amount" (73-76) says otherwise.
  `EffectMatchesRow` and `ImplementsSettlement` follow the code, and `races` has
  the sum.
* The dead letter is to "surface it to admins" (`tasks.py:70`), but its 24-hour key
  is set first and a failed `notify_admins` is suppressed (94-104): the alert may
  reach nobody, and further dead letters of that payment are mute for a day.
* The job of a gateway without `fetch_status` is dropped after the last retry,
  though `broker.py:95` and `tasks.py:23` leave longer outages to the reconciler.
* A second COMPLETED webhook overwrites `external_id` of a settled row
  (`payments.py:89-94`). Cispay's report of a refund is ignored, so a late "paid"
  still completes. Wata is polled by an id known only after its COMPLETED
  webhook. PayPalych credits an overpayment by webhook but only the invoice by
  poll. CloudPayments' "authorized" counts as completed (`cloudpayments.py:106`):
  a sum that is only held, and may be released, is credited. A payment after a
  declined attempt is dropped, the row being CANCELED (run `declined`).
* Sweep: a lock that expires between GET and DELETE deletes the next sweep's
  (`tasks.py:513`); of rows with one `created_at` at a page boundary some wait for
  the next walk.
* Card autopay: "never retry a limbo" (`tasks.py:1974`) holds for 20 hours; then a
  new charge may meet a pending one, and a pending card charge and a later
  renewal from the balance both renew.
* Till: the tap key is deleted without an owner check and the cabinet has none;
  a one-shot discount is quoted on every open invoice; a bot Stars invoice that
  fails otherwise than by `TelegramBadRequest` leaves a pending row; two charges
  on one invoice may leave the credited one's id nowhere; a sale campaign's
  quota is read and written without a lock.
* Cart: "pays once" (`cart.py:5`) holds per intent, but a newer stash is
  overwritten by a put-back, a manual purchase leaves the cart, and a stash
  saved after the deposit's take waits for the next one.
* Account link: the commission is skipped when the inviter was merged away.
* Trial: both surfaces refuse it only while the existing subscription is usable
  (`actions.py:584-588`, `cabinet.py:908-911`), so it may follow a paid one that
  ended or was refunded.
* Promo codes and referral days: `referral.py:116` says "a retried webhook can't
  double-extend", which holds of the ledger row; but a renewal that is rolled
  back after the panel was told, and whose date the panel's webhook copies into
  the row (`panel.py:107-108`), is counted again by the retry, as in
  `lifecycle_paid_once`.
* Pricing: the rest of a plan is valued at list rates, and a plan of price 0
  counts as "unknown", so its days carry over one for one; an imported trial
  renewed by RENEW keeps `is_trial`.

Subscriptions and panel

* Resync takes an outage of the panel (`get_user` returns None on any error,
  `client.py:376`) for a vanished user (`resync.py:64-73`), marks a paying user
  DISABLED, and the backstop switches the user off.
* A refunded subscription that is paid again stays disabled on the panel; a late
  webhook re-activates a row after a refund; a refund that overlaps a renewal
  leaves the row DISABLED; a renewal during the grace sweep is overwritten by it;
  pushed limits undo a grace; an error of `end_grace` still commits EXPIRED; the
  grace PATCH comes back as `expire_at` through the webhook.
* Panel client: a lost `/metadata` answer pins 2.x on a 3.x panel until the next
  `get_version`, while the docstring says the mode stays unknown; "persisted by
  the webhook backfill / resync paths" (`client.py:329`) is true of the first
  only; a create whose answer is lost leaves an orphan panel user.
* Importers: a second run of solobot refills a spent balance and duplicates
  subscriptions without uuid (its docstring says otherwise); jolymmiels
  duplicates after an outage and may overwrite the user's own first
  subscription; minishop, solobot and jolymmiels do not stamp
  `receipt_created_at` though `dao/transaction.py:63-71` says importers do; every
  run overwrites `expire_at`; remnashop restores a spent discount; four re-open a
  used trial; a paid renewal of the plan-less row breaks `uq_active_sub` because
  `plan_rebuild.py` links the first live member; two overlapping runs may
  duplicate a row, as `remnawave_uuid` is not unique.

Accounts and sign-in

* Two polls may use one Telegram login code (`cabinet_auth.py`, "single use"); a
  logout that loses to a refresh leaves the child session alive.
* Two identities unlinked at once leave an account without a way in
  (`cabinet_link.py`, "never drop the last way into the account"); a wrong guess
  writes a link code back over a newer or spent one; a guest's account gets no
  verification mail, and without the policy has a password nobody knows.
* Two campaign links at once overwrite `campaign_id` though it is "first touch
  only"; a newcomer whose account the mini-app created, or whose first /start
  met maintenance, the rate limit or a crash, never gets the inviter; a crash
  between the commit of the account and the publish of `UserRegistered`
  (`middlewares.py:117-121`) loses the event.

Messages and operations

* Notices: a win-back overwrites a larger promo discount redeemed meanwhile,
  though `tasks.py:1343` says "don't clobber"; who renewed after the collection
  still gets the offer; a holiday run that dies after claiming never reaches
  the rest; the holiday key lives two days, not a year.
* Support: `handle_ticket` suppresses a failed `notify_admins` and still returns
  "escalate" (`ai_support.py:163-168, 184-188`), in its docstring "alerted the
  owner" (147): nobody may have been called. Two first messages open two
  tickets; the AI stores its answer without looking again, over a newer message
  or an escalation; a user's message may overwrite an operator's change of
  status, or lose to it.
* Broadcasts: nothing writes CANCELED; a crash leaves RUNNING and a failed
  enqueue PENDING for ever; progress may exceed 100% as the audience is resolved
  when sending; a double tap makes two broadcasts.
* Watchdog: "a manually enabled maintenance mode is never touched"
  (`tasks.py:911-912`), but 946 reads the flag through the 15 s cache filled at
  916 at the latest, and the marker is set after the commit: a switch the cache
  does not show, or made between the two writes, gets the marker and is lifted.
  A marker lost by expiry or crash strands maintenance; maintenance an admin
  turns off and on again while the marker lives is lifted.
* Menus: a "miniapp" button without a URL is stored by `menu.py:627` and dropped
  by the renderer; `save_screen_buttons` reads through the 15 s cache and may
  overwrite another screen; `admin_toggle` negates a cached value; two
  overlapping saves leave two trees.
* Parameters: two first saves of one parameter collide on the unique key; a save
  equal to the value the row had when read is not written.
* Telemetry: `aclose` cancels a sender whose events are then lost; an event
  merged beyond `MAX_COUNT_PER_EVENT` is dropped though the batch is answered ok;
  an answer lost counts a batch twice; an alert survives a rollback; a new issue
  with the oldest time may be evicted by its own insert.
* Updater: the thirty-day key of a manual notice blocks the automatic install
  although `update.py:61` promises it within six hours; a restart overwrites an
  update request and the reverse; a request written between `head` and `rm` is
  lost; a sidecar busy for 60 s shows as not connected.
* Backups: two jobs of one second share file names; a worker that dies leaves a
  plain dump, or a partial archive that counts as one of those kept; a crash
  after the day's key means no backup that day; `send_topic_report` returns True
  although `notify_admins` swallows errors.
* Receipts: the status of a sale is not checked again under the lock.


## Not modelled

* **Admin cabinet API**: listings, statistics and single-statement edits of users,
  plans and settings; the edits that move money or dates are jobs of `Wallet`
  and `Lifecycle`. The user desk (`web/routes/admin/users.py`) has read-then-write
  edits of its own: an unlocked device limit, a deletion or a second grant
  racing a grant, which leave an orphan on the panel.
* **Screens, texts, locales, the mini-app's and landing pages, analytics,
  mail, postbacks**: wording, layout and I/O.
* **Migrations and the tables of `config_registry.py`**: data, not behaviour.
* Per module, what its own section names as left out.


## Plan

1. A `UserDesk` module for `admin/users.py`, against `Lifecycle`'s panel.
2. `Settlement` as the payment component of the wallet and of the till.
