----------------------------- MODULE Lifecycle -----------------------------
(***************************************************************************)
(* One paid subscription, its row in the bot's database and its user on    *)
(* the Remnawave panel, between the events that move them: renewals paid   *)
(* or given, a calendar date set by an admin, refunds, the device guard,   *)
(* the grace sweep, the nightly resync, the panel-write retry, the         *)
(* backstop sweep, a re-push of the limits, and the panel's own webhooks.  *)
(*                                                                         *)
(* A job loads the row into its session, calls the panel and commits; the  *)
(* ORM's flush writes the columns the job changed and no others.  Nothing  *)
(* keeps two jobs apart, except that a paid renewal holds the user's lock  *)
(* (which no other job here takes).  Time is counted in days; 0 stands for *)
(* a date that is NULL.                                                    *)
(***************************************************************************)
EXTENDS Integers, Sequences, FiniteSets, SequencesExt

CONSTANTS
    Shops,        \* settings a shop may have, and what happens in it
    Period,       \* days in a paid period
    Grace,        \* GRACE_DAYS
    Cooldown,     \* GRACE_COOLDOWN_DAYS
    Lookback,     \* how long after expiry a subscription may enter grace
    MaxTime,      \* bound: the last day
    MaxOrders,    \* bound: renewals paid, given or dated by hand
    MaxCuts,      \* bound: refunds and guard actions
    MaxEvents,    \* bound: panel events in flight, the next one is lost
    MaxFaults,    \* bound: panel calls or commits that fail
    CommitFails   \* whether a commit may fail after the panel was written

AllJobs == {"pay", "extend", "calendar", "refund", "guard",
            "grace", "resync", "retry", "backstop", "push"}

(* The jobs that run (features switched on, admins who act), whether the   *)
(* panel's webhook is configured, and a bound on the jobs open at once.    *)
Settings == [jobs: SUBSET AllJobs, webhook: BOOLEAN, open: Nat]

ASSUME LifecycleAssumption ==
    /\ Shops \subseteq Settings
    /\ {Period, Grace, Cooldown, Lookback, MaxTime} \subseteq Nat \ {0}
    /\ {MaxOrders, MaxCuts, MaxEvents, MaxFaults} \subseteq Nat
    /\ CommitFails \in BOOLEAN

VARIABLES
    shop,      \* the shop's settings, which do not change
    now,       \* the day
    sub,       \* the row: status, expire, grace (until), graced (started at)
    user,      \* the panel user: status, expire, small (the grace traffic cap)
    events,    \* webhooks the panel has sent and the bot has not handled
    session,   \* for each job, where it is and the row as it loaded and set it
    due,       \* paid renewals the pipeline has not fulfilled
    retry,     \* whether panel_write_retry is queued
    ordered, cuts, faults,   \* counters of the bounds
    \* What the customer is owed, kept for the properties.
    entitled,  \* the last day that was paid, given or dated by hand
    graces,    \* grace windows opened on the panel
    cut        \* a refund or the guard cut the subscription, no payment since

lifecycleVars == <<shop, now, sub, user, events, session, due, retry,
                   ordered, cuts, faults, entitled, graces, cut>>

Statuses == {"ACTIVE", "LIMITED", "EXPIRED", "DISABLED"}
Usable == {"ACTIVE", "LIMITED"}
Days == 0..(MaxTime + (MaxOrders + MaxFaults + 1) * Period + Grace)
Rows == [status: Statuses, expire: Days, grace: Days, graced: Days]
Steps == {"idle", "loaded", "fetched", "pushed", "unanswered", "commit"}

FirstRow == [status |-> "ACTIVE", expire |-> 1 + Period, grace |-> 0, graced |-> 0]
Idle == [at |-> "idle", old |-> FirstRow, new |-> FirstRow, on |-> FALSE]
-----------------------------------------------------------------------------
(* The panel.  Every change it makes to a user sends one webhook; it is    *)
(* lost when the bot does not answer, which a full queue stands for.       *)

Open == {j \in shop.jobs : session[j].at # "idle"}

Event(name, u) == [name |-> name, on |-> u.status = "active", expire |-> u.expire]

Becomes(name, u) ==
    /\ user' = u
    /\ events' = IF shop.webhook /\ Len(events) < MaxEvents
                 THEN Append(events, Event(name, u)) ELSE events

(* PATCH of the expiry and the traffic cap.  It revives an expired user,   *)
(* never a disabled one.                                                   *)
Patched(expire, small) ==
    [user EXCEPT !.expire = expire, !.small = small,
                 !.status = IF @ = "expired" /\ expire > now THEN "active" ELSE @]

Enabled(u) == [u EXCEPT !.status = "active"]
Disabled(u) == [u EXCEPT !.status = "disabled"]

PanelExpires ==
    /\ user.status = "active" /\ user.expire <= now
    /\ Becomes("expired", [user EXCEPT !.status = "expired"])
    /\ UNCHANGED <<now, sub, session, due, retry, ordered, cuts, faults, entitled, graces, cut>>

(* A session does not stay open from one day to the next.                  *)
Tick ==
    /\ now < MaxTime
    /\ Open = {}
    /\ ~(user.status = "active" /\ user.expire <= now)
    /\ now' = now + 1
    /\ UNCHANGED <<sub, user, events, session, due, retry, ordered, cuts, faults, entitled, graces, cut>>

(* Mutant: the event's name is stored as it comes.                         *)
MirroredRaw(e) == [sub EXCEPT !.expire = e.expire, !.status = e.name]

(* panel_webhook: mirrors the event's status, or the payload's for an      *)
(* update, and always the payload's expiry.  Webhooks are retried by the   *)
(* panel one by one, so they arrive in any order.                          *)
Mirrored(e) ==
    [sub EXCEPT !.expire = e.expire,
                !.status = CASE e.name = "enabled" -> "ACTIVE"
                             [] e.name = "disabled" -> "DISABLED"
                             [] e.name = "expired" -> "EXPIRED"
                             [] e.name = "modified" -> IF e.on THEN "ACTIVE" ELSE "DISABLED"]

PanelWebhook ==
    /\ \E i \in 1..Len(events) : sub' = Mirrored(events[i]) /\ events' = RemoveAt(events, i)
    /\ UNCHANGED <<now, user, session, due, retry, ordered, cuts, faults, entitled, graces, cut>>
-----------------------------------------------------------------------------
(* Steps common to the jobs.                                               *)

(* The job opens a session, the row is loaded into its identity map.       *)
Load(j) ==
    /\ j \in shop.jobs /\ session[j].at = "idle" /\ Cardinality(Open) < shop.open
    /\ session' = [session EXCEPT ![j] = [at |-> "loaded", old |-> sub, new |-> sub, on |-> FALSE]]

At(j, step) == session[j].at = step
Sets(j, new, next) == session' = [session EXCEPT ![j].new = new, ![j].at = next]
Goes(j, next) == session' = [session EXCEPT ![j].at = next]
Ends(j) == session' = [session EXCEPT ![j] = Idle]

(* The flush of a session: the columns the job changed.                    *)
Flushed(j) == [c \in DOMAIN sub |->
                 IF session[j].new[c] # session[j].old[c] THEN session[j].new[c] ELSE sub[c]]

Fault == faults < MaxFaults /\ faults' = faults + 1

(* A panel call that raises, or a commit that fails: the session is rolled *)
(* back.  What the panel was told stays.                                   *)
RollsBack(j) ==
    /\ Fault
    /\ UNCHANGED sub
    /\ Ends(j)
    /\ UNCHANGED <<now, user, events, due, retry, ordered, cuts, entitled, graces, cut>>
-----------------------------------------------------------------------------
(* SubscriptionService.renew: for a paid order (fulfilled again by the     *)
(* pipeline until it commits), or as a gift of an admin or a promo code.   *)

Order ==
    /\ "pay" \in shop.jobs /\ ordered < MaxOrders
    /\ ordered' = ordered + 1
    /\ due' = due + 1
    /\ UNCHANGED <<now, sub, user, events, session, retry, cuts, faults, entitled, graces, cut>>

RenewLoad(j) ==
    /\ Load(j)
    /\ IF j = "pay" THEN due > 0 /\ UNCHANGED ordered
                    ELSE ordered < MaxOrders /\ ordered' = ordered + 1
    /\ UNCHANGED <<now, sub, user, events, due, retry, cuts, faults, entitled, graces, cut>>

Later(x, y) == IF x > y THEN x ELSE y

Renewed(row) == [row EXCEPT !.expire = Later(@, now) + Period, !.status = "ACTIVE", !.grace = 0]

RenewApply(j) ==
    /\ At(j, "loaded")
    /\ LET new == Renewed(session[j].old)
       IN  Sets(j, new, "commit") /\ Becomes("modified", Patched(new.expire, FALSE))
    /\ UNCHANGED <<now, sub, due, retry, ordered, cuts, faults, entitled, graces, cut>>

RenewCommit(j) ==
    /\ At(j, "commit")
    /\ sub' = Flushed(j)
    /\ entitled' = Later(entitled, now) + Period
    /\ Ends(j)
    /\ due' = IF j = "pay" THEN due - 1 ELSE due
    /\ cut' = (IF j = "pay" THEN FALSE ELSE cut)
    /\ UNCHANGED <<now, user, events, retry, ordered, cuts, faults, graces>>

(* SubscriptionService.set_expiry: an admin's calendar, to any date.       *)
CalendarLoad ==
    /\ Load("calendar") /\ ordered < MaxOrders
    /\ ordered' = ordered + 1
    /\ UNCHANGED <<now, sub, user, events, due, retry, cuts, faults, entitled, graces, cut>>

CalendarApply ==
    /\ At("calendar", "loaded")
    /\ \E date \in {now, now + 1} :
          /\ Sets("calendar",
                  [session["calendar"].old EXCEPT
                      !.expire = date,
                      !.status = IF date > now THEN "ACTIVE" ELSE "EXPIRED",
                      !.grace = IF date > now THEN 0 ELSE @],
                  "commit")
          /\ Becomes("modified", Patched(date, FALSE))
          /\ entitled' = Later(entitled, date)
    /\ UNCHANGED <<now, sub, due, retry, ordered, cuts, faults, graces, cut>>

CalendarCommit ==
    /\ At("calendar", "commit")
    /\ sub' = Flushed("calendar")
    /\ Ends("calendar")
    /\ UNCHANGED <<now, user, events, due, retry, ordered, cuts, faults, entitled, graces, cut>>

(* push_limits: an admin's sync or device limit, a traffic pack.           *)
PushLoad ==
    /\ Load("push")
    /\ UNCHANGED <<now, sub, user, events, due, retry, ordered, cuts, faults, entitled, graces, cut>>

PushApply ==
    /\ At("push", "loaded")
    /\ Becomes("modified", Patched(session["push"].old.expire, FALSE))
    /\ UNCHANGED sub
    /\ Ends("push")
    /\ UNCHANGED <<now, due, retry, ordered, cuts, faults, entitled, graces, cut>>
-----------------------------------------------------------------------------
(* refund_payment with revoke_subscription, and the device guard's         *)
(* "disable".  A refund survives a panel that does not answer; the guard   *)
(* then only alerts.                                                       *)

CutLoad(j) ==
    /\ Load(j) /\ cuts < MaxCuts /\ sub.status \in Usable
    /\ cuts' = cuts + 1
    /\ UNCHANGED <<now, sub, user, events, due, retry, ordered, faults, entitled, graces, cut>>

Revoked(row) == [row EXCEPT !.status = "DISABLED"]

(* Disabling a user who is disabled is refused with 400, which the refund  *)
(* takes for an outage.                                                    *)
CutDisable(j) ==
    /\ At(j, "loaded") /\ user.status # "disabled"
    /\ Becomes("disabled", Disabled(user))
    /\ Sets(j, Revoked(session[j].old), "commit")
    /\ UNCHANGED <<now, sub, due, retry, ordered, cuts, faults, entitled, graces, cut>>

CutUnanswered(j) ==
    /\ At(j, "loaded")
    /\ IF user.status = "disabled" THEN UNCHANGED faults ELSE Fault
    /\ IF j = "refund" THEN Sets(j, Revoked(session[j].old), "unanswered") ELSE Ends(j)
    /\ UNCHANGED <<now, sub, user, events, due, retry, ordered, cuts, entitled, graces, cut>>

CutCommit(j) ==
    /\ session[j].at \in {"commit", "unanswered"}
    /\ sub' = Flushed(j)
    /\ cut' = TRUE
    /\ retry' = (retry \/ session[j].at = "unanswered")
    /\ Ends(j)
    /\ UNCHANGED <<now, user, events, due, ordered, cuts, faults, entitled, graces>>

(* panel_write_retry: reads the status in one transaction, writes the      *)
(* panel after it.  max_retries is not counted: a run that fails may give  *)
(* up at once or be queued again, as long as faults last.                  *)
RetryLoad ==
    /\ retry /\ Load("retry")
    /\ retry' = FALSE
    /\ UNCHANGED <<now, sub, user, events, due, ordered, cuts, faults, entitled, graces, cut>>

RetryWrite ==
    /\ At("retry", "loaded")
    /\ IF session["retry"].old.status \in Usable
       THEN IF user.status = "active" THEN UNCHANGED <<user, events>>
                                      ELSE Becomes("enabled", Enabled(user))
       ELSE IF user.status = "disabled" THEN UNCHANGED <<user, events>>
                                        ELSE Becomes("disabled", Disabled(user))
    /\ UNCHANGED sub
    /\ Ends("retry")
    /\ UNCHANGED <<now, due, retry, ordered, cuts, faults, entitled, graces, cut>>

RetryFails ==
    /\ At("retry", "loaded")
    /\ Fault
    /\ UNCHANGED sub
    /\ Ends("retry")
    /\ retry' \in BOOLEAN
    /\ UNCHANGED <<now, user, events, due, ordered, cuts, entitled, graces, cut>>

(* Mutant: the sweep lists the usable rows, as the resync does.             *)
BackstopLoadUsable ==
    /\ Load("backstop") /\ sub.status \in Usable
    /\ UNCHANGED <<now, sub, user, events, due, retry, ordered, cuts, faults, entitled, graces, cut>>

(* reconcile_disabled: the page of DISABLED rows, then the panel user of   *)
(* each, disabled if it is enabled.                                        *)
BackstopLoad ==
    /\ Load("backstop") /\ sub.status = "DISABLED"
    /\ UNCHANGED <<now, sub, user, events, due, retry, ordered, cuts, faults, entitled, graces, cut>>

BackstopFetch ==
    /\ At("backstop", "loaded")
    /\ session' = [session EXCEPT !["backstop"].on = user.status = "active",
                                  !["backstop"].at = "fetched"]
    /\ UNCHANGED <<now, sub, user, events, due, retry, ordered, cuts, faults, entitled, graces, cut>>

BackstopDisable ==
    /\ At("backstop", "fetched")
    /\ IF session["backstop"].on /\ user.status # "disabled"
       THEN Becomes("disabled", Disabled(user))
       ELSE UNCHANGED <<user, events>>
    /\ UNCHANGED sub
    /\ Ends("backstop")
    /\ UNCHANGED <<now, due, retry, ordered, cuts, faults, entitled, graces, cut>>
-----------------------------------------------------------------------------
(* apply_grace: enter_grace writes the panel in three calls and then the   *)
(* row, end_grace changes the row and then calls the panel.                *)

(* Mutants: no look-back, no cooldown.                                     *)
GraceEntryOfAnyAge(row) ==
    /\ row.status \in {"ACTIVE", "LIMITED", "EXPIRED"} /\ row.grace = 0 /\ row.expire <= now
    /\ row.graced = 0 \/ row.graced <= now - Cooldown

GraceEntryUncooled(row) ==
    /\ row.status \in {"ACTIVE", "LIMITED", "EXPIRED"} /\ row.grace = 0
    /\ now - Lookback < row.expire /\ row.expire <= now

GraceEntry(row) ==
    /\ row.status \in {"ACTIVE", "LIMITED", "EXPIRED"}
    /\ row.grace = 0
    /\ now - Lookback < row.expire /\ row.expire <= now
    /\ row.graced = 0 \/ row.graced <= now - Cooldown

GraceOver(row) == row.grace # 0 /\ row.grace <= now

GraceLoad ==
    /\ Load("grace") /\ (GraceEntry(sub) \/ GraceOver(sub))
    /\ UNCHANGED <<now, sub, user, events, due, retry, ordered, cuts, faults, entitled, graces, cut>>

GraceApply ==
    /\ At("grace", "loaded") /\ session["grace"].old.grace = 0
    /\ Becomes("modified", Patched(now + Grace, TRUE))
    /\ graces' = graces + 1
    /\ Sets("grace",
            [session["grace"].old EXCEPT !.status = "LIMITED", !.grace = now + Grace, !.graced = now],
            "pushed")
    /\ UNCHANGED <<now, sub, due, retry, ordered, cuts, faults, entitled, cut>>

(* reset_traffic, then enable, which takes "already enabled" for success.  *)
GraceEnable ==
    /\ At("grace", "pushed")
    /\ IF user.status = "active" THEN UNCHANGED <<user, events>>
                                 ELSE Becomes("enabled", Enabled(user))
    /\ Goes("grace", "commit")
    /\ UNCHANGED <<now, sub, due, retry, ordered, cuts, faults, entitled, graces, cut>>

GraceEnd ==
    /\ At("grace", "loaded") /\ session["grace"].old.grace # 0
    /\ IF user.status = "disabled" THEN UNCHANGED <<user, events>>
                                   ELSE Becomes("disabled", Disabled(user))
    /\ Sets("grace", [session["grace"].old EXCEPT !.status = "EXPIRED", !.grace = 0], "commit")
    /\ UNCHANGED <<now, sub, due, retry, ordered, cuts, faults, entitled, graces, cut>>

(* The sweep goes on after an error of end_grace, whose row it had already *)
(* changed: the commit at its end saves it.                                *)
GraceEndUnanswered ==
    /\ At("grace", "loaded") /\ session["grace"].old.grace # 0
    /\ Fault
    /\ Sets("grace", [session["grace"].old EXCEPT !.status = "EXPIRED", !.grace = 0], "commit")
    /\ UNCHANGED <<now, sub, user, events, due, retry, ordered, cuts, entitled, graces, cut>>

GraceCommit ==
    /\ At("grace", "commit")
    /\ sub' = Flushed("grace")
    /\ Ends("grace")
    /\ UNCHANGED <<now, user, events, due, retry, ordered, cuts, faults, entitled, graces, cut>>
-----------------------------------------------------------------------------
(* resync: the page of usable rows, then for each the panel user, and the  *)
(* paid spec pushed again when the panel disagrees.                        *)

ResyncLoad ==
    /\ Load("resync") /\ sub.status \in Usable /\ sub.grace = 0
    /\ UNCHANGED <<now, sub, user, events, due, retry, ordered, cuts, faults, entitled, graces, cut>>

Apart(x, y) == x - y > 1 \/ y - x > 1

ResyncFetch ==
    /\ At("resync", "loaded")
    /\ LET enable == user.status # "active"
           drift == Apart(user.expire, session["resync"].old.expire)
       IN  IF enable \/ drift
           THEN session' = [session EXCEPT !["resync"].on = enable, !["resync"].at = "fetched"]
           ELSE Ends("resync")
    /\ UNCHANGED sub
    /\ UNCHANGED <<now, user, events, due, retry, ordered, cuts, faults, entitled, graces, cut>>

(* Mutant: the spec is pushed and the user is left disabled.               *)
ResyncPushOnly ==
    /\ At("resync", "fetched")
    /\ Becomes("modified", Patched(session["resync"].old.expire, FALSE))
    /\ UNCHANGED sub
    /\ Ends("resync")
    /\ UNCHANGED <<now, due, retry, ordered, cuts, faults, entitled, graces, cut>>

ResyncPush ==
    /\ At("resync", "fetched")
    /\ Becomes("modified", Patched(session["resync"].old.expire, FALSE))
    /\ UNCHANGED sub
    /\ IF session["resync"].on THEN Goes("resync", "pushed") ELSE Ends("resync")
    /\ UNCHANGED <<now, due, retry, ordered, cuts, faults, entitled, graces, cut>>

ResyncEnable ==
    /\ At("resync", "pushed")
    /\ IF user.status = "active" THEN UNCHANGED <<user, events>>
                                 ELSE Becomes("enabled", Enabled(user))
    /\ UNCHANGED sub
    /\ Ends("resync")
    /\ UNCHANGED <<now, due, retry, ordered, cuts, faults, entitled, graces, cut>>
-----------------------------------------------------------------------------
(* get_user answers None to an error of any kind, an outage as well as an  *)
(* unknown user: the subscription has "vanished" from the panel.           *)
ResyncUnanswered ==
    /\ At("resync", "loaded")
    /\ Fault
    /\ Sets("resync", Revoked(session["resync"].old), "commit")
    /\ UNCHANGED <<now, sub, user, events, due, retry, ordered, cuts, entitled, graces, cut>>

ResyncCommit ==
    /\ At("resync", "commit")
    /\ sub' = Flushed("resync")
    /\ Ends("resync")
    /\ UNCHANGED <<now, user, events, due, retry, ordered, cuts, faults, entitled, graces, cut>>
-----------------------------------------------------------------------------
(* Any other panel call may raise; a commit may fail where CommitFails.    *)
JobFails(j) ==
    /\ \/ session[j].at \in {"loaded", "fetched", "pushed"}
          /\ j \notin {"refund", "guard", "retry"}
          /\ ~(j = "grace" /\ session[j].at = "loaded" /\ session[j].old.grace # 0)
          /\ ~(j = "resync" /\ session[j].at = "loaded")
       \/ session[j].at = "commit" /\ CommitFails
    /\ RollsBack(j)

RenewStep == \E j \in {"pay", "extend"} : RenewLoad(j) \/ RenewApply(j) \/ RenewCommit(j)
CutStep == \E j \in {"refund", "guard"} : CutLoad(j) \/ CutDisable(j) \/ CutUnanswered(j) \/ CutCommit(j)

LifecycleInit ==
    /\ shop \in Shops
    /\ now = 1
    /\ sub = FirstRow
    /\ user = [status |-> "active", expire |-> 1 + Period, small |-> FALSE]
    /\ events = << >>
    /\ session = [j \in AllJobs |-> Idle]
    /\ due = 0 /\ retry = FALSE
    /\ ordered = 0 /\ cuts = 0 /\ faults = 0
    /\ entitled = 1 + Period /\ graces = 0 /\ cut = FALSE

LifecycleNext ==
    /\ UNCHANGED shop
    /\ \/ Tick \/ PanelExpires \/ PanelWebhook \/ Order
       \/ RenewStep \/ CutStep
       \/ CalendarLoad \/ CalendarApply \/ CalendarCommit
       \/ PushLoad \/ PushApply
       \/ RetryLoad \/ RetryWrite \/ RetryFails
       \/ BackstopLoad \/ BackstopFetch \/ BackstopDisable
       \/ GraceLoad \/ GraceApply \/ GraceEnable
       \/ GraceEnd \/ GraceEndUnanswered \/ GraceCommit
       \/ ResyncLoad \/ ResyncFetch \/ ResyncPush \/ ResyncEnable
       \/ ResyncUnanswered \/ ResyncCommit
       \/ \E j \in AllJobs : JobFails(j)

LifecycleSpec == LifecycleInit /\ [][LifecycleNext]_lifecycleVars

(* Days pass, the panel's clock runs, the cron jobs start again and again,  *)
(* and a job that has started goes on.  Orders, refunds, an admin's acts   *)
(* and webhooks are not owed.                                              *)
Runs(j) ==
    CASE j \in {"pay", "extend"} -> RenewApply(j) \/ RenewCommit(j)
      [] j = "calendar" -> CalendarApply \/ CalendarCommit
      [] j \in {"refund", "guard"} -> CutDisable(j) \/ CutUnanswered(j) \/ CutCommit(j)
      [] j = "grace" -> GraceLoad \/ GraceApply \/ GraceEnable \/ GraceEnd \/ GraceCommit
      [] j = "resync" -> ResyncLoad \/ ResyncFetch \/ ResyncPush \/ ResyncEnable \/ ResyncCommit
      [] j = "retry" -> RetryLoad \/ RetryWrite
      [] j = "backstop" -> BackstopLoad \/ BackstopFetch \/ BackstopDisable
      [] j = "push" -> PushApply

Cron == {"resync", "backstop"}

LifecycleFairness ==
    /\ SF_lifecycleVars(UNCHANGED shop /\ Tick)
    /\ WF_lifecycleVars(UNCHANGED shop /\ PanelExpires)
    /\ WF_lifecycleVars(UNCHANGED shop /\ RenewLoad("pay"))
    /\ \A j \in AllJobs \ Cron : WF_lifecycleVars(UNCHANGED shop /\ Runs(j))
    /\ \A j \in Cron : SF_lifecycleVars(UNCHANGED shop /\ Runs(j))
-----------------------------------------------------------------------------
(* Types of the row, the panel user, the sessions and the counters.         *)
LifecycleTypeOK ==
    /\ shop \in Settings
    /\ now \in 1..MaxTime
    /\ sub \in Rows
    /\ user \in [status: {"active", "disabled", "expired"}, expire: Days, small: BOOLEAN]
    /\ Len(events) <= MaxEvents
    /\ session \in [AllJobs -> [at: Steps, old: Rows, new: Rows, on: BOOLEAN]]
    /\ due \in 0..MaxOrders /\ retry \in BOOLEAN
    /\ ordered \in 0..MaxOrders /\ cuts \in 0..MaxCuts /\ faults \in 0..MaxFaults
    /\ entitled \in Days /\ graces \in Nat /\ cut \in BOOLEAN

(* Neither date is past what was paid, given or dated by hand, but for the *)
(* grace windows: renewals, webhooks that mirror the panel's date into the *)
(* row, the resync that pushes the row's date to the panel and the grace   *)
(* sweep feed each other's reads, and none of the loops makes days.        *)
NoFreeTime ==
    Open = {} /\ due = 0 =>
        \A date \in {sub.expire, user.expire} : date <= entitled + (Lookback - 1 + Grace) * graces

(* apply_grace: "a cooldown stops grace being farmed on every expiry",      *)
(* whatever renewals, webhooks and failed panel calls come in between.     *)
GraceOncePerCooldown ==
    [][sub'.graced # sub.graced =>
         sub.graced = 0 \/ sub'.graced - sub.graced >= Cooldown]_lifecycleVars

(* The durable backstop of a revoked subscription: through outages, lost    *)
(* retries and a resync that read the row before, the panel user is        *)
(* switched off in the end and stays off until a payment.  For a shop      *)
(* without the panel's webhook and without grace, both of which may write  *)
(* a status from before the revocation over it.                            *)
RefundSticks ==
    (~shop.webhook /\ "backstop" \in shop.jobs /\ "grace" \notin shop.jobs)
        => <>[](cut => user.status # "active")

(* A paid renewal is served in the end, the nightly resync enabling what    *)
(* renew does not: in a shop without the webhook whose jobs do not overlap, *)
(* unless the resync took an outage of the panel for a vanished user and   *)
(* switched the row off.                                                   *)
PaidIsServed ==
    (~shop.webhook /\ shop.open = 1 /\ "resync" \in shop.jobs)
        => <>[](~cut /\ now < entitled /\ sub.status # "DISABLED"
                  => user.status = "active" /\ user.expire >= entitled)
=============================================================================
