------------------------------ MODULE Notices -------------------------------
(***************************************************************************)
(* The messages the worker sends by itself: expiry reminders, win-back     *)
(* offers with a one-shot discount and holiday wishes (tasks.py, every     *)
(* five minutes).  Runs collect whom to write to and then send one by one; *)
(* runs may overlap and die, and people buy meanwhile.  Redis keys keep a  *)
(* notice from being sent twice.                                           *)
(*                                                                         *)
(* A tick is the five minutes between two runs; days are a few ticks long. *)
(***************************************************************************)
EXTENDS Integers, FiniteSets

CONSTANTS
    Readers,          \* users with a Telegram account
    FirstEnd,         \* when each one's subscription ends
    Steps,            \* ReminderStep.hours_before, in ticks
    Lookback,         \* the 15 minutes send_expiry_reminders looks back
    DayLength, SendAt,\* ticks of a day; the tick of send_time
    WinbackPct, PromoPct,
    NoticeRuns,
    LongestRun,       \* a run takes fewer ticks than that
    LastTick, MaxRuns, MaxOrders, MaxRunDeaths

ASSUME NoticesAssumption ==
    /\ Steps \subseteq Nat /\ Lookback \in Nat \ {0} /\ DayLength \in Nat \ {0}
    /\ LongestRun \in 1 .. DayLength /\ Lookback <= 6 * DayLength
    /\ FirstEnd \in [Readers -> Nat]

VARIABLES
    tick,
    reader,           \* each user's subscription, its first whole tick, one-shot discount
    keys,             \* Redis: notices claimed, and until when the key lives
    noticeRun,        \* each run: where it is, what to claim and what to send now
    told, toldTwice,  \* notices sent to their chat
    collected,        \* notices some run meant to send
    lookedAt,         \* ticks in which reminders were collected
    offers,           \* discounts each user was offered since the last purchase
    ordersLeft, runsLeft, deathsLeft

noticeVars == <<tick, reader, keys, noticeRun, told, toldTwice, collected, lookedAt,
                offers, ordersLeft, runsLeft, deathsLeft>>

Larger(m, n) == IF m > n THEN m ELSE n
FirstOf(notices) == CHOOSE n \in notices : TRUE                 \* rows come in some order
DayOf(t) == t \div DayLength
Asleep == [since |-> 0, at |-> "asleep", todo |-> {}, now |-> {}, seen |-> 0]

NoticesInit ==
    /\ tick = 0
    /\ reader = [p \in Readers |-> [ends |-> FirstEnd[p], live |-> TRUE, discount |-> 0, from |-> 0]]
    /\ keys = {} /\ noticeRun = [r \in NoticeRuns |-> Asleep]
    /\ told = {} /\ toldTwice = {} /\ collected = {} /\ lookedAt = {}
    /\ offers = [p \in Readers |-> {}]
    /\ ordersLeft = MaxOrders /\ runsLeft = MaxRuns /\ deathsLeft = MaxRunDeaths

-----------------------------------------------------------------------------
(* Whom each kind of run writes to. *)
TouchingOnly(p, h) == reader[p].ends = tick + h                 \* mutant
InStepWindow(p, h) ==
    /\ reader[p].ends > tick + h - Lookback
    /\ reader[p].ends <= tick + h
Reminders ==
    {[kind |-> "reminder", who |-> s[1], what |-> <<s[2], reader[s[1]].ends>>] :
        s \in {x \in Readers \X Steps :
            (x[2] = 0 \/ reader[x[1]].live) /\ InStepWindow(x[1], x[2])}}

TimeMatches == tick % DayLength = SendAt
Winbacks ==
    {[kind |-> "winback", who |-> p, what |-> <<DayOf(tick)>>] :
        p \in {q \in Readers : ~reader[q].live /\ DayOf(reader[q].ends) = DayOf(tick) - 1}}

Wishes == {[kind |-> "holiday", who |-> p, what |-> <<DayOf(tick)>>] : p \in Readers}

Audience(kind) ==
    CASE kind = "reminder" -> Reminders
      [] kind = "winback"  -> IF TimeMatches THEN Winbacks ELSE {}
      [] kind = "holiday"  -> IF TimeMatches /\ DayOf(tick) = 1 THEN Wishes ELSE {}

Collect(r) ==
    /\ noticeRun[r] = Asleep /\ runsLeft > 0
    /\ \E kind \in {"reminder", "winback", "holiday"} :
         /\ kind # "reminder" => Audience(kind) # {}
         /\ lookedAt' = IF kind = "reminder" THEN lookedAt \cup {tick} ELSE lookedAt
         /\ collected' = collected \cup Audience(kind)
         /\ noticeRun' = IF Audience(kind) = {} THEN noticeRun ELSE
                [noticeRun EXCEPT ![r] = [Asleep EXCEPT !.at = "claiming", !.since = tick,
                                                        !.todo = Audience(kind)]]
    /\ runsLeft' = runsLeft - 1
    /\ UNCHANGED <<tick, reader, keys, told, toldTwice, offers, ordersLeft, deathsLeft>>

-----------------------------------------------------------------------------
(* SET NX EX.  A reminder's key names the step, the user and the end of    *)
(* the subscription; a win-back's the day and the user; the holiday's the  *)
(* year.                                                                   *)
LifeOf(kind) == CASE kind = "reminder" -> 7 * DayLength
                  [] kind = "winback"  -> DayLength
                  [] kind = "holiday"  -> 2 * DayLength
KeyOf(n) == IF n.kind = "holiday" THEN [n EXCEPT !.who = 0] ELSE n
Whatever(n) == TRUE                                             \* mutant
KeyFree(n) == ~\E k \in keys : k.of = KeyOf(n)

Claim(r) ==
    LET v == noticeRun[r] IN
    /\ v.at = "claiming"
    /\ LET n == FirstOf(v.todo)
           whole == n.kind = "holiday"
           rest == IF whole THEN {} ELSE v.todo \ {n}
         IN  IF KeyFree(n)
             THEN /\ keys' = keys \cup {[of |-> KeyOf(n), until |-> tick + LifeOf(n.kind)]}
                  /\ noticeRun' = [noticeRun EXCEPT ![r].todo = rest,
                         ![r].now = IF whole THEN v.todo ELSE {n},
                         ![r].seen = reader[n.who].discount,
                         ![r].at = IF n.kind = "winback" THEN "granting" ELSE "sending"]
             ELSE /\ noticeRun' = [noticeRun EXCEPT ![r] =
                         IF rest = {} THEN Asleep ELSE [v EXCEPT !.todo = rest]]
                  /\ UNCHANGED keys
    /\ UNCHANGED <<tick, reader, told, toldTwice, collected, lookedAt, offers,
                   ordersLeft, runsLeft, deathsLeft>>

(* send_winback_offers raises the one-shot discount: max of what it read,  *)
(* and the unit of work writes nothing when that is what it read.          *)
RaisedAnyway(seen, now) == Larger(seen, WinbackPct)             \* mutant
Raised(seen, now) == IF WinbackPct > seen THEN WinbackPct ELSE now

Grant(r) ==
    LET v == noticeRun[r] IN
    /\ v.at = "granting"
    /\ \E n \in v.now :
         /\ reader' = [reader EXCEPT ![n.who].discount = Raised(v.seen, @)]
         /\ offers' = [offers EXCEPT ![n.who] = @ \cup {WinbackPct}]
    /\ noticeRun' = [noticeRun EXCEPT ![r].at = "sending"]
    /\ UNCHANGED <<tick, keys, told, toldTwice, collected, lookedAt,
                   ordersLeft, runsLeft, deathsLeft>>

-----------------------------------------------------------------------------
(* send_message: whether it arrives or raises, on to the next.             *)
NextOf(v) == IF v.now # {} THEN v
             ELSE IF v.todo # {} THEN [v EXCEPT !.at = "claiming"]
             ELSE Asleep

Send(r) ==
    LET v == noticeRun[r] IN
    /\ v.at = "sending"
    /\ LET n == FirstOf(v.now) IN
         /\ told' = told \cup {n}
         /\ toldTwice' = IF n \in told THEN toldTwice \cup {n} ELSE toldTwice
         /\ noticeRun' = [noticeRun EXCEPT ![r] = NextOf(
                [v EXCEPT !.now = @ \ {n}])]
    /\ UNCHANGED <<tick, reader, keys, collected, lookedAt, offers,
                   ordersLeft, runsLeft, deathsLeft>>

(* The worker is stopped, or a run fails on its database. *)
RunDies(r) ==
    /\ noticeRun[r] # Asleep /\ deathsLeft > 0
    /\ deathsLeft' = deathsLeft - 1
    /\ noticeRun' = [noticeRun EXCEPT ![r] = Asleep]
    /\ UNCHANGED <<tick, reader, keys, told, toldTwice, collected, lookedAt, offers,
                   ordersLeft, runsLeft>>

-----------------------------------------------------------------------------
(* Users buy (SubscriptionService.mark_purchased spends the discount),     *)
(* redeem promo codes, and lapse.                                          *)
Order(p) ==
    /\ ordersLeft > 0 /\ ordersLeft' = ordersLeft - 1
    /\ reader' = [reader EXCEPT ![p] =
           [ends |-> Larger(tick, reader[p].ends) + DayLength, live |-> TRUE, discount |-> 0,
            from |-> tick + 1]]
    /\ offers' = [offers EXCEPT ![p] = {}]
    /\ UNCHANGED <<tick, keys, noticeRun, told, toldTwice, collected, lookedAt,
                   runsLeft, deathsLeft>>

RedeemDiscount(p) ==
    /\ PromoPct \notin offers[p] /\ ordersLeft > 0
    /\ reader' = [reader EXCEPT ![p].discount = PromoPct]
    /\ offers' = [offers EXCEPT ![p] = @ \cup {PromoPct}]
    /\ UNCHANGED <<tick, keys, noticeRun, told, toldTwice, collected, lookedAt,
                   ordersLeft, runsLeft, deathsLeft>>

Lapse(p) ==
    /\ reader[p].live /\ tick >= reader[p].ends
    /\ reader' = [reader EXCEPT ![p].live = FALSE]
    /\ UNCHANGED <<tick, keys, noticeRun, told, toldTwice, collected, lookedAt, offers,
                   ordersLeft, runsLeft, deathsLeft>>

TickOn ==
    /\ tick < LastTick
    /\ \A r \in NoticeRuns : noticeRun[r] # Asleep => tick + 1 - noticeRun[r].since < LongestRun
    /\ tick' = tick + 1
    /\ keys' = {k \in keys : k.until > tick'}
    /\ UNCHANGED <<reader, noticeRun, told, toldTwice, collected, lookedAt, offers,
                   ordersLeft, runsLeft, deathsLeft>>

NoticesNext ==
    \/ \E r \in NoticeRuns :
         \/ Collect(r) \/ Claim(r) \/ Grant(r) \/ Send(r) \/ RunDies(r)
    \/ \E p \in Readers : Order(p) \/ RedeemDiscount(p) \/ Lapse(p)
    \/ TickOn

NoticesSpec == NoticesInit /\ [][NoticesNext]_noticeVars

-----------------------------------------------------------------------------
(* No notice reaches its chat twice, however runs overlap.                 *)
ToldOnce == toldTwice = {}

Looked(d) == \E t \in lookedAt : d <= t /\ t < d + Lookback

(* tasks.py: "a step never misses": whoever is still due for a step when   *)
(* its window has passed was collected, if reminders were collected at     *)
(* least once in the window and it began after the purchase (a step may be *)
(* longer than the plan).                                                  *)
StepNeverMissed ==
    \A p \in Readers, h \in Steps :
        LET due == reader[p].ends - h IN
        (due >= reader[p].from /\ tick >= due + Lookback /\ (h = 0 \/ reader[p].live) /\ Looked(due))
            => \E n \in collected : n.who = p /\ n.what = <<h, reader[p].ends>>

(* A spent discount does not come back: what a user has was offered since  *)
(* the last purchase.                                                      *)
OfferNotRevived ==
    \A p \in Readers : reader[p].discount \in offers[p] \cup {0}

(* A notice comes in time, comes once, and promises what counts.           *)
NoticesHold == ToldOnce /\ StepNeverMissed /\ OfferNotRevived
=============================================================================
