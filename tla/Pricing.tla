------------------------------ MODULE Pricing -------------------------------
(***************************************************************************)
(* What a purchase costs and what a change of plan carries over            *)
(* (pricing.py, and its use by purchase.py and subscription.py).  A quote  *)
(* is frozen in the invoice; whether it is a first purchase, a renewal or  *)
(* a change is decided again when it is fulfilled, and so are the bonus    *)
(* days that the unused rest of the old plan becomes.                      *)
(*                                                                         *)
(* Amounts of worth are in units of 1/Scale of a minor currency unit and   *)
(* time in ticks, TicksPerDay to a day.                                    *)
(***************************************************************************)
EXTENDS Integers, FiniteSets

CONSTANTS
    Tariffs,
    PriceOf,        \* PriceOf[p][d]: list price of d days
    Quotes,         \* invoices
    TrialDays,
    Scale,
    NoTariff,
    MaxSales,       \* bound: invoices written
    MaxGifts        \* bound: days given away

TicksPerDay == 2

Listed(p) == DOMAIN PriceOf[p]

ASSUME PricingAssumption ==
    /\ NoTariff \notin Tariffs /\ TrialDays \in Nat /\ Scale \in Nat
    /\ \A p \in Tariffs : IsFiniteSet(Listed(p))
    /\ \A p \in Tariffs : \A d \in Listed(p) :
         PriceOf[p][d] \in Nat /\ d \in Nat \ {0} /\ Scale % (2 * TicksPerDay * d) = 0

VARIABLES
    held,           \* the subscription's plan
    trialing,       \* is_trial
    ticks,          \* what is left of it
    quotes,         \* the open invoices
    worthLeft,      \* list worth of what was bought and given away, with what
                    \* rounding may have added, less the time used up
    sales, giftsLeft

priceVars == <<held, trialing, ticks, quotes, worthLeft, sales, giftsLeft>>

NoQuote == [plan |-> NoTariff, days |-> 0, bonus |-> 0]

PricingInit ==
    /\ held = NoTariff /\ trialing = FALSE /\ ticks = 0
    /\ quotes = [o \in Quotes |-> NoQuote]
    /\ worthLeft = 0
    /\ sales = MaxSales /\ giftsLeft = MaxGifts

-----------------------------------------------------------------------------
(* Python's round: half to even. *)
RoundHalfEven(n, m) ==
    LET q == n \div m
        r == 2 * (n % m)
    IN  IF r < m \/ (r = m /\ q % 2 = 0) THEN q ELSE q + 1

(* The period that is cheapest per day; its rate is PriceOf[p][d] / d. *)
Cheapest(p) == CHOOSE d \in Listed(p) :
                 \A e \in Listed(p) : PriceOf[p][d] * e <= PriceOf[p][e] * d

Rated(p) == \E d \in Listed(p) : PriceOf[p][Cheapest(p)] > 0

(* Worth of n ticks of a plan at its cheapest rate. *)
WorthOf(p, n) ==
    IF p = NoTariff \/ ~Rated(p) THEN 0
    ELSE n * PriceOf[p][Cheapest(p)] * (Scale \div (TicksPerDay * Cheapest(p)))

(* The rest of a paid plan in days of d days of q; a rest of unknown rate   *)
(* is kept as it is.                                                        *)
ChangeBonus(p, n, q, d) ==
    IF n = 0 THEN 0
    ELSE IF ~Rated(p) \/ PriceOf[q][d] = 0 THEN RoundHalfEven(n, TicksPerDay)
    ELSE LET c == Cheapest(p)
         IN  RoundHalfEven(n * PriceOf[p][c] * d, TicksPerDay * c * PriceOf[q][d])

(* change_bonus_days: what a quote tells, a fulfilment computes anew. *)
Prorated(q, d) ==
    IF trialing \/ held = NoTariff THEN 0 ELSE ChangeBonus(held, ticks, q, d)

CeilDays(n) == (n + TicksPerDay - 1) \div TicksPerDay

BonusAsQuoted(o) == quotes[o].bonus                             \* mutant
BonusNow(o) ==
    Prorated(quotes[o].plan, quotes[o].days) + (IF trialing THEN CeilDays(ticks) ELSE 0)

-----------------------------------------------------------------------------
(* quote, frozen in a transaction; discounts lower what is paid for it, not *)
(* its list worth.                                                          *)
Quote(o, p, d) ==
    /\ quotes[o] = NoQuote /\ sales > 0
    /\ d \in Listed(p)
    /\ sales' = sales - 1
    /\ quotes' = [quotes EXCEPT ![o] =
                    [plan |-> p, days |-> d, bonus |-> Prorated(p, d)]]
    /\ UNCHANGED <<held, trialing, ticks, worthLeft, giftsLeft>>

ListWorth(o) == Scale * PriceOf[quotes[o].plan][quotes[o].days]

Fulfilled(o) ==
    /\ quotes[o] # NoQuote
    /\ quotes' = [quotes EXCEPT ![o] = NoQuote]
    /\ UNCHANGED <<sales, giftsLeft>>

GrantNew(o) ==
    /\ Fulfilled(o)
    /\ held = NoTariff
    /\ held' = quotes[o].plan /\ trialing' = FALSE
    /\ ticks' = TicksPerDay * quotes[o].days
    /\ worthLeft' = worthLeft + ListWorth(o)

RenewPlan(o) ==
    /\ Fulfilled(o)
    /\ held = quotes[o].plan
    /\ ticks' = ticks + TicksPerDay * quotes[o].days
    /\ worthLeft' = worthLeft + ListWorth(o)
    /\ UNCHANGED <<held, trialing>>

(* The rest becomes bonus days, a rest without a price keeps its days.     *)
(* Rounding adds half a day at most.                                       *)
ChangePlan(o) ==
    LET p == quotes[o].plan
        bonus == BonusNow(o)
        unpaid == IF trialing \/ ~Rated(held) THEN WorthOf(p, TicksPerDay * bonus) ELSE 0
    IN  /\ Fulfilled(o)
        /\ held \notin {NoTariff, p}
        /\ held' = p /\ trialing' = FALSE
        /\ ticks' = TicksPerDay * (quotes[o].days + bonus)
        /\ worthLeft' = worthLeft + ListWorth(o) + unpaid + WorthOf(p, TicksPerDay) \div 2

(* A trial, of a plan without a price. *)
TakeTrial ==
    /\ held = NoTariff
    /\ \E p \in Tariffs : ~Rated(p) /\ held' = p
    /\ trialing' = TRUE /\ ticks' = TicksPerDay * TrialDays
    /\ UNCHANGED <<quotes, worthLeft, sales, giftsLeft>>

(* Bonus days of a referral or a code, an admin's extension: renew. *)
GiveDay ==
    /\ held # NoTariff /\ giftsLeft > 0
    /\ giftsLeft' = giftsLeft - 1
    /\ ticks' = ticks + TicksPerDay
    /\ worthLeft' = worthLeft + WorthOf(held, TicksPerDay)
    /\ UNCHANGED <<held, trialing, quotes, sales>>

TimePasses ==
    /\ ticks > 0
    /\ ticks' = ticks - 1
    /\ worthLeft' = worthLeft - WorthOf(held, 1)
    /\ UNCHANGED <<held, trialing, quotes, sales, giftsLeft>>

PricingNext ==
    \/ \E o \in Quotes :
         \/ GrantNew(o) \/ RenewPlan(o) \/ ChangePlan(o)
         \/ \E p \in Tariffs : \E d \in Listed(p) : Quote(o, p, d)
    \/ TakeTrial \/ GiveDay \/ TimePasses

PricingSpec == PricingInit /\ [][PricingNext]_priceVars

-----------------------------------------------------------------------------
(* No sequence of purchases, renewals and changes, settled in any order    *)
(* and however late, makes something of nothing: at the cheapest list rate *)
(* of its plan, the time at hand and the time used up are worth no more    *)
(* than the list price of what was bought and what was given away, but for *)
(* half a day that rounding may add to a change (pricing.py: "this never   *)
(* over-credits").                                                         *)
NothingFromNothing == WorthOf(held, ticks) <= worthLeft
=============================================================================
