---------------------------- MODULE WalletProofs ----------------------------
(***************************************************************************)
(* Machine-checked proofs about Wallet, for any users, payments, rates and *)
(* concurrent sessions.  The argument: what a session read under a row     *)
(* lock only changes when the lock's owner commits, so it still holds at   *)
(* the commit; a guarded debit's balance is covered for as long as the     *)
(* session holds the wallet; and a commit makes one entry, so that the     *)
(* balance follows the sums of the rows.                                   *)
(***************************************************************************)
EXTENDS Wallet, Sums, TLAPS

(* What each kind of unit of work knows about the row it has locked. *)
SettleKnows(s) ==
    /\ job[s].on \in Payments
    /\ rowLock[job[s].on] = s
    /\ payment[job[s].on] = "PENDING"
    /\ job[s].user = Payer[job[s].on]
    /\ job[s].amt \in Nat

SpendKnows(s) ==
    /\ job[s].on \in Purchases
    /\ job[s].amt \in Nat

AskKnows(s) ==
    /\ job[s].on \in Requests
    /\ rowLock[job[s].on] = s
    /\ request[job[s].on] = NoRequest
    /\ job[s].amt \in Nat

ProcessKnows(s) ==
    /\ job[s].on \in Requests
    /\ rowLock[job[s].on] = s
    /\ request[job[s].on].st = "PENDING"
    /\ job[s].amt \in Nat

UndepositKnows(s) ==
    /\ job[s].on \in Payments
    /\ rowLock[job[s].on] = s
    /\ payment[job[s].on] = "COMPLETED"
    /\ job[s].amt \in Nat

Knows(s) ==
    /\ job[s] \in Jobs
    /\ job[s].op = "settle" => SettleKnows(s)
    /\ job[s].op \in {"spend", "unspend"} => SpendKnows(s)
    /\ job[s].op = "ask" => AskKnows(s)
    /\ job[s].op \in {"pay", "reject"} => ProcessKnows(s)
    /\ job[s].op = "undeposit" => UndepositKnows(s)

(* A session past its wallet lock owns it; a guarded debit is covered. *)
Owns(s) == wallet[job[s].user] = s
Covered(s) ==
    IF job[s].op = "undeposit" /\ job[s].amt = 0
    THEN TRUE
    ELSE Owns(s) /\ (job[s].op \in Guarded => balance[job[s].user] >= job[s].amt)

Rewarding(s) ==
    /\ job[s].op = "settle"
    /\ Commission(job[s].on) > 0
    /\ Owns(s)
    /\ Referrer[job[s].user] \in Users
    /\ wallet[Referrer[job[s].user]] = s

SessionInv(s) ==
    /\ pc[s] # "idle" => Knows(s)
    /\ pc[s] = "held" => Covered(s)
    /\ pc[s] = "rewarded" => Rewarding(s)

IInv ==
    /\ TypeOK
    /\ RewardWithinPayment
    /\ NeverOverdrawn
    /\ \A s \in Sessions : SessionInv(s)

-----------------------------------------------------------------------------
(* Money arithmetic *)

(* Rounding half to even never leaves the interval of what it rounds. *)
LEMMA RoundingBounded ==
  ASSUME NEW n \in Nat, NEW m \in Nat, n <= m * 100
  PROVE  RoundedCents(n) \in 0 .. m
<1> DEFINE q == n \div 100
           r == n % 100
<1>1. q \in Nat /\ r \in 0 .. 99 /\ n = 100 * q + r
  BY Z3
<1> HIDE DEF q, r
<1>2. q <= m /\ (r > 0 => q + 1 <= m)
  BY <1>1, Z3
<1>3. RoundedCents(n) = IF r > 50 \/ (r = 50 /\ q % 2 = 1) THEN q + 1 ELSE q
  BY DEF RoundedCents, q, r
<1>4. QED BY <1>1, <1>2, <1>3

LEMMA PercentInRange ==
  ASSUME NEW u \in Users PROVE Percent(u) \in 0 .. 100
  BY PeopleAssumption DEF Percent, Lesser, Greater

(* Whatever rate an owner configured, a referrer's commission is between   *)
(* nothing and the whole payment (the clamp and the rounding of referral). *)
THEOREM CommissionBounded ==
  ASSUME NEW d \in Payments PROVE Commission(d) \in 0 .. Sum[d]
<1>1. Sum[d] \in Nat /\ Payer[d] \in Users
  BY MoneyAssumption
<1>2. CASE Referrer[Payer[d]] = Nobody
  BY <1>1, <1>2 DEF Commission
<1>3. CASE Referrer[Payer[d]] # Nobody
  <2> DEFINE pct == Percent(Referrer[Payer[d]])
  <2>1. Referrer[Payer[d]] \in Users
    BY <1>1, <1>3, PeopleAssumption
  <2>2. pct \in 0 .. 100
    BY <2>1, PercentInRange
  <2> HIDE DEF pct
  <2>3. Sum[d] * pct \in Nat /\ Sum[d] * pct <= Sum[d] * 100
    BY <1>1, <2>2, Z3
  <2>4. RoundedCents(Sum[d] * pct) \in 0 .. Sum[d]
    BY <1>1, <2>3, RoundingBounded
  <2>5. QED BY <1>3, <2>4 DEF Commission, pct
<1>4. QED BY <1>2, <1>3
-----------------------------------------------------------------------------
(* A step of session s leaves alone whatever another session has locked. *)
Foreign(o, s) == o # Nobody /\ o # s
Frame(s) ==
    /\ \A t \in Sessions : t # s => pc'[t] = pc[t] /\ job'[t] = job[t]
    /\ \A x \in Rows : Foreign(rowLock[x], s) => rowLock'[x] = rowLock[x]
    /\ \A u \in Users : Foreign(wallet[u], s) => wallet'[u] = wallet[u]
                                                /\ balance'[u] = balance[u]
    /\ \A d \in Payments : Foreign(rowLock[d], s) => payment'[d] = payment[d]
    /\ \A r \in Requests : Foreign(rowLock[r], s) => request'[r] = request[r]

LEMMA OthersKeep ==
  ASSUME NEW s \in Sessions, NEW t \in Sessions, t # s,
         Frame(s), SessionInv(t)
  PROVE  SessionInv(t)'
<1>0. t # Nobody
  BY PeopleAssumption
<1>1. pc'[t] = pc[t] /\ job'[t] = job[t]
  BY DEF Frame
<1>2. ASSUME pc[t] # "idle" PROVE Knows(t)'
  <2>1. Knows(t)
    BY <1>2 DEF SessionInv
  <2>2. ASSUME SettleKnows(t) PROVE SettleKnows(t)'
    BY <1>0, <1>1, <2>2 DEF SettleKnows, Frame, Foreign, Rows
  <2>3. ASSUME SpendKnows(t) PROVE SpendKnows(t)'
    BY <1>1, <2>3 DEF SpendKnows
  <2>4. ASSUME AskKnows(t) PROVE AskKnows(t)'
    BY <1>0, <1>1, <2>4 DEF AskKnows, Frame, Foreign, Rows
  <2>5. ASSUME ProcessKnows(t) PROVE ProcessKnows(t)'
    BY <1>0, <1>1, <2>5 DEF ProcessKnows, Frame, Foreign, Rows
  <2>6. ASSUME UndepositKnows(t) PROVE UndepositKnows(t)'
    BY <1>0, <1>1, <2>6 DEF UndepositKnows, Frame, Foreign, Rows
  <2>7. QED BY <1>1, <2>1, <2>2, <2>3, <2>4, <2>5, <2>6 DEF Knows
<1>3. ASSUME pc[t] = "held" PROVE Covered(t)'
  <2>1. Covered(t) /\ Knows(t)
    BY <1>3 DEF SessionInv
  <2>2. job[t].user \in Users
    BY <2>1 DEF Knows, Jobs
  <2>3. QED BY <1>0, <1>1, <2>1, <2>2 DEF Covered, Owns, Frame, Foreign
<1>4. ASSUME pc[t] = "rewarded" PROVE Rewarding(t)'
  <2>1. Rewarding(t) /\ Knows(t)
    BY <1>4 DEF SessionInv
  <2>2. job[t].user \in Users
    BY <2>1 DEF Knows, Jobs
  <2>3. QED BY <1>0, <1>1, <2>1, <2>2 DEF Rewarding, Commission, Percent, Owns, Frame, Foreign
<1>5. QED BY <1>1, <1>2, <1>3, <1>4 DEF SessionInv

(* One step of session s: what is to show besides the frame. *)
LEMMA StepKeeps ==
  ASSUME IInv, NEW s \in Sessions, Frame(s), TypeOK', RewardWithinPayment',
         NeverOverdrawn', SessionInv(s)'
  PROVE  IInv'
  BY OthersKeep DEF IInv

-----------------------------------------------------------------------------
(* Starting a unit of work *)

Started(s, x, u, op, amt) ==
    /\ TypeOK' /\ RewardWithinPayment' /\ NeverOverdrawn' /\ Frame(s)
    /\ pc'[s] = "claimed" /\ rowLock'[x] = s
    /\ job'[s] = [op |-> op, on |-> x, user |-> u, amt |-> amt]
    /\ job'[s] \in Jobs
    /\ UNCHANGED <<balance, books>>

LEMMA BeginKeeps ==
  ASSUME IInv, NEW s \in Sessions, NEW x \in Rows, NEW u \in Users,
         NEW op \in Ops, NEW amt \in Int, Begin(s, x, u, op, amt)
  PROVE  Started(s, x, u, op, amt)
<1>1. [op |-> op, on |-> x, user |-> u, amt |-> amt] \in Jobs
  BY DEF Jobs
<1>2. TypeOK'
  BY <1>1 DEF IInv, TypeOK, Begin, books, admin
<1>3. RewardWithinPayment' /\ NeverOverdrawn'
  BY DEF IInv, RewardWithinPayment, NeverOverdrawn, Begin, books, admin
<1>4. Frame(s)
  BY DEF IInv, TypeOK, Frame, Foreign, Begin, RowFree, books, admin
<1>5. /\ pc'[s] = "claimed" /\ rowLock'[x] = s
      /\ job'[s] = [op |-> op, on |-> x, user |-> u, amt |-> amt]
  BY DEF IInv, TypeOK, Begin
<1>6. QED BY <1>1, <1>2, <1>3, <1>4, <1>5 DEF Begin, Started

LEMMA BeginStep ==
  ASSUME IInv, NEW s \in Sessions, BeginAny(s)
  PROVE  IInv'
<1>1. ASSUME NEW d \in Payments, BeginSettle(s, d) PROVE IInv'
  <2>1. Payer[d] \in Users /\ Credit(d) \in Nat /\ d \in Rows
    BY MoneyAssumption DEF Credit, Rows
  <2>2. Begin(s, d, Payer[d], "settle", Credit(d)) /\ payment[d] = "PENDING"
    BY <1>1 DEF BeginSettle
  <2>3. Started(s, d, Payer[d], "settle", Credit(d))
    BY <2>1, <2>2, BeginKeeps DEF Ops
  <2>4. SessionInv(s)'
    BY <2>1, <2>2, <2>3 DEF Started, SessionInv, Knows, SettleKnows, books
  <2>5. QED BY <2>3, <2>4, StepKeeps DEF Started
<1>2. ASSUME NEW d \in Payments, BeginUndeposit(s, d) PROVE IInv'
  <2>1. Payer[d] \in Users /\ Sum[d] \in Nat /\ d \in Rows
    BY MoneyAssumption DEF Rows
  <2>2. Begin(s, d, Payer[d], "undeposit", Sum[d]) /\ payment[d] = "COMPLETED"
    BY <1>2 DEF BeginUndeposit
  <2>3. Started(s, d, Payer[d], "undeposit", Sum[d])
    BY <2>1, <2>2, BeginKeeps DEF Ops
  <2>4. SessionInv(s)'
    BY <2>1, <2>2, <2>3 DEF Started, SessionInv, Knows, UndepositKnows, books
  <2>5. QED BY <2>3, <2>4, StepKeeps DEF Started
<1>3. ASSUME NEW p \in Purchases, NEW op \in {"spend", "unspend"},
             Begin(s, p, Buyer[p], op, Price[p])
      PROVE IInv'
  <2>1. Buyer[p] \in Users /\ Price[p] \in Nat /\ p \in Rows
    BY MoneyAssumption DEF Rows
  <2>2. op \in Ops
    BY DEF Ops
  <2>3. Started(s, p, Buyer[p], op, Price[p])
    BY <1>3, <2>1, <2>2, BeginKeeps
  <2>4. SessionInv(s)'
    BY <1>3, <2>1, <2>3 DEF Started, SessionInv, Knows, SpendKnows
  <2>5. QED BY <2>3, <2>4, StepKeeps DEF Started
<1>4. ASSUME NEW r \in Requests, NEW u \in Users, BeginAsk(s, r, u) PROVE IInv'
  <2>1. PICK amt \in MinWithdrawal .. balance[u] : Begin(s, r, u, "ask", amt)
    BY <1>4 DEF BeginAsk
  <2>2. amt \in Nat /\ r \in Rows /\ request[r] = NoRequest
    BY <1>4, MoneyAssumption DEF BeginAsk, Rows, IInv, TypeOK
  <2>3. Started(s, r, u, "ask", amt)
    BY <2>1, <2>2, BeginKeeps DEF Ops
  <2>4. SessionInv(s)'
    BY <2>1, <2>2, <2>3 DEF Started, SessionInv, Knows, AskKnows, books
  <2>5. QED BY <2>3, <2>4, StepKeeps DEF Started
<1>5. ASSUME NEW r \in Requests, NEW verdict \in {"pay", "reject"},
             BeginProcess(s, r, verdict)
      PROVE IInv'
  <2>1. request[r] \in RequestRows
    BY <1>5 DEF BeginProcess, IInv, TypeOK, NoRequest
  <2>2. /\ request[r].user \in Users /\ request[r].amt \in Nat /\ r \in Rows
        /\ request[r].st = "PENDING"
        /\ Begin(s, r, request[r].user, verdict, request[r].amt)
    BY <1>5, <2>1 DEF BeginProcess, RequestRows, Rows
  <2>3. Started(s, r, request[r].user, verdict, request[r].amt)
    BY <2>2, BeginKeeps DEF Ops
  <2>4. SessionInv(s)'
    BY <2>2, <2>3 DEF Started, SessionInv, Knows, ProcessKnows, books
  <2>5. QED BY <2>3, <2>4, StepKeeps DEF Started
<1>6. ASSUME NEW u \in Users, NEW amt \in Corrections, BeginAdjust(s, u, amt) PROVE IInv'
  <2>1. amt \in Int /\ MaxCorrections \in Nat
    BY MoneyAssumption
  <2>2. [op |-> "adjust", on |-> Nobody, user |-> u, amt |-> amt] \in Jobs
    BY <2>1 DEF Jobs, Ops
  <2>3. TypeOK'
    BY <1>6, <2>1, <2>2 DEF BeginAdjust, IInv, TypeOK, books
  <2>4. RewardWithinPayment' /\ NeverOverdrawn'
    BY <1>6 DEF BeginAdjust, IInv, RewardWithinPayment, NeverOverdrawn, books
  <2>5. Frame(s)
    BY <1>6 DEF BeginAdjust, IInv, TypeOK, Frame, Foreign, books
  <2>6. SessionInv(s)'
    BY <1>6, <2>2 DEF BeginAdjust, IInv, TypeOK, SessionInv, Knows
  <2>7. QED BY <2>3, <2>4, <2>5, <2>6, StepKeeps
<1>7. QED BY <1>1, <1>2, <1>3, <1>4, <1>5, <1>6 DEF BeginAny, BeginSpend, BeginUnspend

-----------------------------------------------------------------------------
(* Taking a wallet *)

LEMMA HoldStep ==
  ASSUME IInv, NEW s \in Sessions, Hold(s) \/ RefundWithoutClaw(s) \/ Reward(s)
  PROVE  IInv'
<1>0. Knows(s) /\ job[s] \in Jobs /\ job[s].user \in Users /\ s # Nobody
  BY PeopleAssumption DEF IInv, SessionInv, Knows, Jobs, Hold, RefundWithoutClaw, Reward
<1>1. CASE Hold(s)
  <2>1. TypeOK'
    BY <1>0, <1>1 DEF Hold, IInv, TypeOK, books, admin
  <2>2. RewardWithinPayment' /\ NeverOverdrawn'
    BY <1>1 DEF Hold, IInv, RewardWithinPayment, NeverOverdrawn, books, admin
  <2>3. Frame(s)
    BY <1>1 DEF Hold, IInv, TypeOK, Frame, Foreign, books, admin
  <2>4. Knows(s)'
    BY <1>0, <1>1 DEF Hold, Knows, SettleKnows, SpendKnows, AskKnows, ProcessKnows,
                      UndepositKnows, books
  <2>5. Covered(s)'
    BY <1>0, <1>1 DEF Hold, Covered, Owns, Affordable, IInv, TypeOK
  <2>6. SessionInv(s)'
    BY <1>1, <2>4, <2>5 DEF SessionInv, Hold, IInv, TypeOK
  <2>7. QED BY <2>1, <2>2, <2>3, <2>6, StepKeeps
<1>2. CASE RefundWithoutClaw(s)
  <2>0. [job[s] EXCEPT !.amt = 0] \in Jobs /\ job' = [job EXCEPT ![s] = [job[s] EXCEPT !.amt = 0]]
    BY <1>0, <1>2 DEF Jobs, RefundWithoutClaw, ClawNothing
  <2>1. TypeOK'
    BY <2>0, <1>2 DEF RefundWithoutClaw, IInv, TypeOK, books, admin
  <2>2. RewardWithinPayment' /\ NeverOverdrawn'
    BY <1>2 DEF RefundWithoutClaw, IInv, RewardWithinPayment, NeverOverdrawn, books, admin
  <2>3. Frame(s)
    BY <1>2, <2>0 DEF RefundWithoutClaw, IInv, TypeOK, Frame, Foreign, books, admin
  <2>4. job'[s] = [job[s] EXCEPT !.amt = 0] /\ pc'[s] = "held" /\ job[s].op = "undeposit"
    BY <1>2, <2>0 DEF RefundWithoutClaw, IInv, TypeOK
  <2>5. /\ job'[s].op = "undeposit" /\ job'[s].amt = 0
        /\ job'[s].on = job[s].on /\ job'[s] \in Jobs
    BY <2>0, <2>4, <1>0 DEF Jobs
  <2>6. Knows(s)'
    BY <1>0, <1>2, <2>4, <2>5 DEF RefundWithoutClaw, Knows, UndepositKnows, books
  <2>7. SessionInv(s)'
    BY <2>4, <2>5, <2>6 DEF SessionInv, Covered
  <2>8. QED BY <2>1, <2>2, <2>3, <2>7, StepKeeps
<1>3. CASE Reward(s)
  <2>1. /\ job[s].op = "settle" /\ pc[s] = "held" /\ SettleKnows(s)
        /\ Commission(job[s].on) > 0
    BY <1>0, <1>3 DEF Reward, RewardDue, Knows
  <2>2. Referrer[job[s].user] \in Users /\ Referrer[job[s].user] # job[s].user
    BY <1>0, <2>1, PeopleAssumption DEF Commission, SettleKnows
  <2>3. TypeOK'
    BY <2>2, <1>3 DEF Reward, IInv, TypeOK, books, admin
  <2>4. RewardWithinPayment' /\ NeverOverdrawn'
    BY <1>3 DEF Reward, IInv, RewardWithinPayment, NeverOverdrawn, books, admin
  <2>5. Frame(s)
    BY <1>3 DEF Reward, IInv, TypeOK, Frame, Foreign, books, admin
  <2>6. Knows(s)'
    BY <1>0, <1>3, <2>1 DEF Reward, Knows, SettleKnows, books
  <2>7. Owns(s)
    BY <2>1 DEF IInv, SessionInv, Covered
  <2>8. Rewarding(s)'
    BY <1>0, <1>3, <2>1, <2>2, <2>7 DEF Reward, Rewarding, Owns, Commission, Percent, IInv, TypeOK
  <2>9. SessionInv(s)'
    BY <1>3, <2>6, <2>8 DEF SessionInv, Reward, IInv, TypeOK
  <2>10. QED BY <2>3, <2>4, <2>5, <2>9, StepKeeps
<1>4. QED BY <1>1, <1>2, <1>3
-----------------------------------------------------------------------------
(* Ending a unit of work *)

(* Every lock of s is free again, the others' are untouched. *)
Released(s) ==
    /\ pc' \in [Sessions -> {"idle", "claimed", "held", "rewarded"}]
    /\ job' \in [Sessions -> Jobs \cup {NoJob}]
    /\ rowLock' \in [Rows -> Sessions \cup {Nobody}]
    /\ wallet' \in [Users -> Sessions \cup {Nobody}]
    /\ pc'[s] = "idle"
    /\ \A t \in Sessions : t # s => pc'[t] = pc[t] /\ job'[t] = job[t]
    /\ \A x \in Rows : Foreign(rowLock[x], s) => rowLock'[x] = rowLock[x]
    /\ \A u \in Users : Foreign(wallet[u], s) => wallet'[u] = wallet[u]

LEMMA ReleaseKeeps ==
  ASSUME IInv, NEW s \in Sessions, Release(s)
  PROVE  Released(s) /\ SessionInv(s)'
<1>1. Released(s)
  BY DEF IInv, TypeOK, Release, LetGoWallets, Released, Foreign
<1>2. QED BY <1>1 DEF Released, SessionInv

(* What a commit may write: rows the session locked, wallets it owns. *)
LEMMA CommitKeeps ==
  ASSUME IInv, NEW s \in Sessions, Release(s),
         balance' \in [Users -> Int],
         payment' \in [Payments -> {"PENDING", "COMPLETED", "REFUNDED"}],
         earned' \in [Payments -> Nat], clawed' \in [Payments -> Nat],
         bought' \in [Purchases -> {"ABSENT", "COMPLETED", "REFUNDED"}],
         request' \in [Requests -> RequestRows \cup {NoRequest}],
         granted' \in [Users -> Nat], taken' \in [Users -> Nat],
         corrections' = corrections,
         \A u \in Users : wallet[u] = s \/ balance'[u] = balance[u],
         \A d \in Payments : rowLock[d] = s \/ payment'[d] = payment[d],
         \A r \in Requests : rowLock[r] = s \/ request'[r] = request[r],
         RewardWithinPayment', NeverOverdrawn'
  PROVE  IInv'
<1>1. Released(s) /\ SessionInv(s)'
  BY ReleaseKeeps
<1>2. TypeOK'
  BY <1>1 DEF IInv, TypeOK, Released
<1>3. Frame(s)
  BY <1>1 DEF Frame, Released, Foreign, Rows
<1>4. QED BY <1>1, <1>2, <1>3, StepKeeps

LEMMA RollbackStep ==
  ASSUME IInv, NEW s \in Sessions, GiveUp(s) \/ Rollback(s)
  PROVE  IInv'
<1>1. Release(s) /\ UNCHANGED <<balance, books, admin>>
  BY DEF GiveUp, Rollback
<1>2. RewardWithinPayment' /\ NeverOverdrawn'
  BY <1>1 DEF IInv, RewardWithinPayment, NeverOverdrawn, books, admin
<1>3. QED BY <1>1, <1>2, CommitKeeps DEF IInv, TypeOK, books, admin

LEMMA CommitSettleStep ==
  ASSUME IInv, NEW s \in Sessions, CommitSettle(s)
  PROVE  IInv'
<1> DEFINE d == job[s].on
           u == job[s].user
           ref == Referrer[u]
           reward == IF pc[s] = "rewarded" THEN Commission(d) ELSE 0
<1>1. /\ Knows(s) /\ SettleKnows(s) /\ d \in Payments /\ u \in Users /\ u = Payer[d]
      /\ job[s].amt \in Nat /\ rowLock[d] = s /\ payment[d] = "PENDING"
  BY DEF CommitSettle, IInv, SessionInv, Knows, SettleKnows, Jobs
<1>2. wallet[u] = s
  BY <1>1 DEF CommitSettle, IInv, SessionInv, Covered, Rewarding, Owns
<1>3. reward \in 0 .. Sum[d]
  BY <1>1, CommissionBounded, MoneyAssumption
<1>4. pc[s] = "rewarded" => ref \in Users /\ wallet[ref] = s
  BY DEF IInv, SessionInv, Rewarding
<1>5. /\ payment' = [payment EXCEPT ![d] = "COMPLETED"]
      /\ earned' = [earned EXCEPT ![d] = @ + reward]
      /\ balance' = [w \in Users |-> IF w = u THEN balance[w] + job[s].amt
                                     ELSE IF w = ref THEN balance[w] + reward
                                     ELSE balance[w]]
      /\ Release(s)
      /\ UNCHANGED <<clawed, bought, request, admin>>
  BY DEF CommitSettle
<1>6. \A w \in Users : wallet[w] = s \/ balance'[w] = balance[w]
  BY <1>2, <1>3, <1>4, <1>5 DEF IInv, TypeOK
<1>7. earned[d] = 0
  BY <1>1 DEF IInv, TypeOK, RewardWithinPayment
<1> HIDE DEF d, u, ref, reward
<1>8. RewardWithinPayment'
  BY <1>1, <1>3, <1>5, <1>7, MoneyAssumption DEF IInv, TypeOK, RewardWithinPayment
<1>9. NeverOverdrawn'
  BY <1>1, <1>3, <1>5, MoneyAssumption DEF IInv, TypeOK, NeverOverdrawn, admin
<1>10. /\ balance' \in [Users -> Int] /\ earned' \in [Payments -> Nat]
       /\ payment' \in [Payments -> {"PENDING", "COMPLETED", "REFUNDED"}]
  BY <1>1, <1>3, <1>5, <1>7, MoneyAssumption DEF IInv, TypeOK
<1>11. \A e \in Payments : rowLock[e] = s \/ payment'[e] = payment[e]
  BY <1>1, <1>5 DEF IInv, TypeOK
<1>12. QED BY <1>5, <1>6, <1>8, <1>9, <1>10, <1>11, CommitKeeps DEF IInv, TypeOK, admin

(* The balance a purchase, a request or a refund leaves covers its debit. *)
LEMMA DebitKeeps ==
  ASSUME IInv, NEW s \in Sessions, pc[s] = "held", job[s].op \in Guarded,
         balance' = [balance EXCEPT ![job[s].user] = @ - job[s].amt], taken' = taken
  PROVE  /\ balance' \in [Users -> Int]
         /\ \A u \in Users : wallet[u] = s \/ balance'[u] = balance[u]
         /\ NeverOverdrawn'
<1>1. /\ job[s].user \in Users /\ job[s].amt \in Nat /\ Covered(s)
  BY DEF IInv, SessionInv, Knows, SpendKnows, AskKnows, UndepositKnows, Guarded, Jobs
<1>2. job[s].amt = 0 \/ (wallet[job[s].user] = s /\ balance[job[s].user] >= job[s].amt)
  BY <1>1 DEF Covered, Owns
<1>3. QED BY <1>1, <1>2 DEF IInv, TypeOK, NeverOverdrawn

LEMMA CreditKeeps ==
  ASSUME IInv, NEW s \in Sessions, pc[s] = "held", job[s].op \in {"reject", "unspend"},
         balance' = [balance EXCEPT ![job[s].user] = @ + job[s].amt], taken' = taken
  PROVE  /\ balance' \in [Users -> Int]
         /\ \A u \in Users : wallet[u] = s \/ balance'[u] = balance[u]
         /\ NeverOverdrawn'
<1>1. job[s].user \in Users /\ job[s].amt \in Nat /\ wallet[job[s].user] = s
  BY DEF IInv, SessionInv, Knows, SpendKnows, ProcessKnows, Covered, Owns, Jobs
<1>2. QED BY <1>1 DEF IInv, TypeOK, NeverOverdrawn

LEMMA CommitOtherStep ==
  ASSUME IInv, NEW s \in Sessions, Commit(s), ~CommitSettle(s)
  PROVE  IInv'
<1>1. CASE CommitSpend(s)
  <2>1. Knows(s) /\ SpendKnows(s) /\ pc[s] = "held" /\ job[s].op \in Guarded
    BY <1>1 DEF CommitSpend, IInv, SessionInv, Knows, Guarded
  <2>2. RewardWithinPayment'
    BY <1>1 DEF CommitSpend, IInv, RewardWithinPayment
  <2>3. bought' \in [Purchases -> {"ABSENT", "COMPLETED", "REFUNDED"}]
    BY <1>1, <2>1 DEF CommitSpend, IInv, TypeOK, SpendKnows
  <2>4. QED BY <1>1, <2>1, <2>2, <2>3, DebitKeeps, CommitKeeps
            DEF CommitSpend, IInv, TypeOK, admin
<1>2. CASE CommitAsk(s)
  <2>1. Knows(s) /\ AskKnows(s) /\ pc[s] = "held" /\ job[s].op \in Guarded
    BY <1>2 DEF CommitAsk, IInv, SessionInv, Knows, Guarded
  <2>2. RewardWithinPayment'
    BY <1>2 DEF CommitAsk, IInv, RewardWithinPayment
  <2>3. [user |-> job[s].user, st |-> "PENDING", amt |-> job[s].amt] \in RequestRows
    BY <2>1 DEF Knows, AskKnows, Jobs, RequestRows
  <2>4. /\ request' \in [Requests -> RequestRows \cup {NoRequest}]
        /\ \A r \in Requests : rowLock[r] = s \/ request'[r] = request[r]
    BY <1>2, <2>1, <2>3 DEF CommitAsk, IInv, TypeOK, AskKnows
  <2>5. QED BY <1>2, <2>1, <2>2, <2>4, DebitKeeps, CommitKeeps
            DEF CommitAsk, IInv, TypeOK, admin
<1>3. CASE CommitPay(s)
  <2>1. Knows(s) /\ ProcessKnows(s)
    BY <1>3 DEF CommitPay, IInv, SessionInv, Knows
  <2>2. RewardWithinPayment' /\ NeverOverdrawn'
    BY <1>3 DEF CommitPay, IInv, RewardWithinPayment, NeverOverdrawn, admin
  <2>3. request[job[s].on] \in RequestRows
    BY <2>1 DEF ProcessKnows, IInv, TypeOK, NoRequest
  <2>4. [request[job[s].on] EXCEPT !.st = "PAID"] \in RequestRows
    BY <2>3 DEF RequestRows
  <2>5. /\ request' \in [Requests -> RequestRows \cup {NoRequest}]
        /\ \A r \in Requests : rowLock[r] = s \/ request'[r] = request[r]
    BY <1>3, <2>1, <2>4 DEF CommitPay, IInv, TypeOK, ProcessKnows
  <2>6. QED BY <1>3, <2>2, <2>5, CommitKeeps DEF CommitPay, IInv, TypeOK, admin
<1>4. CASE CommitReject(s)
  <2>1. Knows(s) /\ ProcessKnows(s) /\ pc[s] = "held" /\ job[s].op = "reject"
    BY <1>4 DEF CommitReject, IInv, SessionInv, Knows
  <2>2. RewardWithinPayment'
    BY <1>4 DEF CommitReject, IInv, RewardWithinPayment
  <2>3. request[job[s].on] \in RequestRows
    BY <2>1 DEF ProcessKnows, IInv, TypeOK, NoRequest
  <2>4. [request[job[s].on] EXCEPT !.st = "REJECTED"] \in RequestRows
    BY <2>3 DEF RequestRows
  <2>5. /\ request' \in [Requests -> RequestRows \cup {NoRequest}]
        /\ \A r \in Requests : rowLock[r] = s \/ request'[r] = request[r]
    BY <1>4, <2>1, <2>4 DEF CommitReject, IInv, TypeOK, ProcessKnows
  <2>6. QED BY <1>4, <2>1, <2>2, <2>5, CreditKeeps, CommitKeeps
            DEF CommitReject, IInv, TypeOK, admin
<1>5. CASE CommitUndeposit(s)
  <2>1. Knows(s) /\ UndepositKnows(s) /\ pc[s] = "held" /\ job[s].op \in Guarded
    BY <1>5 DEF CommitUndeposit, IInv, SessionInv, Knows, Guarded
  <2>2. RewardWithinPayment'
    BY <1>5, <2>1 DEF CommitUndeposit, IInv, TypeOK, RewardWithinPayment, UndepositKnows
  <2>3. /\ payment' \in [Payments -> {"PENDING", "COMPLETED", "REFUNDED"}]
        /\ clawed' \in [Payments -> Nat]
        /\ \A d \in Payments : rowLock[d] = s \/ payment'[d] = payment[d]
    BY <1>5, <2>1 DEF CommitUndeposit, IInv, TypeOK, UndepositKnows
  <2>4. QED BY <1>5, <2>1, <2>2, <2>3, DebitKeeps, CommitKeeps
            DEF CommitUndeposit, IInv, TypeOK, admin
<1>6. CASE CommitUnspend(s)
  <2>1. Knows(s) /\ SpendKnows(s) /\ pc[s] = "held" /\ job[s].op = "unspend"
    BY <1>6 DEF CommitUnspend, IInv, SessionInv, Knows
  <2>2. RewardWithinPayment'
    BY <1>6 DEF CommitUnspend, IInv, RewardWithinPayment
  <2>3. bought' \in [Purchases -> {"ABSENT", "COMPLETED", "REFUNDED"}]
    BY <1>6, <2>1 DEF CommitUnspend, IInv, TypeOK, SpendKnows
  <2>4. QED BY <1>6, <2>1, <2>2, <2>3, CreditKeeps, CommitKeeps
            DEF CommitUnspend, IInv, TypeOK, admin
<1>7. CASE CommitAdjust(s)
  <2>1. /\ job[s].user \in Users /\ job[s].amt \in Int /\ wallet[job[s].user] = s
    BY <1>7 DEF CommitAdjust, IInv, SessionInv, Knows, Jobs, Covered, Owns
  <2>2. RewardWithinPayment'
    BY <1>7 DEF CommitAdjust, IInv, RewardWithinPayment, books
  <2>3. /\ balance' \in [Users -> Int] /\ granted' \in [Users -> Nat]
        /\ taken' \in [Users -> Nat]
        /\ \A u \in Users : wallet[u] = s \/ balance'[u] = balance[u]
    BY <1>7, <2>1 DEF CommitAdjust, IInv, TypeOK
  <2>4. NeverOverdrawn'
    BY <1>7, <2>1 DEF CommitAdjust, IInv, TypeOK, NeverOverdrawn
  <2>5. QED BY <1>7, <2>2, <2>3, <2>4, CommitKeeps DEF CommitAdjust, IInv, TypeOK, books
<1>8. QED BY <1>1, <1>2, <1>3, <1>4, <1>5, <1>6, <1>7 DEF Commit

-----------------------------------------------------------------------------
LEMMA InitIInv == Init => IInv
<1> SUFFICES ASSUME Init PROVE IInv
  OBVIOUS
<1>1. TypeOK
  BY MoneyAssumption DEF Init, TypeOK
<1>2. RewardWithinPayment /\ NeverOverdrawn
  BY DEF Init, RewardWithinPayment, NeverOverdrawn
<1>3. QED BY <1>1, <1>2 DEF Init, IInv, SessionInv

LEMMA IInvStep == IInv /\ [Next]_vars => IInv'
<1> SUFFICES ASSUME IInv, [Next]_vars PROVE IInv'
  OBVIOUS
<1>1. CASE UNCHANGED vars
  BY <1>1 DEF vars, books, admin, IInv, TypeOK, RewardWithinPayment, NeverOverdrawn,
     SessionInv, Knows, SettleKnows, SpendKnows, AskKnows, ProcessKnows,
     UndepositKnows, Covered, Owns, Rewarding, Commission, Percent
<1>2. ASSUME NEW s \in Sessions, BeginAny(s) \/ Work(s) \/ Rollback(s) PROVE IInv'
  BY <1>2, BeginStep, HoldStep, RollbackStep, CommitSettleStep, CommitOtherStep DEF Work
<1>3. QED BY <1>1, <1>2 DEF Next

(* The inductive invariant: what a unit of work read under its row lock    *)
(* still holds, and a guarded debit stays covered while the wallet is held.*)
THEOREM Invariance == Spec => []IInv
BY InitIInv, IInvStep, PTL DEF Spec

(* Every reachable state of the wallets is well typed. *)
THEOREM TypeCorrect == Spec => []TypeOK
<1>1. IInv => TypeOK
  BY DEF IInv
<1>2. QED BY <1>1, Invariance, PTL

(* No purchase, withdrawal or refund, in any interleaving, drives a wallet *)
(* below zero: debit_balance_guarded is enough.                            *)
THEOREM WalletsCovered == Spec => []NeverOverdrawn
<1>1. IInv => NeverOverdrawn
  BY DEF IInv
<1>2. QED BY <1>1, Invariance, PTL

(* No payment ever earns a referrer more than its payer paid, and an       *)
(* unsettled one earns nothing.                                            *)
THEOREM RewardsBounded == Spec => []RewardWithinPayment
<1>1. IInv => RewardWithinPayment
  BY DEF IInv
<1>2. QED BY <1>1, Invariance, PTL

(* A withdrawal request an admin answered is never answered again.         *)
LEMMA AnsweredStep ==
  ASSUME IInv, [Next]_vars, NEW r \in Requests, request[r].st \in {"PAID", "REJECTED"}
  PROVE  request'[r] = request[r]
<1>1. CASE UNCHANGED vars
  BY <1>1 DEF vars, books
<1>2. ASSUME NEW s \in Sessions, CommitAsk(s) PROVE request'[r] = request[r]
  <2>1. AskKnows(s)
    BY <1>2 DEF CommitAsk, IInv, SessionInv, Knows
  <2>2. QED BY <1>2, <2>1 DEF CommitAsk, AskKnows, NoRequest, IInv, TypeOK
<1>3. ASSUME NEW s \in Sessions, CommitPay(s) \/ CommitReject(s)
      PROVE  request'[r] = request[r]
  <2>1. ProcessKnows(s)
    BY <1>3 DEF CommitPay, CommitReject, IInv, SessionInv, Knows
  <2>2. QED BY <1>3, <2>1 DEF CommitPay, CommitReject, ProcessKnows, IInv, TypeOK
<1>4. ASSUME NEW s \in Sessions, BeginAny(s) PROVE request' = request
  BY <1>4 DEF BeginAny, BeginSettle, BeginUndeposit, BeginSpend, BeginUnspend,
     BeginAsk, BeginProcess, BeginAdjust, Begin, books
<1>5. ASSUME NEW s \in Sessions, Work(s), ~CommitAsk(s), ~CommitPay(s), ~CommitReject(s)
      PROVE  request' = request
  BY <1>5 DEF Work, Hold, RefundWithoutClaw, Reward, GiveUp, Commit, CommitSettle, CommitSpend,
     CommitUndeposit, CommitUnspend, CommitAdjust, books
<1>6. ASSUME NEW s \in Sessions, Rollback(s) PROVE request' = request
  BY <1>6 DEF Rollback, books
<1>7. QED BY <1>1, <1>2, <1>3, <1>4, <1>5, <1>6 DEF Next

THEOREM PaidOutOnce == Spec => AnsweredOnce
<1>1. IInv /\ [Next]_vars =>
        [\A r \in Requests :
           request[r].st \in {"PAID", "REJECTED"} => request'[r] = request[r]]_vars
  BY AnsweredStep
<1>2. QED BY <1>1, Invariance, PTL DEF Spec, AnsweredOnce
-----------------------------------------------------------------------------
(* The ledger *)

Deposited(u) == SumFunctionOnSet(Brought, Settled(u))
Spent(u) == SumFunctionOnSet(Price, Kept(u))
Withdrawn(u) == SumFunctionOnSet(Asked, Reserved(u))

(* What one row contributes to a user's sums. *)
DepositOf(d, u) ==
    IF d \in Topups /\ Payer[d] = u /\ payment[d] # "PENDING" THEN Sum[d] - clawed[d] ELSE 0
EarningOf(d, u) == IF Referrer[Payer[d]] = u THEN earned[d] ELSE 0
PriceOf(p, u) == IF Buyer[p] = u /\ bought[p] = "COMPLETED" THEN Price[p] ELSE 0
AskedOf(r, u) == IF request[r].user = u /\ request[r].st # "REJECTED" THEN request[r].amt ELSE 0

LEMMA RowsFinite ==
  /\ \A S \in SUBSET Payments : IsFiniteSet(S)
  /\ \A S \in SUBSET Purchases : IsFiniteSet(S)
  /\ \A S \in SUBSET Requests : IsFiniteSet(S)
<1>1. \A S \in SUBSET Rows : IsFiniteSet(S)
  BY RowsAssumption, FS_Subset
<1>2. QED BY <1>1 DEF Rows

LEMMA RequestAmounts ==
  ASSUME TypeOK PROVE \A r \in Requests : request[r].amt \in Nat
  BY DEF TypeOK, RequestRows, NoRequest

(* Every sum is an integer, and what is asked for or earned is not negative. *)
LEMMA SumTypes ==
  ASSUME TypeOK, NEW u \in Users
  PROVE  /\ Deposited(u) \in Int /\ Spent(u) \in Int
         /\ Earnings(u) \in Nat /\ Withdrawn(u) \in Nat
<1>1. Deposited(u) \in Int
  <2>1. \A d \in Settled(u) : Brought[d] \in Int
    BY MoneyAssumption, RowsAssumption DEF Settled, Brought, TypeOK
  <2>2. IsFiniteSet(Settled(u))
    BY RowsFinite, RowsAssumption DEF Settled
  <2>3. QED BY <2>1, <2>2, SumType DEF Deposited
<1>2. Spent(u) \in Int
  <2>1. \A p \in Kept(u) : Price[p] \in Int
    BY MoneyAssumption DEF Kept
  <2>2. IsFiniteSet(Kept(u))
    BY RowsFinite DEF Kept
  <2>3. QED BY <2>1, <2>2, SumType DEF Spent
<1>3. Earnings(u) \in Nat
  <2>1. \A d \in Invited(u) : earned[d] \in Nat
    BY DEF Invited, TypeOK
  <2>2. IsFiniteSet(Invited(u))
    BY RowsFinite DEF Invited
  <2>3. QED BY <2>1, <2>2, SumType DEF Earnings
<1>4. Withdrawn(u) \in Nat
  <2>1. \A r \in Reserved(u) : Asked[r] \in Nat
    BY RequestAmounts DEF Reserved, Asked
  <2>2. IsFiniteSet(Reserved(u))
    BY RowsFinite DEF Reserved
  <2>3. QED BY <2>1, <2>2, SumType DEF Withdrawn
<1>5. QED BY <1>1, <1>2, <1>3, <1>4

LEMMA DepositChange ==
  ASSUME TypeOK, TypeOK', NEW d \in Payments, NEW u \in Users,
         \A e \in Payments \ {d} : payment'[e] = payment[e] /\ clawed'[e] = clawed[e]
  PROVE  Deposited(u)' = Deposited(u) - DepositOf(d, u) + DepositOf(d, u)'
<1> DEFINE f == Brought
           g == Brought'
           S == Settled(u)
           R == Settled(u)'
<1>1. IsFiniteSet(S) /\ IsFiniteSet(R)
  BY RowsFinite, RowsAssumption DEF Settled
<1>2. /\ \A x \in S : f[x] \in Int
      /\ \A x \in R : g[x] \in Int
  BY MoneyAssumption, RowsAssumption DEF Settled, Brought, TypeOK
<1>3. S \ {d} = R \ {d} /\ \A x \in S \ {d} : f[x] = g[x]
  BY RowsAssumption DEF Settled, Brought
<1>4. Portion(f, S, d) = DepositOf(d, u) /\ Portion(g, R, d) = DepositOf(d, u)'
  BY DEF Portion, DepositOf, Brought, Settled
<1>5. SumFunctionOnSet(f, S) = Deposited(u) /\ SumFunctionOnSet(g, R) = Deposited(u)'
  BY DEF Deposited
<1> HIDE DEF f, g, S, R
<1>6. SumFunctionOnSet(g, R) = SumFunctionOnSet(f, S) - Portion(f, S, d) + Portion(g, R, d)
  BY <1>1, <1>2, <1>3, SumChange
<1>7. QED BY <1>4, <1>5, <1>6

LEMMA EarningChange ==
  ASSUME TypeOK, TypeOK', NEW d \in Payments, NEW u \in Users,
         \A e \in Payments \ {d} : earned'[e] = earned[e]
  PROVE  Earnings(u)' = Earnings(u) - EarningOf(d, u) + EarningOf(d, u)'
<1> DEFINE f == earned
           g == earned'
           S == Invited(u)
<1>1. IsFiniteSet(S)
  BY RowsFinite DEF Invited
<1>2. \A x \in S : f[x] \in Int /\ g[x] \in Int
  BY DEF Invited, TypeOK
<1>3. \A x \in S \ {d} : f[x] = g[x]
  BY DEF Invited
<1>4. Portion(f, S, d) = EarningOf(d, u) /\ Portion(g, S, d) = EarningOf(d, u)'
  BY DEF Portion, EarningOf, Invited
<1>5. SumFunctionOnSet(f, S) = Earnings(u) /\ SumFunctionOnSet(g, S) = Earnings(u)'
  BY DEF Earnings, Invited
<1> HIDE DEF f, g, S
<1>6. SumFunctionOnSet(g, S) = SumFunctionOnSet(f, S) - Portion(f, S, d) + Portion(g, S, d)
  BY <1>1, <1>2, <1>3, SumChange
<1>7. QED BY <1>4, <1>5, <1>6

LEMMA SpentChange ==
  ASSUME NEW p \in Purchases, NEW u \in Users, \A q \in Purchases \ {p} : bought'[q] = bought[q]
  PROVE  Spent(u)' = Spent(u) - PriceOf(p, u) + PriceOf(p, u)'
<1> DEFINE f == Price
           S == Kept(u)
           R == Kept(u)'
<1>1. IsFiniteSet(S) /\ IsFiniteSet(R)
  BY RowsFinite DEF Kept
<1>2. (\A x \in S : f[x] \in Int) /\ (\A x \in R : f[x] \in Int)
  BY MoneyAssumption DEF Kept
<1>3. S \ {p} = R \ {p}
  BY DEF Kept
<1>4. Portion(f, S, p) = PriceOf(p, u) /\ Portion(f, R, p) = PriceOf(p, u)'
  BY DEF Portion, PriceOf, Kept
<1>5. SumFunctionOnSet(f, S) = Spent(u) /\ SumFunctionOnSet(f, R) = Spent(u)'
  BY DEF Spent
<1> HIDE DEF f, S, R
<1>6. SumFunctionOnSet(f, R) = SumFunctionOnSet(f, S) - Portion(f, S, p) + Portion(f, R, p)
  BY <1>1, <1>2, <1>3, SumChange
<1>7. QED BY <1>4, <1>5, <1>6

LEMMA WithdrawnChange ==
  ASSUME TypeOK, TypeOK', NEW r \in Requests, NEW u \in Users,
         \A x \in Requests \ {r} : request'[x] = request[x]
  PROVE  Withdrawn(u)' = Withdrawn(u) - AskedOf(r, u) + AskedOf(r, u)'
<1> DEFINE f == Asked
           g == Asked'
           S == Reserved(u)
           R == Reserved(u)'
<1>1. IsFiniteSet(S) /\ IsFiniteSet(R)
  BY RowsFinite DEF Reserved
<1>2. (\A x \in S : f[x] \in Int) /\ (\A x \in R : g[x] \in Int)
  <2>1. (\A x \in Requests : request[x].amt \in Nat) /\ \A x \in Requests : request'[x].amt \in Nat
    BY RequestAmounts DEF TypeOK, RequestRows, NoRequest
  <2>2. QED BY <2>1 DEF Reserved, Asked
<1>3. S \ {r} = R \ {r} /\ \A x \in S \ {r} : f[x] = g[x]
  BY DEF Reserved, Asked
<1>4. Portion(f, S, r) = AskedOf(r, u) /\ Portion(g, R, r) = AskedOf(r, u)'
  BY DEF Portion, AskedOf, Asked, Reserved
<1>5. SumFunctionOnSet(f, S) = Withdrawn(u) /\ SumFunctionOnSet(g, R) = Withdrawn(u)'
  BY DEF Withdrawn
<1> HIDE DEF f, g, S, R
<1>6. SumFunctionOnSet(g, R) = SumFunctionOnSet(f, S) - Portion(f, S, r) + Portion(g, R, r)
  BY <1>1, <1>2, <1>3, SumChange
<1>7. QED BY <1>4, <1>5, <1>6

(* Sums over rows that a step leaves alone stay. *)
LEMMA SumsStay ==
  ASSUME NEW u \in Users
  PROVE  /\ UNCHANGED <<payment, clawed>> => Deposited(u)' = Deposited(u)
         /\ UNCHANGED earned => Earnings(u)' = Earnings(u)
         /\ UNCHANGED bought => Spent(u)' = Spent(u)
         /\ UNCHANGED request => Withdrawn(u)' = Withdrawn(u)
  BY DEF Deposited, Brought, Settled, Earnings, Invited, Spent, Kept, Withdrawn, Asked, Reserved

-----------------------------------------------------------------------------
(* What a unit of work knows about the entry it is going to make *)

BookKnows(s) ==
    /\ job[s].op \in {"spend", "unspend"} =>
          /\ job[s].on \in Purchases /\ rowLock[job[s].on] = s
          /\ bought[job[s].on] = (IF job[s].op = "spend" THEN "ABSENT" ELSE "COMPLETED")
          /\ job[s].user = Buyer[job[s].on] /\ job[s].amt = Price[job[s].on]
    /\ job[s].op = "settle" => job[s].amt = Credit(job[s].on)
    /\ job[s].op \in {"pay", "reject"} =>
          request[job[s].on].user = job[s].user /\ request[job[s].on].amt = job[s].amt
    /\ job[s].op = "undeposit" =>
          /\ job[s].on \in Topups /\ job[s].user = Payer[job[s].on]
          /\ job[s].amt \in {Sum[job[s].on], 0}

EntriesKnown == \A s \in Sessions : pc[s] # "idle" => BookKnows(s)

(* Only a refund takes a deposit back. *)
Unclawed == \A d \in Payments : payment[d] # "REFUNDED" => clawed[d] = 0

LInv == IInv /\ EntriesKnown /\ Unclawed /\ LedgerReconciles

(* A step of session s leaves alone what the others are doing, and the     *)
(* entries they have locked.                                               *)
Undisturbed(s) ==
    /\ \A t \in Sessions : t # s => pc'[t] = pc[t] /\ job'[t] = job[t]
    /\ \A x \in Rows : Foreign(rowLock[x], s) => rowLock'[x] = rowLock[x]
    /\ \A p \in Purchases : Foreign(rowLock[p], s) => bought'[p] = bought[p]
    /\ \A r \in Requests : Foreign(rowLock[r], s) => request'[r] = request[r]

LEMMA OthersUndisturbed ==
  ASSUME IInv, EntriesKnown, NEW s \in Sessions, BeginAny(s) \/ Work(s) \/ Rollback(s)
  PROVE  Undisturbed(s)
<1> USE DEF IInv, TypeOK
<1>1. CASE BeginAny(s)
  <2>1. ASSUME NEW x \in Rows, NEW u, NEW op, NEW amt, Begin(s, x, u, op, amt)
        PROVE  Undisturbed(s)
    BY <2>1 DEF Begin, RowFree, Undisturbed, Foreign, books
  <2>2. ASSUME NEW u \in Users, NEW amt \in Corrections, BeginAdjust(s, u, amt)
        PROVE  Undisturbed(s)
    BY <2>2 DEF BeginAdjust, Undisturbed, books
  <2>3. QED BY <1>1, <2>1, <2>2 DEF BeginAny, BeginSettle, BeginUndeposit, BeginSpend,
               BeginUnspend, BeginAsk, BeginProcess, Rows
<1>2. CASE Hold(s) \/ RefundWithoutClaw(s) \/ Reward(s)
  BY <1>2 DEF Hold, RefundWithoutClaw, Reward, Undisturbed, books
<1>3. ASSUME Release(s) PROVE /\ \A t \in Sessions : t # s => pc'[t] = pc[t] /\ job'[t] = job[t]
                              /\ \A x \in Rows : Foreign(rowLock[x], s) => rowLock'[x] = rowLock[x]
  BY <1>3 DEF Release, Foreign
<1>4. CASE GiveUp(s) \/ Rollback(s)
  BY <1>3, <1>4 DEF GiveUp, Rollback, Undisturbed, books
<1>5. CASE CommitSettle(s) \/ CommitUndeposit(s) \/ CommitAdjust(s)
  BY <1>3, <1>5 DEF CommitSettle, CommitUndeposit, CommitAdjust, Undisturbed, books
<1>6. CASE CommitSpend(s) \/ CommitUnspend(s)
  <2>1. BookKnows(s)
    BY <1>6 DEF EntriesKnown, CommitSpend, CommitUnspend
  <2>2. rowLock[job[s].on] = s
    BY <1>6, <2>1 DEF BookKnows, CommitSpend, CommitUnspend
  <2>3. \A p \in Purchases : Foreign(rowLock[p], s) => bought'[p] = bought[p]
    BY <1>6, <2>2 DEF Foreign, CommitSpend, CommitUnspend
  <2>4. QED BY <1>3, <1>6, <2>3 DEF CommitSpend, CommitUnspend, Undisturbed
<1>7. CASE CommitAsk(s) \/ CommitPay(s) \/ CommitReject(s)
  <2>1. rowLock[job[s].on] = s
    BY <1>7 DEF SessionInv, Knows, AskKnows, ProcessKnows, CommitAsk, CommitPay, CommitReject
  <2>2. \A r \in Requests : Foreign(rowLock[r], s) => request'[r] = request[r]
    BY <1>7, <2>1 DEF Foreign, CommitAsk, CommitPay, CommitReject
  <2>3. QED BY <1>3, <1>7, <2>2 DEF CommitAsk, CommitPay, CommitReject, Undisturbed
<1>8. QED BY <1>1, <1>2, <1>4, <1>5, <1>6, <1>7 DEF Work, Commit

(* Starting a unit of work, it reads the entry it is about. *)
LEMMA BeginReads ==
  ASSUME IInv, NEW s \in Sessions, BeginAny(s)
  PROVE  BookKnows(s)'
<1> USE DEF IInv, TypeOK
<1>0. ASSUME NEW x \in Rows, NEW u, NEW op, NEW amt, Begin(s, x, u, op, amt)
      PROVE  /\ job'[s].op = op /\ job'[s].on = x /\ job'[s].user = u /\ job'[s].amt = amt
             /\ rowLock'[x] = s /\ UNCHANGED <<bought, request>>
  <2>1. job'[s] = [op |-> op, on |-> x, user |-> u, amt |-> amt]
    BY <1>0 DEF Begin
  <2>2. QED BY <1>0, <2>1 DEF Begin, books
<1>1. ASSUME NEW d \in Payments, BeginSettle(s, d) \/ BeginUndeposit(s, d) PROVE BookKnows(s)'
  <2>1. CASE BeginSettle(s, d)
    <3>1. job'[s].op = "settle" /\ job'[s].on = d /\ job'[s].amt = Credit(d)
      BY <1>0, <2>1 DEF BeginSettle, Rows
    <3>2. QED BY <3>1 DEF BookKnows, Credit
  <2>2. CASE BeginUndeposit(s, d)
    <3>1. /\ job'[s].op = "undeposit" /\ job'[s].on = d /\ job'[s].user = Payer[d]
          /\ job'[s].amt = Sum[d] /\ d \in Topups
      BY <1>0, <2>2 DEF BeginUndeposit, Rows
    <3>2. QED BY <3>1 DEF BookKnows
  <2>3. QED BY <1>1, <2>1, <2>2
<1>2. ASSUME NEW p \in Purchases, BeginSpend(s, p) PROVE BookKnows(s)'
  <2>1. /\ job'[s].op = "spend" /\ job'[s].on = p
        /\ job'[s].user = Buyer[p] /\ job'[s].amt = Price[p]
        /\ rowLock'[p] = s /\ bought'[p] = "ABSENT"
    BY <1>0, <1>2 DEF BeginSpend, Rows
  <2>2. QED BY <2>1 DEF BookKnows
<1>3. ASSUME NEW p \in Purchases, BeginUnspend(s, p) PROVE BookKnows(s)'
  <2>1. /\ job'[s].op = "unspend" /\ job'[s].on = p
        /\ job'[s].user = Buyer[p] /\ job'[s].amt = Price[p]
        /\ rowLock'[p] = s /\ bought'[p] = "COMPLETED"
    BY <1>0, <1>3 DEF BeginUnspend, Rows
  <2>2. QED BY <2>1 DEF BookKnows
<1>4. ASSUME NEW r \in Requests, NEW u \in Users, BeginAsk(s, r, u) PROVE BookKnows(s)'
  <2>1. PICK amt : Begin(s, r, u, "ask", amt)
    BY <1>4 DEF BeginAsk
  <2>2. job'[s].op = "ask"
    BY <1>0, <2>1 DEF Rows
  <2>3. QED BY <2>2 DEF BookKnows
<1>5. ASSUME NEW r \in Requests, NEW verdict \in {"pay", "reject"}, BeginProcess(s, r, verdict)
      PROVE  BookKnows(s)'
  <2>1. /\ job'[s].op = verdict /\ job'[s].on = r
        /\ job'[s].user = request[r].user /\ job'[s].amt = request[r].amt
        /\ request' = request
    BY <1>0, <1>5 DEF BeginProcess, Rows
  <2>2. QED BY <2>1 DEF BookKnows
<1>6. ASSUME NEW u \in Users, NEW amt \in Corrections, BeginAdjust(s, u, amt) PROVE BookKnows(s)'
  <2>1. job'[s].op = "adjust"
    BY <1>6 DEF BeginAdjust
  <2>2. QED BY <2>1 DEF BookKnows
<1>7. QED BY <1>1, <1>2, <1>3, <1>4, <1>5, <1>6 DEF BeginAny

LEMMA EntriesStep ==
  ASSUME IInv, EntriesKnown, NEW s \in Sessions, BeginAny(s) \/ Work(s) \/ Rollback(s)
  PROVE  EntriesKnown'
<1> USE DEF IInv, TypeOK
<1>1. Undisturbed(s)
  BY OthersUndisturbed
<1>2. pc'[s] # "idle" => BookKnows(s)'
  <2>1. CASE BeginAny(s)
    BY <2>1, BeginReads
  <2>2. CASE Hold(s) \/ Reward(s)
    <3>1. BookKnows(s) /\ UNCHANGED <<job, rowLock, bought, request>>
      BY <2>2 DEF EntriesKnown, Hold, Reward, books
    <3>2. QED BY <3>1 DEF BookKnows, Credit
  <2>3. CASE RefundWithoutClaw(s)
    <3>1. BookKnows(s) /\ Knows(s) /\ job[s].op = "undeposit"
      BY <2>3 DEF EntriesKnown, SessionInv, RefundWithoutClaw
    <3>2. job'[s] = [job[s] EXCEPT !.amt = 0]
      BY <2>3 DEF RefundWithoutClaw, ClawNothing
    <3>3. job'[s].op = "undeposit" /\ job'[s].on = job[s].on /\ job'[s].user = job[s].user
          /\ job'[s].amt = 0
      BY <3>1, <3>2 DEF Knows, Jobs
    <3>4. QED BY <3>1, <3>3 DEF BookKnows
  <2>4. CASE Commit(s) \/ GiveUp(s) \/ Rollback(s)
    BY <2>4 DEF Commit, CommitSettle, CommitSpend, CommitAsk, CommitPay, CommitReject,
       CommitUndeposit, CommitUnspend, CommitAdjust, GiveUp, Rollback, Release
  <2>5. QED BY <2>1, <2>2, <2>3, <2>4 DEF Work
<1>3. ASSUME NEW t \in Sessions, t # s, pc'[t] # "idle" PROVE BookKnows(t)'
  <2>1. pc[t] # "idle" /\ job'[t] = job[t] /\ BookKnows(t) /\ Knows(t) /\ t # Nobody
    BY <1>1, <1>3, PeopleAssumption DEF EntriesKnown, SessionInv, Undisturbed
  <2>2. Foreign(t, s)
    BY <1>3, <2>1 DEF Foreign
  <2>3. job[t].op \in {"spend", "unspend"} => rowLock'[job[t].on] = t /\ bought'[job[t].on] = bought[job[t].on]
    BY <1>1, <2>1, <2>2 DEF BookKnows, Rows, Undisturbed
  <2>4. job[t].op \in {"pay", "reject"} => request'[job[t].on] = request[job[t].on]
    BY <1>1, <2>1, <2>2 DEF Knows, ProcessKnows, Rows, Undisturbed
  <2>5. QED BY <2>1, <2>3, <2>4 DEF BookKnows, Credit
<1>4. QED BY <1>2, <1>3 DEF EntriesKnown

LEMMA UnclawedStep ==
  ASSUME IInv, Unclawed, NEW s \in Sessions, BeginAny(s) \/ Work(s) \/ Rollback(s)
  PROVE  Unclawed'
<1> USE DEF IInv, TypeOK
<1>1. CASE CommitSettle(s)
  <2>1. payment[job[s].on] = "PENDING" /\ payment' = [payment EXCEPT ![job[s].on] = "COMPLETED"]
        /\ clawed' = clawed
    BY <1>1 DEF CommitSettle, SessionInv, Knows, SettleKnows
  <2>2. QED BY <2>1 DEF Unclawed
<1>2. CASE CommitUndeposit(s)
  BY <1>2 DEF CommitUndeposit, Unclawed
<1>3. CASE BeginAny(s)
  BY <1>3 DEF BeginAny, BeginSettle, BeginUndeposit, BeginSpend, BeginUnspend,
     BeginAsk, BeginProcess, BeginAdjust, Begin, books, Unclawed
<1>4. CASE Work(s) /\ ~CommitSettle(s) /\ ~CommitUndeposit(s)
  BY <1>4 DEF Work, Hold, RefundWithoutClaw, Reward, GiveUp, Commit, CommitSpend, CommitAsk,
     CommitPay, CommitReject, CommitUnspend, CommitAdjust, books, Unclawed
<1>5. CASE Rollback(s)
  BY <1>5 DEF Rollback, books, Unclawed
<1>6. QED BY <1>1, <1>2, <1>3, <1>4, <1>5

Ledger(u) == balance[u] = Deposited(u) + Earnings(u) + granted[u] - taken[u] - Spent(u) - Withdrawn(u)

LEMMA LedgerIs == LedgerReconciles <=> \A u \in Users : Ledger(u)
  BY DEF LedgerReconciles, Ledger, Deposited, Spent, Withdrawn

(* The ledger stays true when the wallet moves by what its entries do. *)
Moves(u, deposit, earning, grant, take, price, ask) ==
    /\ {deposit, earning, grant, take, price, ask} \subseteq Int
    /\ Deposited(u)' = Deposited(u) + deposit
    /\ Earnings(u)' = Earnings(u) + earning
    /\ granted'[u] = granted[u] + grant
    /\ taken'[u] = taken[u] + take
    /\ Spent(u)' = Spent(u) + price
    /\ Withdrawn(u)' = Withdrawn(u) + ask
    /\ balance'[u] = balance[u] + deposit + earning + grant - take - price - ask

LEMMA LedgerMoves ==
  ASSUME LInv, NEW u \in Users, NEW deposit, NEW earning, NEW grant, NEW take, NEW price, NEW ask,
         Moves(u, deposit, earning, grant, take, price, ask)
  PROVE  Ledger(u)'
<1> USE DEF Moves
<1>1. Ledger(u) /\ TypeOK
  BY LedgerIs DEF LInv, IInv
<1>2. /\ Deposited(u) \in Int /\ Spent(u) \in Int /\ Earnings(u) \in Int /\ Withdrawn(u) \in Int
      /\ granted[u] \in Int /\ taken[u] \in Int
  BY <1>1, SumTypes DEF TypeOK
<1> DEFINE a == Deposited(u)
           b == Earnings(u)
           c == Spent(u)
           d == Withdrawn(u)
<1>3. balance[u] = a + b + granted[u] - taken[u] - c - d
  BY <1>1 DEF Ledger
<1> HIDE DEF a, b, c, d
<1>4. balance'[u] = (a + deposit) + (b + earning) + (granted[u] + grant) - (taken[u] + take)
                    - (c + price) - (d + ask)
  BY <1>2, <1>3 DEF a, b, c, d
<1>5. QED BY <1>4 DEF Ledger, a, b, c, d

LEMMA SettleLedger ==
  ASSUME LInv, TypeOK', NEW s \in Sessions, CommitSettle(s), NEW u \in Users
  PROVE  Ledger(u)'
<1>0. PICK d, payer, reward : /\ d = job[s].on /\ payer = job[s].user
                              /\ reward = IF pc[s] = "rewarded" THEN Commission(d) ELSE 0
  OBVIOUS
<1>1. /\ d \in Payments /\ payer = Payer[d] /\ payer \in Users /\ payment[d] = "PENDING"
      /\ job[s].amt = Credit(d)
  BY <1>0 DEF CommitSettle, LInv, IInv, SessionInv, Knows, SettleKnows, Jobs, EntriesKnown, BookKnows
<1>2. TypeOK /\ clawed[d] = 0 /\ earned[d] = 0
  BY <1>1 DEF LInv, IInv, Unclawed, RewardWithinPayment, TypeOK
<1>3. reward \in Nat
  BY <1>0, <1>1, CommissionBounded, MoneyAssumption
<1>4. /\ payment' = [payment EXCEPT ![d] = "COMPLETED"] /\ clawed' = clawed
      /\ earned' = [earned EXCEPT ![d] = earned[d] + reward]
      /\ balance' = [w \in Users |-> IF w = payer THEN balance[w] + job[s].amt
                                     ELSE IF w = Referrer[payer] THEN balance[w] + reward
                                     ELSE balance[w]]
      /\ UNCHANGED <<bought, request, granted, taken>>
  BY <1>0 DEF CommitSettle, admin
<1>5. Ledger(u)
  BY LedgerIs DEF LInv
<1>6. Referrer[payer] # payer
  BY <1>1, PeopleAssumption
<1>7. balance'[u] = balance[u] + (IF u = payer THEN Credit(d) ELSE 0)
                               + (IF u = Referrer[payer] THEN reward ELSE 0)
  BY <1>1, <1>2, <1>3, <1>4, <1>6, MoneyAssumption DEF TypeOK, Credit
<1>8. DepositOf(d, u) = 0 /\ DepositOf(d, u)' = (IF u = payer THEN Credit(d) ELSE 0)
  <2>1. payment'[d] = "COMPLETED" /\ clawed'[d] = 0
    BY <1>1, <1>2, <1>4 DEF TypeOK
  <2>2. Sum[d] - 0 = Sum[d]
    BY <1>1, MoneyAssumption
  <2>3. QED BY <1>1, <2>1, <2>2 DEF DepositOf, Credit
<1>9. EarningOf(d, u) = 0 /\ EarningOf(d, u)' = (IF u = Referrer[payer] THEN reward ELSE 0)
  BY <1>1, <1>2, <1>3, <1>4 DEF EarningOf, TypeOK
<1>10. Deposited(u)' = Deposited(u) - DepositOf(d, u) + DepositOf(d, u)'
  BY <1>1, <1>2, <1>4, DepositChange DEF TypeOK
<1>11. Earnings(u)' = Earnings(u) - EarningOf(d, u) + EarningOf(d, u)'
  BY <1>1, <1>2, <1>4, EarningChange DEF TypeOK
<1>12. Spent(u)' = Spent(u) /\ Withdrawn(u)' = Withdrawn(u)
  BY <1>4, SumsStay
<1>13. granted'[u] = granted[u] /\ taken'[u] = taken[u]
  BY <1>4
<1>14. /\ Deposited(u) \in Int /\ Spent(u) \in Int /\ Earnings(u) \in Int /\ Withdrawn(u) \in Int
       /\ granted[u] \in Int /\ taken[u] \in Int
       /\ (IF u = payer THEN Credit(d) ELSE 0) \in Int
       /\ (IF u = Referrer[payer] THEN reward ELSE 0) \in Int
  BY <1>1, <1>2, <1>3, SumTypes, MoneyAssumption DEF TypeOK, Credit
<1>15. QED BY <1>5, <1>7, <1>8, <1>9, <1>10, <1>11, <1>12, <1>13, <1>14 DEF Ledger

LEMMA PurchaseLedger ==
  ASSUME LInv, TypeOK', NEW s \in Sessions, CommitSpend(s) \/ CommitUnspend(s), NEW u \in Users
  PROVE  Ledger(u)'
<1>0. PICK p, buyer : p = job[s].on /\ buyer = job[s].user
  OBVIOUS
<1>1. BookKnows(s) /\ job[s].op \in {"spend", "unspend"} /\ job[s] \in Jobs
  BY DEF CommitSpend, CommitUnspend, LInv, IInv, SessionInv, Knows, EntriesKnown
<1>2. /\ p \in Purchases /\ buyer \in Users /\ buyer = Buyer[p] /\ job[s].amt = Price[p]
      /\ bought[p] = (IF job[s].op = "spend" THEN "ABSENT" ELSE "COMPLETED")
  BY <1>0, <1>1 DEF BookKnows, Jobs
<1>3. TypeOK /\ Price[p] \in Nat
  BY <1>2, MoneyAssumption DEF LInv, IInv
<1>4. UNCHANGED <<payment, clawed, earned, request, granted, taken>>
  BY DEF CommitSpend, CommitUnspend, admin
<1>5. /\ \A q \in Purchases \ {p} : bought'[q] = bought[q]
      /\ balance'[u] = balance[u] + PriceOf(p, u) - PriceOf(p, u)'
      /\ PriceOf(p, u) \in Int /\ PriceOf(p, u)' \in Int
  <2>1. CASE CommitSpend(s)
    <3>1. /\ job[s].op = "spend" /\ bought' = [bought EXCEPT ![p] = "COMPLETED"]
          /\ balance' = [balance EXCEPT ![buyer] = balance[buyer] - Price[p]]
      BY <1>0, <2>1, <1>2 DEF CommitSpend
    <3>2. PriceOf(p, u) = 0 /\ PriceOf(p, u)' = (IF u = buyer THEN Price[p] ELSE 0)
      BY <1>2, <1>3, <3>1 DEF PriceOf, TypeOK
    <3>3. QED BY <1>2, <1>3, <3>1, <3>2 DEF TypeOK
  <2>2. CASE CommitUnspend(s)
    <3>1. /\ job[s].op = "unspend" /\ bought' = [bought EXCEPT ![p] = "REFUNDED"]
          /\ balance' = [balance EXCEPT ![buyer] = balance[buyer] + Price[p]]
      BY <1>0, <2>2, <1>2 DEF CommitUnspend
    <3>2. PriceOf(p, u)' = 0 /\ PriceOf(p, u) = (IF u = buyer THEN Price[p] ELSE 0)
      BY <1>2, <1>3, <3>1 DEF PriceOf, TypeOK
    <3>3. QED BY <1>2, <1>3, <3>1, <3>2 DEF TypeOK
  <2>3. QED BY <2>1, <2>2
<1>6. Spent(u)' = Spent(u) - PriceOf(p, u) + PriceOf(p, u)'
  BY <1>2, <1>5, SpentChange
<1>7. PICK more : more = PriceOf(p, u)' - PriceOf(p, u)
  OBVIOUS
<1>8. more \in Int /\ Spent(u)' = Spent(u) + more
      /\ balance'[u] = balance[u] + 0 + 0 + 0 - 0 - more - 0
  BY <1>3, <1>5, <1>6, <1>7, SumTypes DEF TypeOK
<1>9. /\ Deposited(u)' = Deposited(u) + 0 /\ Earnings(u)' = Earnings(u) + 0
      /\ Withdrawn(u)' = Withdrawn(u) + 0 /\ granted'[u] = granted[u] + 0 /\ taken'[u] = taken[u] + 0
  BY <1>3, <1>4, SumTypes, SumsStay DEF TypeOK
<1>10. Moves(u, 0, 0, 0, 0, more, 0)
  BY <1>8, <1>9 DEF Moves
<1>11. QED BY <1>10, LedgerMoves

LEMMA SumTypesNext ==
  ASSUME TypeOK', NEW u \in Users
  PROVE  Withdrawn(u)' \in Nat /\ Earnings(u)' \in Nat
<1>1. Withdrawn(u)' \in Nat
  <2>1. \A r \in Reserved(u)' : Asked'[r] \in Nat
    BY DEF Reserved, Asked, TypeOK, RequestRows, NoRequest
  <2>2. IsFiniteSet(Reserved(u)')
    BY RowsFinite DEF Reserved
  <2>3. SumFunctionOnSet(Asked', Reserved(u)') \in Nat
    BY <2>1, <2>2, SumType
  <2>4. QED BY <2>3 DEF Withdrawn
<1>2. Earnings(u)' \in Nat
  <2>1. \A d \in Invited(u) : earned'[d] \in Nat
    BY DEF Invited, TypeOK
  <2>2. IsFiniteSet(Invited(u))
    BY RowsFinite DEF Invited
  <2>3. SumFunctionOnSet(earned', Invited(u)) \in Nat
    BY <2>1, <2>2, SumType
  <2>4. QED BY <2>3 DEF Earnings, Invited
<1>3. QED BY <1>1, <1>2

(* A request and its rejection move as much on the wallet as on the books. *)
LEMMA RequestMoves ==
  ASSUME IInv, EntriesKnown, TypeOK', NEW s \in Sessions,
         CommitAsk(s) \/ CommitPay(s) \/ CommitReject(s), NEW u \in Users
  PROVE  balance'[u] = balance[u] - (Withdrawn(u)' - Withdrawn(u))
<1>0. PICK r, asker, amt : r = job[s].on /\ asker = job[s].user /\ amt = job[s].amt
  OBVIOUS
<1>1. BookKnows(s) /\ Knows(s) /\ job[s] \in Jobs /\ job[s].op \in {"ask", "pay", "reject"}
  BY DEF CommitAsk, CommitPay, CommitReject, IInv, SessionInv, Knows, EntriesKnown
<1>2. /\ r \in Requests /\ asker \in Users /\ amt \in Nat
      /\ job[s].op = "ask" => request[r] = NoRequest
      /\ job[s].op \in {"pay", "reject"} => /\ request[r].st = "PENDING"
                                            /\ request[r].user = asker /\ request[r].amt = amt
  BY <1>0, <1>1 DEF BookKnows, Jobs, Knows, AskKnows, ProcessKnows
<1>3. TypeOK /\ Nobody \notin Users
  BY PeopleAssumption DEF IInv
<1> DEFINE share == IF u = asker THEN amt ELSE 0
<1>5. /\ \A x \in Requests \ {r} : request'[x] = request[x]
      /\ balance'[u] = balance[u] + AskedOf(r, u) - AskedOf(r, u)'
      /\ AskedOf(r, u) \in Int /\ AskedOf(r, u)' \in Int
  <2>1. CASE CommitAsk(s)
    <3>1. /\ job[s].op = "ask" /\ request' = [request EXCEPT ![r] = [user |-> asker, st |-> "PENDING", amt |-> amt]]
          /\ balance' = [balance EXCEPT ![asker] = balance[asker] - amt]
      BY <1>0, <2>1 DEF CommitAsk
    <3>2. AskedOf(r, u) = 0
      BY <1>2, <1>3, <3>1 DEF AskedOf, NoRequest
    <3>3. request'[r] = [user |-> asker, st |-> "PENDING", amt |-> amt]
      BY <1>2, <1>3, <3>1 DEF TypeOK
    <3>4. AskedOf(r, u)' = share
      BY <1>2, <3>3 DEF AskedOf
    <3>5. QED BY <1>2, <1>3, <3>1, <3>2, <3>4 DEF TypeOK
  <2>2. CASE CommitPay(s)
    <3>1. /\ job[s].op = "pay" /\ request' = [request EXCEPT ![r] = [request[r] EXCEPT !.st = "PAID"]]
          /\ balance' = balance
      BY <1>0, <2>2 DEF CommitPay
    <3>2. request[r] \in RequestRows
      BY <1>2, <1>3, <3>1 DEF TypeOK, NoRequest
    <3>3. /\ request'[r].user = request[r].user /\ request'[r].amt = request[r].amt
          /\ request'[r].st = "PAID"
      BY <1>2, <1>3, <3>1, <3>2 DEF TypeOK, RequestRows
    <3>4. AskedOf(r, u) = AskedOf(r, u)' /\ AskedOf(r, u) \in Int
      BY <1>2, <3>1, <3>2, <3>3 DEF AskedOf, RequestRows
    <3>5. QED BY <1>2, <1>3, <3>1, <3>4 DEF TypeOK
  <2>3. CASE CommitReject(s)
    <3>1. /\ job[s].op = "reject" /\ request' = [request EXCEPT ![r] = [request[r] EXCEPT !.st = "REJECTED"]]
          /\ balance' = [balance EXCEPT ![asker] = balance[asker] + amt]
      BY <1>0, <2>3 DEF CommitReject
    <3>2. request[r] \in RequestRows
      BY <1>2, <1>3, <3>1 DEF TypeOK, NoRequest
    <3>3. request'[r].st = "REJECTED"
      BY <1>2, <1>3, <3>1, <3>2 DEF TypeOK, RequestRows
    <3>4. AskedOf(r, u)' = 0 /\ AskedOf(r, u) = share
      BY <1>2, <3>1, <3>2, <3>3 DEF AskedOf
    <3>5. QED BY <1>2, <1>3, <3>1, <3>4 DEF TypeOK
  <2>4. QED BY <2>1, <2>2, <2>3
<1>6. Withdrawn(u)' = Withdrawn(u) - AskedOf(r, u) + AskedOf(r, u)'
  BY <1>2, <1>3, <1>5, WithdrawnChange
<1>7. QED BY <1>3, <1>5, <1>6, SumTypes DEF TypeOK

LEMMA RequestLedger ==
  ASSUME LInv, TypeOK', NEW s \in Sessions, CommitAsk(s) \/ CommitPay(s) \/ CommitReject(s),
         NEW u \in Users
  PROVE  Ledger(u)'
<1>1. TypeOK
  BY DEF LInv, IInv
<1>2. UNCHANGED <<payment, clawed, earned, bought, granted, taken>>
  BY DEF CommitAsk, CommitPay, CommitReject, admin
<1>3. PICK more : more = Withdrawn(u)' - Withdrawn(u)
  OBVIOUS
<1>4. balance'[u] = balance[u] - more /\ balance'[u] \in Int
  BY <1>3, RequestMoves DEF LInv, TypeOK
<1>5. Withdrawn(u)' \in Nat
  BY SumTypesNext
<1>6. more \in Int /\ Withdrawn(u)' = Withdrawn(u) + more
      /\ balance'[u] = balance[u] + 0 + 0 + 0 - 0 - 0 - more
  BY <1>1, <1>3, <1>4, <1>5, SumTypes DEF TypeOK
<1>7. /\ Deposited(u)' = Deposited(u) + 0 /\ Earnings(u)' = Earnings(u) + 0
      /\ Spent(u)' = Spent(u) + 0 /\ granted'[u] = granted[u] + 0 /\ taken'[u] = taken[u] + 0
  BY <1>1, <1>2, SumTypes, SumsStay DEF TypeOK
<1>8. Moves(u, 0, 0, 0, 0, 0, more)
  BY <1>6, <1>7 DEF Moves
<1>9. QED BY <1>8, LedgerMoves

LEMMA RefundLedger ==
  ASSUME LInv, TypeOK', NEW s \in Sessions, CommitUndeposit(s), NEW u \in Users
  PROVE  Ledger(u)'
<1>0. PICK d, payer, amt : d = job[s].on /\ payer = job[s].user /\ amt = job[s].amt
  OBVIOUS
<1>1. BookKnows(s) /\ UndepositKnows(s) /\ job[s] \in Jobs /\ job[s].op = "undeposit"
  BY DEF CommitUndeposit, LInv, IInv, SessionInv, Knows, EntriesKnown
<1>2. /\ d \in Topups /\ d \in Payments /\ payer \in Users /\ payer = Payer[d] /\ amt \in {Sum[d], 0}
      /\ payment[d] = "COMPLETED"
  BY <1>0, <1>1 DEF BookKnows, Jobs, UndepositKnows
<1>3. TypeOK /\ clawed[d] = 0 /\ Sum[d] \in Nat /\ amt \in Nat
  BY <1>2, MoneyAssumption DEF LInv, IInv, Unclawed
<1>4. /\ payment' = [payment EXCEPT ![d] = "REFUNDED"] /\ clawed' = [clawed EXCEPT ![d] = amt]
      /\ balance' = [balance EXCEPT ![payer] = balance[payer] - amt]
      /\ UNCHANGED <<earned, bought, request, granted, taken>>
  BY <1>0 DEF CommitUndeposit, admin
<1>5. balance'[u] = balance[u] - (IF u = payer THEN amt ELSE 0)
  BY <1>2, <1>3, <1>4 DEF TypeOK
<1>6. /\ DepositOf(d, u) = (IF u = payer THEN Sum[d] ELSE 0)
      /\ DepositOf(d, u)' = (IF u = payer THEN Sum[d] - amt ELSE 0)
  BY <1>2, <1>3, <1>4 DEF DepositOf, TypeOK
<1>7. Deposited(u)' = Deposited(u) - DepositOf(d, u) + DepositOf(d, u)'
  BY <1>2, <1>3, <1>4, DepositChange DEF TypeOK
<1>8. PICK share : share = IF u = payer THEN - amt ELSE 0
  OBVIOUS
<1>9. share \in Int /\ Deposited(u)' = Deposited(u) + share
      /\ balance'[u] = balance[u] + share + 0 + 0 - 0 - 0 - 0
  BY <1>3, <1>5, <1>6, <1>7, <1>8, SumTypes DEF TypeOK
<1>10. /\ Earnings(u)' = Earnings(u) + 0 /\ Spent(u)' = Spent(u) + 0
      /\ Withdrawn(u)' = Withdrawn(u) + 0 /\ granted'[u] = granted[u] + 0 /\ taken'[u] = taken[u] + 0
  BY <1>3, <1>4, SumTypes, SumsStay DEF TypeOK
<1>11. Moves(u, share, 0, 0, 0, 0, 0)
  BY <1>9, <1>10 DEF Moves
<1>12. QED BY <1>11, LedgerMoves

LEMMA AdjustLedger ==
  ASSUME LInv, NEW s \in Sessions, CommitAdjust(s), NEW u \in Users
  PROVE  Ledger(u)'
<1>1. TypeOK /\ job[s].user \in Users /\ job[s].amt \in Int
  BY DEF CommitAdjust, LInv, IInv, SessionInv, Knows, Jobs
<1>2. /\ balance' = [balance EXCEPT ![job[s].user] = @ + job[s].amt]
      /\ granted' = [granted EXCEPT ![job[s].user] = IF job[s].amt > 0 THEN @ + job[s].amt ELSE @]
      /\ taken' = [taken EXCEPT ![job[s].user] = IF job[s].amt < 0 THEN @ - job[s].amt ELSE @]
      /\ UNCHANGED <<payment, clawed, earned, bought, request>>
  BY DEF CommitAdjust, books
<1>3. balance'[u] - balance[u] = (granted'[u] - granted[u]) - (taken'[u] - taken[u])
      /\ granted'[u] \in Int /\ taken'[u] \in Int /\ balance'[u] \in Int
  BY <1>1, <1>2 DEF TypeOK
<1>4. PICK grant, take : grant = granted'[u] - granted[u] /\ take = taken'[u] - taken[u]
  OBVIOUS
<1>5. grant \in Int /\ take \in Int /\ balance'[u] = balance[u] + 0 + 0 + grant - take - 0 - 0
      /\ granted'[u] = granted[u] + grant /\ taken'[u] = taken[u] + take
  BY <1>1, <1>3, <1>4 DEF TypeOK
<1>6. /\ Deposited(u)' = Deposited(u) + 0 /\ Earnings(u)' = Earnings(u) + 0
      /\ Spent(u)' = Spent(u) + 0 /\ Withdrawn(u)' = Withdrawn(u) + 0
  BY <1>1, <1>2, SumTypes, SumsStay
<1>7. Moves(u, 0, 0, grant, take, 0, 0)
  BY <1>5, <1>6 DEF Moves
<1>8. QED BY <1>7, LedgerMoves

LEMMA QuietLedger ==
  ASSUME LInv, UNCHANGED <<balance, books, granted, taken>>
  PROVE  LedgerReconciles'
<1> SUFFICES ASSUME NEW u \in Users PROVE Ledger(u)'
  BY DEF LedgerReconciles, Ledger, Deposited, Spent, Withdrawn
<1>1. QED BY SumsStay, LedgerIs DEF Ledger, LInv, books

LEMMA LInvStep == LInv /\ [Next]_vars => LInv'
<1> SUFFICES ASSUME LInv, [Next]_vars PROVE LInv'
  OBVIOUS
<1>1. IInv /\ IInv'
  BY IInvStep DEF LInv
<1>2. CASE UNCHANGED vars
  <2>1. EntriesKnown' /\ Unclawed'
    BY <1>2 DEF LInv, vars, books, EntriesKnown, BookKnows, Unclawed, Credit
  <2>2. LedgerReconciles'
    BY <1>2, QuietLedger DEF vars, admin
  <2>3. QED BY <1>1, <2>1, <2>2 DEF LInv
<1>3. ASSUME NEW s \in Sessions, BeginAny(s) \/ Work(s) \/ Rollback(s) PROVE LInv'
  <2>1. EntriesKnown' /\ Unclawed'
    BY <1>3, EntriesStep, UnclawedStep DEF LInv
  <2>2. CASE Commit(s) /\ ~CommitPay(s)
    <3>1. ASSUME NEW u \in Users PROVE Ledger(u)'
      BY <1>1, <2>2, SettleLedger, PurchaseLedger, RequestLedger, RefundLedger, AdjustLedger
         DEF Commit, IInv
    <3>2. LedgerReconciles'
      BY <3>1 DEF LedgerReconciles, Ledger, Deposited, Spent, Withdrawn
    <3>3. QED BY <1>1, <2>1, <3>2 DEF LInv
  <2>3. CASE CommitPay(s)
    <3>1. ASSUME NEW u \in Users PROVE Ledger(u)'
      BY <1>1, <2>3, RequestLedger DEF IInv
    <3>2. LedgerReconciles'
      BY <3>1 DEF LedgerReconciles, Ledger, Deposited, Spent, Withdrawn
    <3>3. QED BY <1>1, <2>1, <3>2 DEF LInv
  <2>4. CASE ~Commit(s)
    <3>1. UNCHANGED <<balance, books, granted, taken>>
      BY <1>3, <2>4 DEF Work, Hold, RefundWithoutClaw, Reward, GiveUp, Rollback, BeginAny, BeginSettle,
         BeginUndeposit, BeginSpend, BeginUnspend, BeginAsk, BeginProcess, BeginAdjust, Begin,
         books, admin
    <3>2. QED BY <1>1, <2>1, <3>1, QuietLedger DEF LInv
  <2>5. QED BY <2>2, <2>3, <2>4
<1>4. QED BY <1>2, <1>3 DEF Next

LEMMA InitLInv == Init => LInv
<1> SUFFICES ASSUME Init PROVE LInv
  OBVIOUS
<1>1. IInv
  BY InitIInv
<1>2. EntriesKnown /\ Unclawed
  BY DEF Init, EntriesKnown, Unclawed
<1>3. ASSUME NEW u \in Users PROVE Ledger(u)
  <2>1. Settled(u) = {} /\ Kept(u) = {} /\ Reserved(u) = {}
    <3>1. Nobody # u
      BY PeopleAssumption
    <3>2. QED BY <3>1, RowsAssumption DEF Init, Settled, Kept, Reserved, NoRequest
  <2>2. Deposited(u) = 0 /\ Spent(u) = 0 /\ Withdrawn(u) = 0
    BY <2>1, SumOfNone DEF Deposited, Spent, Withdrawn
  <2>3. Earnings(u) = 0
    <3>1. \A d \in Invited(u) : earned[d] = 0
      BY DEF Init, Invited
    <3>2. QED BY <3>1, SumOfZeros, RowsFinite DEF Earnings, Invited
  <2>4. QED BY <2>2, <2>3 DEF Init, Ledger
<1>4. LedgerReconciles
  BY <1>3, LedgerIs
<1>5. QED BY <1>1, <1>2, <1>4 DEF LInv

(* Whatever units of work interleave, every wallet holds exactly what its  *)
(* rows say: no lost update, no entry made twice or forgotten.             *)
THEOREM LedgerHolds == Spec => []LedgerReconciles
<1>1. LInv => LedgerReconciles
  BY DEF LInv
<1>2. QED BY <1>1, InitLInv, LInvStep, PTL DEF Spec

-----------------------------------------------------------------------------
(* Withdrawals stay within the earnings *)

(* What a session asked for when it read available_minor still fits.       *)
Fits(s) ==
    pc[s] # "idle" /\ job[s].op = "ask" =>
        s \in Askers /\ job[s].amt <= Earnings(job[s].user) - Withdrawn(job[s].user)

AInv ==
    /\ IInv /\ EntriesKnown
    /\ \A u \in Users : Withdrawn(u) <= Earnings(u)
    /\ \A s \in Sessions : Fits(s)

(* available_minor counts what the books reserve. *)
LEMMA HeldIsWithdrawn == ASSUME TypeOK, NEW u \in Users PROVE Held(u) = Withdrawn(u)
<1>1. \A r \in Requests : request[r].user = u =>
          (request[r].st \in HeldStatuses <=> request[r].st # "REJECTED")
  BY PeopleAssumption DEF TypeOK, RequestRows, NoRequest, HeldStatuses
<1>2. {r \in Requests : request[r].user = u /\ request[r].st \in HeldStatuses} = Reserved(u)
  BY <1>1 DEF Reserved
<1>3. QED BY <1>2 DEF Held, Withdrawn

(* Nothing takes a commission back. *)
LEMMA EarningsGrow ==
  ASSUME IInv, TypeOK', NEW s \in Sessions, BeginAny(s) \/ Work(s) \/ Rollback(s), NEW u \in Users
  PROVE  Earnings(u)' >= Earnings(u)
<1>0. TypeOK
  BY DEF IInv
<1>1. CASE CommitSettle(s)
  <2>1. PICK d, reward : d = job[s].on /\ reward = IF pc[s] = "rewarded" THEN Commission(d) ELSE 0
    OBVIOUS
  <2>2. d \in Payments /\ payment[d] = "PENDING"
    BY <1>1, <2>1 DEF CommitSettle, IInv, SessionInv, Knows, SettleKnows
  <2>3. reward \in Nat
    BY <2>1, <2>2, CommissionBounded, MoneyAssumption
  <2>4. earned' = [earned EXCEPT ![d] = earned[d] + reward]
    BY <1>1, <2>1 DEF CommitSettle
  <2>5. Earnings(u)' = Earnings(u) - EarningOf(d, u) + EarningOf(d, u)'
    BY <1>0, <2>2, <2>4, EarningChange DEF TypeOK
  <2>6. EarningOf(d, u)' >= EarningOf(d, u) /\ EarningOf(d, u) \in Int /\ EarningOf(d, u)' \in Int
    BY <1>0, <2>2, <2>3, <2>4 DEF EarningOf, TypeOK
  <2>7. QED BY <1>0, <2>5, <2>6, SumTypes
<1>2. CASE ~CommitSettle(s)
  <2>1. UNCHANGED earned
    BY <1>2 DEF Work, Hold, RefundWithoutClaw, Reward, GiveUp, Rollback, BeginAny, BeginSettle,
       BeginUndeposit, BeginSpend, BeginUnspend, BeginAsk, BeginProcess, BeginAdjust, Begin,
       Commit, CommitSpend, CommitAsk, CommitPay, CommitReject, CommitUndeposit, CommitUnspend,
       CommitAdjust, books
  <2>2. QED BY <1>0, <2>1, SumsStay, SumTypes
<1>3. QED BY <1>1, <1>2

(* Only a new request adds to what is withdrawn. *)
LEMMA WithdrawnFalls ==
  ASSUME IInv, EntriesKnown, TypeOK', NEW s \in Sessions, BeginAny(s) \/ Work(s) \/ Rollback(s),
         ~CommitAsk(s), NEW u \in Users
  PROVE  Withdrawn(u)' <= Withdrawn(u)
<1>0. TypeOK /\ Withdrawn(u) \in Nat /\ Withdrawn(u)' \in Nat
  BY SumTypes, SumTypesNext DEF IInv
<1>1. CASE CommitPay(s) \/ CommitReject(s)
  <2>1. balance'[u] = balance[u] - (Withdrawn(u)' - Withdrawn(u))
    BY <1>1, RequestMoves
  <2>2. balance'[u] >= balance[u] /\ balance[u] \in Int /\ balance'[u] \in Int
    <3>1. CASE CommitPay(s)
      BY <1>0, <3>1 DEF CommitPay, TypeOK
    <3>2. CASE CommitReject(s)
      <4>1. job[s].user \in Users /\ job[s].amt \in Nat
        BY <3>2 DEF CommitReject, IInv, SessionInv, Knows, ProcessKnows, Jobs
      <4>2. QED BY <1>0, <3>2, <4>1 DEF CommitReject, TypeOK
    <3>3. QED BY <1>1, <3>1, <3>2
  <2>3. QED BY <1>0, <2>1, <2>2
<1>2. CASE ~CommitPay(s) /\ ~CommitReject(s)
  <2>1. UNCHANGED request
    BY <1>2 DEF Work, Hold, RefundWithoutClaw, Reward, GiveUp, Rollback, BeginAny, BeginSettle,
       BeginUndeposit, BeginSpend, BeginUnspend, BeginAsk, BeginProcess, BeginAdjust, Begin,
       Commit, CommitSpend, CommitSettle, CommitUndeposit, CommitUnspend, CommitAdjust, books
  <2>2. QED BY <1>0, <2>1, SumsStay
<1>3. QED BY <1>1, <1>2

LEMMA AskFits ==
  ASSUME IInv, TypeOK', NEW s \in Sessions, BeginAny(s)
  PROVE  Fits(s)'
<1> USE DEF IInv
<1>1. ASSUME NEW r \in Requests, NEW u \in Users, BeginAsk(s, r, u) PROVE Fits(s)'
  <2>1. PICK amt \in MinWithdrawal .. balance[u] : amt = Available(u) /\ Begin(s, r, u, "ask", amt)
    BY <1>1 DEF BeginAsk
  <2>2. /\ balance[u] \in Int /\ Earnings(u) \in Nat /\ Withdrawn(u) \in Nat
        /\ Held(u) = Withdrawn(u) /\ amt \in Int /\ amt > 0
    BY <2>1, SumTypes, HeldIsWithdrawn, MoneyAssumption DEF TypeOK
  <2>3. amt <= Earnings(u) - Withdrawn(u)
    BY <2>1, <2>2 DEF Available, Lesser, Greater
  <2>4. Earnings(u)' = Earnings(u) /\ Withdrawn(u)' = Withdrawn(u)
    BY <2>1, SumsStay DEF Begin, books
  <2>5. job'[s].amt = amt /\ job'[s].user = u
    <3>1. job'[s] = [op |-> "ask", on |-> r, user |-> u, amt |-> amt]
      BY <2>1 DEF Begin, TypeOK
    <3>2. QED BY <3>1
  <2>6. QED BY <1>1, <2>3, <2>4, <2>5 DEF BeginAsk, Fits
<1>2. ASSUME NEW x, NEW u, NEW op, NEW amt, Begin(s, x, u, op, amt), op # "ask" PROVE Fits(s)'
  <2>1. job'[s] = [op |-> op, on |-> x, user |-> u, amt |-> amt]
    BY <1>2 DEF Begin, TypeOK
  <2>2. job'[s].op = op
    BY <2>1
  <2>3. QED BY <1>2, <2>2 DEF Fits
<1>3. ASSUME NEW u, NEW amt, BeginAdjust(s, u, amt) PROVE Fits(s)'
  <2>1. job'[s] = [op |-> "adjust", on |-> Nobody, user |-> u, amt |-> amt]
    BY <1>3 DEF BeginAdjust, TypeOK
  <2>2. job'[s].op = "adjust"
    BY <2>1
  <2>3. QED BY <2>2 DEF Fits
<1>4. QED BY <1>1, <1>2, <1>3 DEF BeginAny, BeginSettle, BeginUndeposit, BeginSpend, BeginUnspend,
             BeginProcess

LEMMA AInvStep ==
  ASSUME \A s, t \in Askers : s = t, AInv, [Next]_vars PROVE AInv'
<1>1. IInv /\ IInv' /\ TypeOK /\ TypeOK'
  BY IInvStep DEF AInv, IInv
<1>2. CASE UNCHANGED vars
  <2>1. EntriesKnown'
    BY <1>2 DEF AInv, vars, books, EntriesKnown, BookKnows, Credit
  <2>2. \A u \in Users : Withdrawn(u)' = Withdrawn(u) /\ Earnings(u)' = Earnings(u)
    BY <1>2, SumsStay DEF vars, books
  <2>3. \A s \in Sessions : pc[s] # "idle" /\ job[s].op = "ask" => job[s].user \in Users
    BY <1>1 DEF IInv, SessionInv, Knows, Jobs
  <2>4. ASSUME NEW s \in Sessions PROVE Fits(s)'
    BY <1>2, <2>2, <2>3 DEF AInv, Fits, vars
  <2>5. QED BY <1>1, <2>1, <2>2, <2>4 DEF AInv
<1>3. ASSUME NEW s \in Sessions, BeginAny(s) \/ Work(s) \/ Rollback(s) PROVE AInv'
  <2>1. EntriesKnown' /\ Undisturbed(s)
    BY <1>3, EntriesStep, OthersUndisturbed DEF AInv
  <2>2. \A u \in Users : /\ Withdrawn(u) \in Nat /\ Withdrawn(u)' \in Nat
                         /\ Earnings(u) \in Nat /\ Earnings(u)' \in Nat
                         /\ Earnings(u)' >= Earnings(u)
    BY <1>1, <1>3, SumTypes, SumTypesNext, EarningsGrow
  <2>3. CASE CommitAsk(s)
    <3>1. Knows(s) /\ job[s].op = "ask" /\ pc[s] = "held" /\ Fits(s) /\ pc'[s] = "idle"
      BY <1>1, <2>3 DEF CommitAsk, AInv, IInv, SessionInv, Release, TypeOK
    <3>2. job[s].user \in Users /\ job[s].amt \in Nat /\ s \in Askers
      BY <3>1 DEF Knows, AskKnows, Jobs, Fits
    <3>3. ASSUME NEW u \in Users PROVE Withdrawn(u)' <= Earnings(u)'
      <4>1. balance'[u] = balance[u] - (Withdrawn(u)' - Withdrawn(u))
        BY <1>1, <2>3, RequestMoves DEF AInv
      <4>2. balance'[u] = balance[u] - (IF u = job[s].user THEN job[s].amt ELSE 0)
        BY <1>1, <2>3, <3>2 DEF CommitAsk, TypeOK
      <4>3. Withdrawn(u)' = Withdrawn(u) + (IF u = job[s].user THEN job[s].amt ELSE 0)
        BY <1>1, <2>2, <3>2, <4>1, <4>2 DEF TypeOK
      <4>4. (IF u = job[s].user THEN job[s].amt ELSE 0) <= Earnings(u) - Withdrawn(u)
        BY <2>2, <3>1, <3>2 DEF Fits, AInv
      <4>5. QED BY <2>2, <3>2, <4>3, <4>4
    <3>4. ASSUME NEW t \in Sessions PROVE Fits(t)'
      <4>1. CASE t = s
        BY <3>1, <4>1 DEF Fits
      <4>2. CASE t # s
        BY <2>1, <3>2, <4>2 DEF Fits, AInv, Undisturbed
      <4>3. QED BY <4>1, <4>2
    <3>5. QED BY <1>1, <2>1, <3>3, <3>4 DEF AInv
  <2>4. CASE ~CommitAsk(s)
    <3>1. \A u \in Users : Withdrawn(u)' <= Withdrawn(u)
      BY <1>1, <1>3, <2>4, WithdrawnFalls DEF AInv
    <3>2. \A u \in Users : Withdrawn(u)' <= Earnings(u)'
      BY <2>2, <3>1 DEF AInv
    <3>3. ASSUME NEW t \in Sessions, Fits(t), UNCHANGED <<pc[t], job[t]>> PROVE Fits(t)'
      <4>1. pc[t] # "idle" /\ job[t].op = "ask" => job[t].user \in Users /\ job[t].amt \in Nat
        BY <1>1 DEF IInv, SessionInv, Knows, AskKnows, Jobs
      <4>2. QED BY <2>2, <3>1, <3>3, <4>1 DEF Fits
    <3>4. ASSUME NEW t \in Sessions PROVE Fits(t)'
      <4>1. CASE t # s
        BY <2>1, <3>3, <4>1 DEF Undisturbed, AInv
      <4>2. CASE t = s /\ BeginAny(s)
        BY <1>1, <4>2, AskFits
      <4>3. CASE t = s /\ (Hold(s) \/ Reward(s))
        <5>1. Fits(s) /\ pc[s] # "idle" /\ job' = job
          BY <4>3 DEF AInv, Hold, Reward
        <5>2. job[s].op = "ask" => job[s].user \in Users /\ job[s].amt \in Nat
          BY <1>1, <5>1 DEF IInv, SessionInv, Knows, AskKnows, Jobs
        <5>3. QED BY <2>2, <3>1, <4>3, <5>1, <5>2 DEF Fits
      <4>4. CASE t = s /\ RefundWithoutClaw(s)
        <5>1. job[s].op = "undeposit" /\ job[s] \in Jobs
          BY <1>1, <4>4 DEF RefundWithoutClaw, IInv, SessionInv, Knows
        <5>2. job'[s] = [job[s] EXCEPT !.amt = 0]
          BY <1>1, <4>4 DEF RefundWithoutClaw, ClawNothing, TypeOK
        <5>3. job'[s].op = "undeposit"
          BY <5>1, <5>2 DEF Jobs
        <5>4. QED BY <4>4, <5>3 DEF Fits
      <4>5. CASE t = s /\ (Commit(s) \/ GiveUp(s) \/ Rollback(s))
        <5>1. pc'[s] = "idle"
          BY <1>1, <4>5 DEF Commit, CommitSettle, CommitSpend, CommitAsk, CommitPay, CommitReject,
             CommitUndeposit, CommitUnspend, CommitAdjust, GiveUp, Rollback, Release, TypeOK
        <5>2. QED BY <4>5, <5>1 DEF Fits
      <4>6. QED BY <1>3, <4>1, <4>2, <4>3, <4>4, <4>5 DEF Work
    <3>5. QED BY <1>1, <2>1, <3>2, <3>4 DEF AInv
  <2>5. QED BY <2>3, <2>4
<1>4. QED BY <1>2, <1>3 DEF Next

(* With one withdrawal chat at a time, what is withdrawn or reserved never *)
(* exceeds what referrals earned.  (With two, it does: available_minor is  *)
(* read before any lock.)                                                  *)
THEOREM EarningsCover ==
  ASSUME \A s, t \in Askers : s = t
  PROVE  Spec => []HoldsWithinEarnings
<1>1. Init => AInv
  <2> SUFFICES ASSUME Init PROVE AInv
    OBVIOUS
  <2>1. IInv /\ EntriesKnown /\ \A s \in Sessions : Fits(s)
    BY InitIInv DEF Init, EntriesKnown, Fits
  <2>2. ASSUME NEW u \in Users PROVE Withdrawn(u) <= Earnings(u)
    <3>1. Reserved(u) = {}
      BY PeopleAssumption DEF Init, Reserved, NoRequest
    <3>2. Withdrawn(u) = 0 /\ Earnings(u) \in Nat
      BY <2>1, <3>1, SumOfNone, SumTypes DEF Withdrawn, IInv
    <3>3. QED BY <3>2
  <2>3. QED BY <2>1, <2>2 DEF AInv
<1>2. AInv /\ [Next]_vars => AInv'
  BY AInvStep
<1>3. AInv => HoldsWithinEarnings
  BY DEF AInv, HoldsWithinEarnings, Withdrawn
<1>4. QED BY <1>1, <1>2, <1>3, PTL DEF Spec
=============================================================================
