----------------------- MODULE PaymentPipelineProofs -----------------------
(***************************************************************************)
(* Machine-checked proofs about PaymentPipeline, for any number of         *)
(* invoices, workers, pollers and refunds, any sums and any bound on the   *)
(* failures.  The argument: a report is authentic when it says what the    *)
(* provider did, and stays so because a charge is final; only the owner of *)
(* a row lock changes the row, so what a settlement decided under the lock *)
(* still holds when it commits.                                            *)
(***************************************************************************)
EXTENDS PaymentPipeline, TLAPS

(* Every actor that is not idle has a job in hand. *)
HandsFull == \A a \in Actors : pc[a] # "idle" => hand[a] \in Jobs

(* A paid invoice was charged a sum its payer could choose. *)
PaidIsCharged == \A p \in Payments : prov[p] = "paid" => charge[p] \in Chargeable(p)

TInv == TypeOK /\ HandsFull /\ PaidIsCharged

LEMMA AgeGrows ==
  ASSUME NEW x \in Young .. Expired, x < Expired PROVE x + 1 \in Young .. Expired
  BY DEF Young, Expired

LEMMA NextRunIsJob ==
  ASSUME NEW j \in Jobs, ~LastRun(j)
  PROVE  [j EXCEPT !.run = @ + 1] \in Jobs
<1>1. j.run \in 1 .. MaxRuns /\ j.run # MaxRuns
  BY DEF Jobs, LastRun
<1>2. j.run + 1 \in 1 .. MaxRuns
  BY <1>1, BoundsAssumption
<1>3. QED BY <1>2 DEF Jobs

LEMMA InitTInv == Init => TInv
  BY AmountsAssumption, BoundsAssumption
     DEF Init, TInv, TypeOK, HandsFull, PaidIsCharged, Statuses, Young, Expired

LEMMA TInvStep == TInv /\ [Next]_vars => TInv'
<1> SUFFICES ASSUME TInv, [Next]_vars PROVE TInv'
  OBVIOUS
<1> USE AmountsAssumption, BoundsAssumption DEF TInv, TypeOK, HandsFull,
        PaidIsCharged, Statuses, Young, Swept, Closing, Expired, rowVars, effectVars, provVars, actorVars, Pay
<1>1. ASSUME NEW p \in Payments, Checkout(p) PROVE TInv'
  BY <1>1 DEF Checkout
<1>2. ASSUME NEW p \in Payments, GrowOld(p) PROVE TInv'
  <2>0. age[p] \in Young .. Expired /\ age[p] < Expired
    BY <1>2 DEF GrowOld
  <2>1. age[p] + 1 \in Young .. Expired
    BY <2>0, AgeGrows
  <2>2. age' \in [Payments -> Young .. Expired]
    BY <1>2, <2>1 DEF GrowOld
  <2>3. QED BY <1>2, <2>2 DEF GrowOld
<1>3. ASSUME NEW p \in Payments, NEW c \in Chargeable(p), ProviderCharge(p, c) PROVE TInv'
  BY <1>3 DEF ProviderCharge, Chargeable, Reported, Reports
<1>4. ASSUME NEW p \in Payments, ProviderDecline(p) PROVE TInv'
  BY <1>4 DEF ProviderDecline, Reports
<1>5. ASSUME NEW n \in notices, WebhookEnqueue(n) PROVE TInv'
  <2>1. [pay |-> n.pay, st |-> n.st, amt |-> n.amt, run |-> 1] \in Jobs /\ n.pay \in Payments
    BY DEF Reports, Jobs
  <2>2. QED BY <1>5, <2>1 DEF WebhookEnqueue, PersistExternalId, Fault
<1>6. ASSUME NEW n \in notices, WebhookEnqueueFails(n) PROVE TInv'
  BY <1>6 DEF WebhookEnqueueFails, PersistExternalId, Fault, Reports
<1>7. ASSUME NEW w \in Workers, Pickup(w) PROVE TInv'
  <2>1. Head(queue) \in Jobs /\ Tail(queue) \in Seq(Jobs)
    BY <1>7 DEF Pickup
  <2>2. QED BY <1>7, <2>1 DEF Pickup, Idle, Actors
<1>8. ASSUME NEW p \in Payments, NEW a \in Actors, Poll(a, p) PROVE TInv'
  <2>1. Polled(p) \subseteq Jobs
    BY DEF Polled, Reported, Jobs, Chargeable
  <2>2. QED BY <1>8, <2>1 DEF Poll, Idle
<1>9. ASSUME NEW a \in Actors, Lock(a) PROVE TInv'
  BY <1>9 DEF Lock, Jobs
<1>10. ASSUME NEW a \in Actors, Duplicate(a) PROVE TInv'
  BY <1>10 DEF Duplicate, Unlock, Finish
<1>11. ASSUME NEW a \in Actors, Reject(a) PROVE TInv'
  BY <1>11 DEF Reject, Unlock, Outcome, Jobs
<1>12. ASSUME NEW a \in Actors, Fulfill(a) PROVE TInv'
  <2>1. Pay(a) \in Payments
    BY <1>12 DEF Fulfill, Jobs
  <2>2. panel' \in [Payments -> Nat]
    BY <1>12, <2>1 DEF Fulfill, PanelWrite
  <2>3. QED BY <1>12, <2>2 DEF Fulfill
<1>13. ASSUME NEW a \in Actors, Commit(a) PROVE TInv'
  <2>1. SettledAmount(hand[a], amount[Pay(a)]) \in Received \cup {Invoice}
    BY <1>13 DEF Commit, SettledAmount, Jobs
  <2>2. Pay(a) \in Payments
    BY <1>13 DEF Commit, Jobs
  <2>3. SettledAmount(hand[a], amount[Pay(a)]) \in Nat
    BY <2>1
  <2>4. effect' \in [Payments -> Nat] /\ commission' \in [Payments -> Nat]
    BY <1>13, <2>2, <2>3 DEF Commit
  <2>5. QED BY <1>13, <2>1, <2>2, <2>4 DEF Commit, Unlock
<1>14. ASSUME NEW a \in Actors, AfterSettled(a) PROVE TInv'
  BY <1>14 DEF AfterSettled, Message, Finish, Jobs
<1>15. ASSUME NEW w \in Workers, TransientError(w) PROVE TInv'
  <2>1. w \in Actors /\ hand[w] \in Jobs
    BY <1>15 DEF TransientError, Actors
  <2>2. ~LastRun(hand[w]) => [hand[w] EXCEPT !.run = @ + 1] \in Jobs
    BY <2>1, NextRunIsJob
  <2>3. lock' \in [Payments -> Actors \cup {Nobody}] /\ faults' \in 0 .. MaxFaults
    BY <1>15, <2>1 DEF TransientError, Unlock, Fault
  <2>4. CASE attempt[w] < MaxAttempts /\ attempt' = [attempt EXCEPT ![w] = @ + 1]
             /\ pc' = [pc EXCEPT ![w] = "start"] /\ UNCHANGED <<hand, queue>>
    <3>1. attempt[w] + 1 \in 1 .. MaxAttempts
      BY <2>1, <2>4
    <3>2. attempt' \in [Actors -> 1 .. MaxAttempts]
      BY <2>1, <2>4, <3>1
    <3>3. QED BY <1>15, <2>1, <2>3, <2>4, <3>2 DEF TransientError
  <2>5. CASE Finish(w) /\ queue' = IF LastRun(hand[w]) THEN queue
                                    ELSE Append(queue, [hand[w] EXCEPT !.run = @ + 1])
    <3>1. queue' \in Seq(Jobs)
      BY <2>2, <2>5
    <3>2. QED BY <1>15, <2>1, <2>3, <2>5, <3>1 DEF TransientError, Finish
  <2>6. QED BY <1>15, <2>4, <2>5 DEF TransientError, TriesLeft
<1>16. ASSUME NEW w \in Workers, AfterFails(w) PROVE TInv'
  <2>1. w \in Actors /\ hand[w] \in Jobs
    BY <1>16 DEF AfterFails, Actors
  <2>2. ~LastRun(hand[w]) => [hand[w] EXCEPT !.run = @ + 1] \in Jobs
    BY <2>1, NextRunIsJob
  <2>3. QED BY <1>16, <2>1, <2>2 DEF AfterFails, Finish, Fault
<1>17. ASSUME NEW w \in Workers, DeadLetter(w) PROVE TInv'
  <2>1. w \in Actors /\ Pay(w) \in Payments
    BY <1>17 DEF DeadLetter, Actors, Jobs
  <2>2. PICK lost \in {0, 1} :
            /\ lost < faults
            /\ faults' = faults - 1 - lost
            /\ \E heard \in Heard(alerted[Pay(w)], IF lost = 0 THEN "sent" ELSE "lost") :
                  alerted' = [alerted EXCEPT ![Pay(w)] = heard]
    BY <1>17 DEF DeadLetter
  <2>3. faults' \in 0 .. MaxFaults
    BY <2>2, BoundsAssumption
  <2>4. alerted[Pay(w)] \in {"no", "sent", "lost"}
    BY <2>1
  <2>5. Heard(alerted[Pay(w)], IF lost = 0 THEN "sent" ELSE "lost") \subseteq {"sent", "lost"}
    BY <2>4 DEF Heard
  <2>6. alerted' \in [Payments -> {"no", "sent", "lost"}]
    BY <2>2, <2>5
  <2>7. QED BY <1>17, <2>1, <2>3, <2>6 DEF DeadLetter, Unlock, Finish
<1>18. ASSUME NEW a \in Actors, PollerFails(a) PROVE TInv'
  BY <1>18 DEF PollerFails, Unlock, Finish, Fault
<1>19. ASSUME NEW a \in Actors, Crash(a) PROVE TInv'
  BY <1>19 DEF Crash, Unlock, Finish, Fault
<1>20. ASSUME NEW p \in Payments, NEW a \in Admins, RefundCall(a, p) PROVE TInv'
  <2>1. a \in Actors
    BY DEF Actors
  <2>2. [pay |-> p, st |-> "COMPLETED", amt |-> NoAmount, run |-> 1] \in Jobs
    BY DEF Jobs
  <2>3. refunds' \in [Payments -> Nat]
    BY <1>20 DEF RefundCall
  <2>4. QED BY <1>20, <2>1, <2>2, <2>3 DEF RefundCall, Idle
<1>21. ASSUME NEW a \in Admins, RefundCommit(a) PROVE TInv'
  BY <1>21 DEF RefundCommit, Unlock, Finish, Jobs, Actors
<1>22. CASE UNCHANGED vars
  BY <1>22 DEF vars
<1>23. QED
  BY <1>1, <1>2, <1>3, <1>4, <1>5, <1>6, <1>7, <1>8, <1>9, <1>10, <1>11, <1>12, <1>13,
     <1>14, <1>15, <1>16, <1>17, <1>18, <1>19, <1>20, <1>21, <1>22
     DEF Next, Outside, Webhook, Process, SweepPoll, CheckPoll, Actors
(* The types of all variables, for every value of the constants. *)
THEOREM TypeCorrect == Spec => []TypeOK
<1>1. TInv => TypeOK
  BY DEF TInv
<1>2. QED BY <1>1, InitTInv, TInvStep, PTL DEF Spec

-----------------------------------------------------------------------------
(* The inductive invariant *)

(* A report says what the provider did; only retryable invoices can be     *)
(* reported canceled and be paid later.                                    *)
Says(j, pr, ch) ==
    /\ j.st = "COMPLETED" =>
          /\ pr[j.pay] = "paid"
          /\ ch[j.pay] = IF j.amt = NoAmount THEN Invoice ELSE j.amt
    /\ j.st = "CANCELED" => pr[j.pay] = "closed" \/ j.pay \in Retryable

DeclinedIsRetryable == \A p \in Payments : prov[p] = "declined" => p \in Retryable
NoticesAuthentic == \A n \in notices : Says(n, prov, charge)
QueueAuthentic == \A i \in 1 .. Len(queue) : Says(queue[i], prov, charge)
Settling(a) == pc[a] \in {"start", "locked", "served", "settled"}
HandsAuthentic == \A a \in Actors : Settling(a) => Says(hand[a], prov, charge)

ReportsAuthentic ==
    DeclinedIsRetryable /\ NoticesAuthentic /\ QueueAuthentic /\ HandsAuthentic

LockOwned ==
    \A a \in Actors : pc[a] \in {"locked", "served", "refunding"} => lock[Pay(a)] = a

(* What was decided under the lock still holds when it is committed. *)
DecisionHolds ==
    \A a \in Actors :
        /\ pc[a] = "served" => /\ status[Pay(a)] = "PENDING"
                               /\ Outcome(hand[a], amount[Pay(a)]) = "COMPLETED"
        /\ pc[a] = "refunding" => status[Pay(a)] = "COMPLETED"

IInv == TInv /\ ReportsAuthentic /\ LockOwned /\ DecisionHolds /\ EffectMatchesRow
(* A charge and a closed invoice are final. *)
LEMMA ProviderIsFinal ==
  ASSUME TInv, [Next]_vars, NEW p \in Payments
  PROVE  /\ prov[p] \in {"paid", "closed"} => prov'[p] = prov[p] /\ charge'[p] = charge[p]
         /\ prov'[p] = "declined" => prov[p] = "declined" \/ p \in Retryable
<1> DEFINE Goal ==
       /\ prov[p] \in {"paid", "closed"} => prov'[p] = prov[p] /\ charge'[p] = charge[p]
       /\ prov'[p] = "declined" => prov[p] = "declined" \/ p \in Retryable
<1> USE DEF TInv, TypeOK, provVars
<1>1. ASSUME NEW q \in Payments, NEW c \in Chargeable(q), ProviderCharge(q, c)
      PROVE  Goal
  BY <1>1 DEF ProviderCharge
<1>2. ASSUME NEW q \in Payments, ProviderDecline(q) PROVE Goal
  BY <1>2 DEF ProviderDecline
<1>3. CASE UNCHANGED provVars
  BY <1>3
<1>4. QED
  BY <1>1, <1>2, <1>3 DEF Next, Outside, Webhook, Process, SweepPoll, CheckPoll, Checkout,
     GrowOld, WebhookEnqueue, WebhookEnqueueFails, Lock, Duplicate, Reject, Fulfill, Commit,
     AfterSettled, Pickup, TransientError, AfterFails, DeadLetter, PollerFails, Crash, Poll,
     RefundCall, RefundCommit, vars

LEMMA AuthenticStays ==
  ASSUME TInv, [Next]_vars, NEW j \in Reports \cup Jobs, Says(j, prov, charge)
  PROVE  Says(j, prov', charge')
<1>1. j.pay \in Payments
  BY DEF Reports, Jobs
<1>2. prov[j.pay] \in {"paid", "closed"} =>
          prov'[j.pay] = prov[j.pay] /\ charge'[j.pay] = charge[j.pay]
  BY <1>1, ProviderIsFinal
<1>3. QED BY <1>2 DEF Says

(* What the provider itself reports is what it did. *)
LEMMA NoticesStep ==
  ASSUME TInv, NoticesAuthentic, [Next]_vars PROVE NoticesAuthentic'
<1> USE DEF NoticesAuthentic
<1>1. \A n \in notices : Says(n, prov', charge')
  BY AuthenticStays DEF TInv, TypeOK
<1>2. CASE notices' \subseteq notices
  BY <1>1, <1>2
<1>3. ASSUME NEW p \in Payments, NEW c \in Chargeable(p), ProviderCharge(p, c)
      PROVE  NoticesAuthentic'
  <2>1. PICK amt \in Reported(p, c) :
            notices' = notices \cup {[pay |-> p, st |-> "COMPLETED", amt |-> amt]}
    BY <1>3 DEF ProviderCharge
  <2>2. prov'[p] = "paid" /\ charge'[p] = c
    BY <1>3 DEF ProviderCharge, TInv, TypeOK
  <2>3. c = IF amt = NoAmount THEN Invoice ELSE amt
    BY AmountsAssumption DEF Reported, Chargeable
  <2>4. Says([pay |-> p, st |-> "COMPLETED", amt |-> amt], prov', charge')
    BY <2>2, <2>3 DEF Says
  <2>5. QED BY <1>1, <2>1, <2>4
<1>4. ASSUME NEW p \in Payments, ProviderDecline(p) PROVE NoticesAuthentic'
  <2>1. Says([pay |-> p, st |-> "CANCELED", amt |-> NoAmount], prov', charge')
    BY <1>4 DEF ProviderDecline, Says, TInv, TypeOK
  <2>2. QED BY <1>1, <1>4, <2>1 DEF ProviderDecline
<1>5. QED
  BY <1>2, <1>3, <1>4 DEF Next, Outside, Webhook, Process, SweepPoll, CheckPoll, Checkout,
     GrowOld, WebhookEnqueue, WebhookEnqueueFails, Lock, Duplicate, Reject, Fulfill, Commit,
     AfterSettled, Pickup, TransientError, AfterFails, DeadLetter, PollerFails, Crash, Poll,
     RefundCall, RefundCommit, vars

LEMMA AppendAuthentic ==
  ASSUME TInv, QueueAuthentic, [Next]_vars, NEW j \in Jobs, Says(j, prov', charge'),
         queue' = Append(queue, j)
  PROVE  QueueAuthentic'
<1>1. queue \in Seq(Jobs)
  BY DEF TInv, TypeOK
<1>2. \A i \in 1 .. Len(queue) : queue[i] \in Jobs /\ Says(queue[i], prov', charge')
  BY <1>1, AuthenticStays DEF QueueAuthentic
<1>3. \A i \in 1 .. Len(queue') : \/ i \in 1 .. Len(queue) /\ queue'[i] = queue[i]
                                \/ queue'[i] = j
  BY <1>1
<1>4. QED
  <2> SUFFICES ASSUME NEW i \in 1 .. Len(queue') PROVE Says(queue'[i], prov', charge')
    BY DEF QueueAuthentic
  <2>1. CASE i \in 1 .. Len(queue) /\ queue'[i] = queue[i]
    BY <2>1, <1>2 DEF Says
  <2>2. CASE queue'[i] = j
    BY <2>2 DEF Says
  <2>3. QED BY <1>3, <2>1, <2>2

(* A requeued job repeats an authentic report. *)
LEMMA RequeueAuthentic ==
  ASSUME TInv, QueueAuthentic, HandsAuthentic, [Next]_vars, NEW w \in Actors, Settling(w),
         queue' = IF LastRun(hand[w]) THEN queue
                  ELSE Append(queue, [hand[w] EXCEPT !.run = @ + 1])
  PROVE  QueueAuthentic'
<1>1. hand[w] \in Jobs /\ Says(hand[w], prov', charge')
  BY AuthenticStays DEF TInv, HandsFull, HandsAuthentic, Settling
<1>2. CASE LastRun(hand[w])
  BY <1>2, AuthenticStays DEF QueueAuthentic, TInv, TypeOK
<1>3. CASE ~LastRun(hand[w])
  <2> DEFINE j == [hand[w] EXCEPT !.run = @ + 1]
  <2>1. j \in Jobs
    BY <1>1, <1>3, NextRunIsJob
  <2>2. j.pay = hand[w].pay /\ j.st = hand[w].st /\ j.amt = hand[w].amt
    BY <1>1 DEF Jobs
  <2>3. Says(j, prov', charge')
    BY <1>1, <2>2 DEF Says
  <2>4. queue' = Append(queue, j)
    BY <1>3
  <2> HIDE DEF j
  <2>5. QED BY <2>1, <2>3, <2>4, AppendAuthentic
<1>4. QED BY <1>2, <1>3

LEMMA QueueStep ==
  ASSUME TInv, NoticesAuthentic, QueueAuthentic, HandsAuthentic, [Next]_vars
  PROVE  QueueAuthentic'
<1>1. CASE UNCHANGED queue
  BY <1>1, AuthenticStays DEF QueueAuthentic, TInv, TypeOK
<1>2. ASSUME NEW n \in notices, WebhookEnqueue(n) PROVE QueueAuthentic'
  <2> DEFINE j == [pay |-> n.pay, st |-> n.st, amt |-> n.amt, run |-> 1]
  <2>1. j \in Jobs
    BY BoundsAssumption DEF Jobs, Reports, TInv, TypeOK
  <2>2. Says(n, prov', charge')
    BY AuthenticStays DEF NoticesAuthentic, TInv, TypeOK
  <2>3. Says(j, prov', charge')
    BY <2>2 DEF Says
  <2>4. queue' = Append(queue, j)
    BY <1>2 DEF WebhookEnqueue
  <2> HIDE DEF j
  <2>5. QED BY <2>1, <2>3, <2>4, AppendAuthentic
<1>3. ASSUME NEW w \in Workers, Pickup(w) PROVE QueueAuthentic'
  <2>1. queue \in Seq(Jobs) /\ queue # <<>> /\ queue' = Tail(queue)
    BY <1>3 DEF Pickup, TInv, TypeOK
  <2>2. \A i \in 1 .. Len(queue') : i + 1 \in 1 .. Len(queue) /\ queue'[i] = queue[i + 1]
    BY <2>1
  <2>3. \A i \in 1 .. Len(queue) : Says(queue[i], prov', charge')
    BY <2>1, AuthenticStays DEF QueueAuthentic
  <2>4. QED
    <3> SUFFICES ASSUME NEW i \in 1 .. Len(queue') PROVE Says(queue'[i], prov', charge')
      BY DEF QueueAuthentic
    <3>1. i + 1 \in 1 .. Len(queue) /\ queue'[i] = queue[i + 1]
      BY <2>2
    <3>2. QED BY <2>3, <3>1 DEF Says
<1>4. ASSUME NEW w \in Workers, TransientError(w) PROVE QueueAuthentic'
  BY <1>1, <1>4, RequeueAuthentic DEF TransientError, Settling, Actors
<1>5. ASSUME NEW w \in Workers, AfterFails(w) PROVE QueueAuthentic'
  BY <1>5, RequeueAuthentic DEF AfterFails, Settling, Actors
<1>6. QED
  BY <1>1, <1>2, <1>3, <1>4, <1>5 DEF Next, Outside, Webhook, Process, SweepPoll, CheckPoll,
     Checkout, GrowOld, ProviderCharge, ProviderDecline, WebhookEnqueueFails, Lock, Duplicate,
     Reject, Fulfill, Commit, AfterSettled, DeadLetter, PollerFails, Crash, Poll, RefundCall,
     RefundCommit, vars
(* An actor takes its job from the queue or the provider, and keeps it     *)
(* until it is idle again.                                                 *)
LEMMA HandsStep ==
  ASSUME TInv, QueueAuthentic, HandsAuthentic, DeclinedIsRetryable, [Next]_vars
  PROVE  HandsAuthentic'
<1> USE DEF HandsAuthentic, Settling
<1>0. \A a \in Actors : Settling(a) => Says(hand[a], prov', charge')
  BY AuthenticStays DEF TInv, HandsFull
<1>1. ASSUME NEW w \in Actors,
             \A a \in Actors \ {w} : pc'[a] = pc[a] /\ hand'[a] = hand[a],
             \/ ~Settling(w)'
             \/ hand'[w] = hand[w] /\ Settling(w)
             \/ Says(hand'[w], prov', charge')
      PROVE  HandsAuthentic'
  BY <1>0, <1>1
<1>2. CASE UNCHANGED <<pc, hand>>
  BY <1>0, <1>2
<1>3. ASSUME NEW w \in Workers, Pickup(w) PROVE HandsAuthentic'
  <2>1. queue \in Seq(Jobs) /\ queue # <<>> /\ hand'[w] = queue[1]
    BY <1>3 DEF Pickup, TInv, TypeOK, Actors
  <2>2. Says(hand'[w], prov', charge')
    BY <2>1, AuthenticStays DEF QueueAuthentic
  <2>3. QED BY <1>1, <1>3, <2>2 DEF Pickup, TInv, TypeOK, Actors
<1>4. ASSUME NEW p \in Payments, NEW a \in Actors, Poll(a, p) PROVE HandsAuthentic'
  <2>1. PICK j \in Polled(p) : hand' = [hand EXCEPT ![a] = j]
    BY <1>4 DEF Poll
  <2>2. prov[p] # "open" /\ UNCHANGED provVars
    BY <1>4 DEF Poll
  <2>3. Says(j, prov, charge)
    BY <2>2, AmountsAssumption
       DEF Polled, Reported, Says, DeclinedIsRetryable, TInv, TypeOK, PaidIsCharged,
           Chargeable
  <2>4. QED BY <1>1, <1>4, <2>1, <2>2, <2>3 DEF Poll, TInv, TypeOK, provVars
<1>5. ASSUME NEW a \in Actors, Process(a) \/ Crash(a) PROVE HandsAuthentic'
  BY <1>1, <1>5 DEF Process, Lock, Duplicate, Reject, Fulfill, Commit, AfterSettled, Crash,
     Finish, TInv, TypeOK
<1>6. ASSUME NEW w \in Workers, TransientError(w) \/ AfterFails(w) \/ DeadLetter(w)
      PROVE  HandsAuthentic'
  <2>1. w \in Actors /\ pc \in [Actors -> {"idle", "start", "locked", "served", "settled",
                                           "refunding"}]
        /\ hand \in [Actors -> Jobs \cup {NoJob}]
    BY DEF Actors, TInv, TypeOK
  <2>2. CASE Finish(w)
    BY <1>1, <2>1, <2>2 DEF Finish
  <2>3. CASE TransientError(w) /\ pc' = [pc EXCEPT ![w] = "start"] /\ UNCHANGED hand
    BY <1>1, <2>1, <2>3 DEF TransientError
  <2>4. QED BY <1>6, <2>2, <2>3 DEF TransientError, AfterFails, DeadLetter
<1>7. ASSUME NEW a \in Sweeps \cup Checks, PollerFails(a) PROVE HandsAuthentic'
  BY <1>1, <1>7 DEF PollerFails, Finish, TInv, TypeOK, Actors
<1>8. ASSUME NEW p \in Payments, NEW a \in Admins, RefundCall(a, p) PROVE HandsAuthentic'
  BY <1>1, <1>8 DEF RefundCall, TInv, TypeOK, Actors
<1>9. ASSUME NEW a \in Admins, RefundCommit(a) PROVE HandsAuthentic'
  BY <1>1, <1>9 DEF RefundCommit, Finish, TInv, TypeOK, Actors
<1>10. QED
  BY <1>2, <1>3, <1>4, <1>5, <1>6, <1>7, <1>8, <1>9 DEF Next, Outside, Webhook, SweepPoll,
     CheckPoll, Checkout, GrowOld, ProviderCharge, ProviderDecline, WebhookEnqueue,
     WebhookEnqueueFails, Actors, vars, actorVars

LEMMA ReportsStep == ASSUME TInv, ReportsAuthentic, [Next]_vars PROVE ReportsAuthentic'
<1>1. DeclinedIsRetryable'
  BY ProviderIsFinal DEF ReportsAuthentic, DeclinedIsRetryable
<1>2. QED
  BY <1>1, NoticesStep, QueueStep, HandsStep DEF ReportsAuthentic

-----------------------------------------------------------------------------
(* The row lock *)

(* Only its owner frees a lock, and a lock is taken only when it is free.  *)
LEMMA LockStep == ASSUME TInv, LockOwned, [Next]_vars PROVE LockOwned'
<1> USE DEF LockOwned, Pay, TInv, TypeOK
<1>1. ASSUME NEW w \in Actors,
             \A a \in Actors \ {w} : pc'[a] = pc[a] /\ hand'[a] = hand[a],
             \A p \in Payments : lock'[p] = lock[p] \/ lock[p] \in {w, Nobody},
             pc'[w] \in {"locked", "served", "refunding"} => lock'[hand'[w].pay] = w
      PROVE  LockOwned'
  <2> SUFFICES ASSUME NEW a \in Actors, pc'[a] \in {"locked", "served", "refunding"}
               PROVE  lock'[hand'[a].pay] = a
    OBVIOUS
  <2>1. CASE a = w
    BY <1>1, <2>1
  <2>2. CASE a # w
    <3>1. pc[a] \in {"locked", "served", "refunding"} /\ hand'[a] = hand[a]
      BY <1>1, <2>2
    <3>2. hand[a].pay \in Payments /\ lock[hand[a].pay] = a
      BY <3>1 DEF HandsFull, Jobs
    <3>3. QED BY <1>1, <2>2, <3>1, <3>2, ActorsAssumption
  <2>3. QED BY <2>1, <2>2
<1>2. CASE UNCHANGED <<pc, hand, lock>>
  BY <1>2
<1>3. ASSUME NEW a \in Actors, Lock(a) PROVE LockOwned'
  <2>1. hand[a].pay \in Payments
    BY <1>3 DEF Lock, HandsFull, Jobs
  <2>2. QED BY <1>1, <1>3, <2>1 DEF Lock
<1>4. ASSUME NEW a \in Actors, Unlock(a), pc'[a] \notin {"locked", "served", "refunding"},
             \A b \in Actors \ {a} : pc'[b] = pc[b] /\ hand'[b] = hand[b]
      PROVE  LockOwned'
  BY <1>1, <1>4 DEF Unlock
<1>5. ASSUME NEW a \in Actors, Process(a) \/ Crash(a) PROVE LockOwned'
  <2>1. CASE Lock(a)
    BY <1>3, <2>1
  <2>2. CASE Duplicate(a) \/ Reject(a) \/ Commit(a) \/ Crash(a)
    BY <1>4, <2>2 DEF Duplicate, Reject, Commit, Crash, Finish
  <2>3. CASE Fulfill(a)
    BY <1>1, <2>3 DEF Fulfill
  <2>4. CASE AfterSettled(a)
    BY <1>1, <2>4 DEF AfterSettled, Finish
  <2>5. QED BY <1>5, <2>1, <2>2, <2>3, <2>4 DEF Process
<1>6. ASSUME NEW w \in Workers, TransientError(w) \/ DeadLetter(w) PROVE LockOwned'
  BY <1>4, <1>6 DEF TransientError, DeadLetter, Finish, Actors
<1>7. ASSUME NEW w \in Workers, Pickup(w) \/ AfterFails(w) PROVE LockOwned'
  <2>1. w \in Actors /\ UNCHANGED lock
    BY <1>7 DEF Pickup, AfterFails, Actors
  <2>2. CASE Pickup(w)
    BY <1>1, <2>1, <2>2 DEF Pickup
  <2>3. CASE AfterFails(w)
    BY <1>1, <2>1, <2>3 DEF AfterFails, Finish
  <2>4. QED BY <1>7, <2>2, <2>3
<1>8. ASSUME NEW a \in Actors, NEW p \in Payments, Poll(a, p) PROVE LockOwned'
  BY <1>1, <1>8 DEF Poll
<1>9. ASSUME NEW a \in Sweeps \cup Checks, PollerFails(a) PROVE LockOwned'
  BY <1>4, <1>9 DEF PollerFails, Finish, Actors
<1>10. ASSUME NEW p \in Payments, NEW a \in Admins, RefundCall(a, p) PROVE LockOwned'
  BY <1>1, <1>10 DEF RefundCall, Actors
<1>11. ASSUME NEW a \in Admins, RefundCommit(a) PROVE LockOwned'
  BY <1>4, <1>11 DEF RefundCommit, Finish, Actors
<1>12. QED
  BY <1>2, <1>5, <1>6, <1>7, <1>8, <1>9, <1>10, <1>11 DEF Next, Outside, Webhook, SweepPoll,
     CheckPoll, Checkout, GrowOld, ProviderCharge, ProviderDecline, WebhookEnqueue,
     WebhookEnqueueFails, Actors, vars, actorVars
(* A row changes when it is created, or by the owner of its lock.  SameRow *)
(* covers every column that a settlement or a refund writes.               *)
SameRow(p) == /\ status'[p] = status[p] /\ amount'[p] = amount[p]
              /\ effect'[p] = effect[p] /\ commission'[p] = commission[p]

RowWrite(a) == Reject(a) \/ Commit(a) \/ RefundCommit(a)

LEMMA RowChange ==
  ASSUME TInv, LockOwned, [Next]_vars, NEW p \in Payments
  PROVE  \/ SameRow(p)
         \/ Checkout(p)
         \/ \E a \in Actors : RowWrite(a) /\ lock[p] = a /\ Pay(a) = p
<1> DEFINE Goal == \/ SameRow(p)
                   \/ Checkout(p)
                   \/ \E a \in Actors : RowWrite(a) /\ lock[p] = a /\ Pay(a) = p
<1> USE DEF TInv, TypeOK
<1>1. CASE UNCHANGED <<status, amount, effect, commission>>
  BY <1>1 DEF SameRow
<1>2. ASSUME NEW q \in Payments, Checkout(q) PROVE Goal
  BY <1>2 DEF Checkout, SameRow, effectVars
<1>3. ASSUME NEW a \in Actors, RowWrite(a) PROVE Goal
  <2>1. hand[a] \in Jobs /\ lock[Pay(a)] = a
    BY <1>3 DEF RowWrite, Reject, Commit, RefundCommit, HandsFull, LockOwned
  <2>2. CASE Pay(a) = p
    BY <1>3, <2>1, <2>2
  <2>3. CASE Pay(a) # p
    BY <1>3, <2>3 DEF RowWrite, Reject, Commit, RefundCommit, SameRow, effectVars
  <2>4. QED BY <2>2, <2>3
<1>4. QED
  BY <1>1, <1>2, <1>3 DEF Next, Outside, Webhook, Process, SweepPoll, CheckPoll, GrowOld,
     ProviderCharge, ProviderDecline, WebhookEnqueue, WebhookEnqueueFails, Lock, Duplicate,
     Fulfill, AfterSettled, Pickup, TransientError, AfterFails, DeadLetter, PollerFails, Crash,
     Poll, RefundCall, RowWrite, Actors, vars, rowVars, effectVars

(* An actor reaches "served" or "refunding" by deciding on a claimed row,  *)
(* and leaves it when it writes the row or fails.                          *)
LEMMA DecidedBefore ==
  ASSUME TInv, [Next]_vars, NEW a \in Actors
  PROVE  /\ pc'[a] = "served" => \/ pc[a] = "served" /\ hand'[a] = hand[a] /\ ~RowWrite(a)
                                \/ Fulfill(a)
         /\ pc'[a] = "refunding" => \/ pc[a] = "refunding" /\ hand'[a] = hand[a] /\ ~RowWrite(a)
                                   \/ \E p \in Payments : RefundCall(a, p)
<1> DEFINE Goal ==
       /\ pc'[a] = "served" => \/ pc[a] = "served" /\ hand'[a] = hand[a] /\ ~RowWrite(a)
                              \/ Fulfill(a)
       /\ pc'[a] = "refunding" => \/ pc[a] = "refunding" /\ hand'[a] = hand[a] /\ ~RowWrite(a)
                                 \/ \E p \in Payments : RefundCall(a, p)
<1> USE DEF TInv, TypeOK
<1>0. RowWrite(a) => pc'[a] \in {"idle", "settled"}
  BY DEF RowWrite, Reject, Commit, RefundCommit, Finish
<1>1. CASE UNCHANGED <<pc, hand>>
  BY <1>0, <1>1
<1>2. ASSUME NEW b \in Actors, pc' = [pc EXCEPT ![b] = pc'[b]],
             \A c \in Actors \ {b} : hand'[c] = hand[c],
             pc'[b] \notin {"served", "refunding"}
      PROVE  Goal
  BY <1>0, <1>2
<1>3. ASSUME NEW b \in Actors, Process(b) \/ Crash(b) PROVE Goal
  <2>1. CASE Fulfill(b)
    BY <1>0, <2>1 DEF Fulfill
  <2>2. CASE Lock(b) \/ Reject(b) \/ Commit(b)
    <3>1. CASE Lock(b)
      BY <1>2, <3>1 DEF Lock
    <3>2. CASE Reject(b)
      BY <1>2, <3>2 DEF Reject
    <3>3. CASE Commit(b)
      BY <1>2, <3>3 DEF Commit
    <3>4. QED BY <2>2, <3>1, <3>2, <3>3
  <2>3. CASE Duplicate(b) \/ AfterSettled(b) \/ Crash(b)
    BY <1>2, <2>3 DEF Duplicate, AfterSettled, Crash, Finish
  <2>4. QED BY <1>3, <2>1, <2>2, <2>3 DEF Process
<1>4. ASSUME NEW w \in Workers, Pickup(w) \/ TransientError(w) \/ AfterFails(w) \/ DeadLetter(w)
      PROVE  Goal
  <2>1. w \in Actors
    BY DEF Actors
  <2>2. CASE Finish(w)
    BY <1>2, <2>1, <2>2 DEF Finish
  <2>3. CASE pc' = [pc EXCEPT ![w] = "start"] /\ \A c \in Actors \ {w} : hand'[c] = hand[c]
    BY <1>2, <2>1, <2>3
  <2>4. QED BY <1>4, <2>1, <2>2, <2>3 DEF Pickup, TransientError, AfterFails, DeadLetter
<1>5. ASSUME NEW b \in Actors, NEW p \in Payments, Poll(b, p) PROVE Goal
  BY <1>2, <1>5 DEF Poll
<1>6. ASSUME NEW b \in Sweeps \cup Checks, PollerFails(b) PROVE Goal
  BY <1>2, <1>6 DEF PollerFails, Finish, Actors
<1>7. ASSUME NEW b \in Admins, NEW p \in Payments, RefundCall(b, p) PROVE Goal
  BY <1>0, <1>7 DEF RefundCall, Actors
<1>8. ASSUME NEW b \in Admins, RefundCommit(b) PROVE Goal
  BY <1>2, <1>8 DEF RefundCommit, Finish, Actors
<1>9. QED
  BY <1>1, <1>3, <1>4, <1>5, <1>6, <1>7, <1>8 DEF Next, Outside, Webhook, SweepPoll, CheckPoll,
     Checkout, GrowOld, ProviderCharge, ProviderDecline, WebhookEnqueue,
     WebhookEnqueueFails, Actors, vars, actorVars
LEMMA DecisionStep ==
  ASSUME TInv, LockOwned, DecisionHolds, [Next]_vars PROVE DecisionHolds'
<1> SUFFICES ASSUME NEW a \in Actors
             PROVE  /\ pc'[a] = "served" =>
                          /\ status'[hand'[a].pay] = "PENDING"
                          /\ Outcome(hand'[a], amount'[hand'[a].pay]) = "COMPLETED"
                    /\ pc'[a] = "refunding" => status'[hand'[a].pay] = "COMPLETED"
  BY DEF DecisionHolds, Pay
<1>1. CASE pc[a] \in {"served", "refunding"} /\ hand'[a] = hand[a] /\ ~RowWrite(a)
           /\ pc'[a] = pc[a]
  <2>1. Pay(a) \in Payments /\ lock[Pay(a)] = a /\ status[Pay(a)] # "ABSENT"
    BY <1>1 DEF TInv, HandsFull, Jobs, LockOwned, DecisionHolds, Pay
  <2>2. SameRow(Pay(a))
    BY <1>1, <2>1, RowChange DEF Checkout
  <2>3. QED BY <1>1, <2>2 DEF SameRow, DecisionHolds, Pay
<1>2. CASE Fulfill(a)
  BY <1>2 DEF Fulfill, Claim, Pay, rowVars, TInv, TypeOK
<1>3. CASE \E p \in Payments : RefundCall(a, p)
  <2>1. PICK p \in Payments : RefundCall(a, p)
    BY <1>3
  <2>2. hand'[a].pay = p /\ status'[p] = "COMPLETED" /\ pc'[a] = "refunding"
    BY <2>1 DEF RefundCall, CanRefund, rowVars, TInv, TypeOK
  <2>3. QED BY <2>2
<1>4. QED
  BY <1>1, <1>2, <1>3, DecidedBefore

(* What a claimed and accepted report settles is what the charge is worth. *)
LEMMA SettledIsWorth ==
  ASSUME TInv, NEW j \in Jobs, Says(j, prov, charge), Outcome(j, Invoice) = "COMPLETED"
  PROVE  /\ prov[j.pay] = "paid" /\ Covers(charge[j.pay])
         /\ SettledAmount(j, Invoice) = Worth(charge[j.pay])
<1>1. j.st = "COMPLETED" /\ prov[j.pay] = "paid"
      /\ charge[j.pay] = IF j.amt = NoAmount THEN Invoice ELSE j.amt
  BY DEF Outcome, Says, Jobs
<1>2. CASE j.amt = NoAmount
  BY <1>1, <1>2, AmountsAssumption DEF SettledAmount, Covers, Worth, S!Covers, S!Worth
<1>3. CASE j.amt # NoAmount
  <2>1. ~(100 * j.amt < 95 * Invoice) /\ j.amt \in Nat
    BY <1>1, <1>3, AmountsAssumption DEF Outcome, Jobs
  <2>2. QED BY <1>1, <1>3, <2>1, AmountsAssumption
            DEF SettledAmount, Covers, Worth, S!Covers, S!Worth
<1>4. QED BY <1>2, <1>3

LEMMA WorthIsNat ==
  ASSUME TInv, NEW p \in Payments PROVE Worth(charge[p]) \in Nat
<1>1. charge[p] \in Received \/ charge[p] = 0 \/ charge[p] = Invoice
  BY DEF TInv, TypeOK
<1>2. charge[p] \in Nat
  <2>1. \A x \in Received : x \in Nat
    BY AmountsAssumption
  <2>2. Invoice \in Nat
    BY AmountsAssumption
  <2>3. QED BY <1>1, <2>1, <2>2
<1>3. Worth(charge[p]) = charge[p] \/ Worth(charge[p]) = Invoice
  BY DEF Worth, S!Worth
<1>4. QED BY <1>2, <1>3, AmountsAssumption

LEMMA EffectStep ==
  ASSUME IInv, [Next]_vars PROVE EffectMatchesRow'
<1> USE DEF IInv
<1> SUFFICES ASSUME NEW p \in Payments
             PROVE  /\ effect'[p] = commission'[p]
                    /\ IF status'[p] \in {"COMPLETED", "REFUNDED"}
                       THEN /\ prov'[p] = "paid" /\ Covers(charge'[p])
                            /\ effect'[p] = amount'[p] /\ amount'[p] = Worth(charge'[p])
                       ELSE effect'[p] = 0 /\ amount'[p] = Invoice
  BY DEF EffectMatchesRow, Covers, Worth, S!Covers, S!Worth
<1>0. prov[p] = "paid" => prov'[p] = prov[p] /\ charge'[p] = charge[p]
  BY ProviderIsFinal
<1>1. CASE SameRow(p)
  BY <1>0, <1>1 DEF SameRow, EffectMatchesRow
<1>2. CASE Checkout(p)
  BY <1>2 DEF Checkout, EffectMatchesRow, effectVars, TInv, TypeOK
<1>3. ASSUME NEW a \in Actors, Pay(a) = p, Reject(a) PROVE status'[p] \notin {"COMPLETED", "REFUNDED"}
                                                          /\ effect'[p] = 0 /\ commission'[p] = 0
                                                          /\ amount'[p] = Invoice
  <2>1. hand[a].st \in {"COMPLETED", "CANCELED"}
    BY <1>3 DEF Reject, TInv, HandsFull, Jobs
  <2>2. Outcome(hand[a], amount[p]) \in {"FAILED", "CANCELED"}
    BY <1>3, <2>1 DEF Reject, Outcome
  <2>3. QED BY <1>3, <2>2 DEF Reject, Claim, EffectMatchesRow, effectVars, TInv, TypeOK
<1>4. ASSUME NEW a \in Actors, Pay(a) = p, Commit(a)
      PROVE  /\ status'[p] = "COMPLETED" /\ prov[p] = "paid" /\ Covers(charge[p])
             /\ effect'[p] = Worth(charge[p]) /\ commission'[p] = effect'[p]
             /\ amount'[p] = Worth(charge[p])
  <2>1. hand[a] \in Jobs /\ Says(hand[a], prov, charge) /\ status[p] = "PENDING"
        /\ Outcome(hand[a], amount[p]) = "COMPLETED"
    BY <1>4 DEF Commit, TInv, HandsFull, ReportsAuthentic, HandsAuthentic, Settling,
       DecisionHolds
  <2>2. amount[p] = Invoice /\ effect[p] = 0 /\ commission[p] = 0
    BY <2>1 DEF EffectMatchesRow
  <2>3. prov[p] = "paid" /\ Covers(charge[p])
        /\ SettledAmount(hand[a], amount[p]) = Worth(charge[p])
    BY <1>4, <2>1, <2>2, SettledIsWorth DEF Pay
  <2>4. Worth(charge[p]) \in Nat
    BY WorthIsNat
  <2>5. QED BY <1>4, <2>2, <2>3, <2>4 DEF Commit, TInv, TypeOK
<1>5. ASSUME NEW a \in Actors, Pay(a) = p, RefundCommit(a)
      PROVE  status[p] = "COMPLETED" /\ status'[p] = "REFUNDED" /\ amount'[p] = amount[p]
             /\ effect'[p] = effect[p] /\ commission'[p] = commission[p]
  BY <1>5 DEF RefundCommit, DecisionHolds, effectVars, TInv, TypeOK
<1>6. QED
  <2>1. CASE \E a \in Actors : Reject(a) /\ Pay(a) = p
    BY <1>3, <2>1
  <2>2. CASE \E a \in Actors : Commit(a) /\ Pay(a) = p
    BY <1>0, <1>4, <2>2
  <2>3. CASE \E a \in Actors : RefundCommit(a) /\ Pay(a) = p
    BY <1>0, <1>5, <2>3 DEF EffectMatchesRow
  <2>4. QED BY <1>1, <1>2, <2>1, <2>2, <2>3, RowChange DEF RowWrite

LEMMA InitIInv == Init => IInv
<1> SUFFICES ASSUME Init PROVE IInv
  OBVIOUS
<1>1. TInv
  BY InitTInv
<1>2. ReportsAuthentic
  BY DEF Init, ReportsAuthentic, DeclinedIsRetryable, NoticesAuthentic, QueueAuthentic,
     HandsAuthentic, Settling
<1>3. LockOwned /\ DecisionHolds /\ EffectMatchesRow
  BY DEF Init, LockOwned, DecisionHolds, EffectMatchesRow
<1>4. QED BY <1>1, <1>2, <1>3 DEF IInv

LEMMA IInvStep == IInv /\ [Next]_vars => IInv'
  BY TInvStep, ReportsStep, LockStep, DecisionStep, EffectStep DEF IInv

THEOREM Invariance == Spec => []IInv
  BY InitIInv, IInvStep, PTL DEF Spec

(* Whatever is delivered twice, late, reordered or interrupted: the value  *)
(* credited for an invoice and the base of its referral commission are the *)
(* settled sum of its row, once, and the provider was paid for them.       *)
THEOREM SettlementIsSound == Spec => []EffectMatchesRow
<1>1. IInv => EffectMatchesRow
  BY DEF IInv
<1>2. QED BY <1>1, Invariance, PTL
-----------------------------------------------------------------------------
(* What a step may do to a row *)

LEMMA RejectStep ==
  ASSUME IInv, NEW a \in Actors, Reject(a)
  PROVE  LET p == Pay(a) IN
         /\ status[p] = "PENDING"
         /\ status' = [status EXCEPT ![p] = status'[p]]
         /\ UNCHANGED <<amount, effect, commission>>
         /\ \/ status'[p] = "FAILED" /\ prov[p] = "paid" /\ ~Covers(charge[p])
            \/ status'[p] = "CANCELED" /\ (prov[p] = "closed" \/ p \in Retryable)
<1> DEFINE p == Pay(a)
<1>1. hand[a] \in Jobs /\ p \in Payments /\ Says(hand[a], prov, charge)
  BY DEF Reject, IInv, TInv, HandsFull, Jobs, Pay, ReportsAuthentic, HandsAuthentic, Settling
<1>2. status[p] = "PENDING" /\ amount[p] = Invoice
  BY <1>1 DEF Reject, Claim, IInv, EffectMatchesRow
<1>3. status' = [status EXCEPT ![p] = Outcome(hand[a], Invoice)]
      /\ Outcome(hand[a], Invoice) # "COMPLETED" /\ UNCHANGED <<amount, effect, commission>>
  BY <1>2 DEF Reject, effectVars
<1>4. status'[p] = Outcome(hand[a], Invoice)
  BY <1>1, <1>3 DEF IInv, TInv, TypeOK
<1>5. CASE hand[a].st = "COMPLETED"
  <2>1. hand[a].amt # NoAmount /\ 100 * hand[a].amt < 95 * Invoice
        /\ Outcome(hand[a], Invoice) = "FAILED"
    BY <1>3, <1>5 DEF Outcome
  <2>2. prov[p] = "paid" /\ charge[p] = hand[a].amt
    BY <1>1, <1>5, <2>1 DEF Says, Pay
  <2>3. hand[a].amt \in Nat
    BY <1>1, <2>1, AmountsAssumption DEF Jobs
  <2>4. ~Covers(charge[p])
    BY <2>1, <2>2, <2>3, AmountsAssumption DEF Covers, S!Covers
  <2>5. QED BY <1>2, <1>3, <1>4, <2>1, <2>2, <2>4
<1>6. CASE hand[a].st = "CANCELED"
  BY <1>1, <1>2, <1>3, <1>4, <1>6 DEF Says, Outcome, Pay
<1>7. QED BY <1>1, <1>5, <1>6 DEF Jobs

LEMMA CommitStep ==
  ASSUME IInv, NEW a \in Actors, Commit(a)
  PROVE  LET p == Pay(a) IN
         /\ status[p] = "PENDING" /\ prov[p] = "paid" /\ Covers(charge[p])
         /\ status' = [status EXCEPT ![p] = "COMPLETED"]
         /\ effect' = [effect EXCEPT ![p] = Worth(charge[p])]
<1> DEFINE p == Pay(a)
<1>1. hand[a] \in Jobs /\ p \in Payments /\ Says(hand[a], prov, charge)
      /\ status[p] = "PENDING" /\ Outcome(hand[a], amount[p]) = "COMPLETED"
  BY DEF Commit, IInv, TInv, HandsFull, Jobs, Pay, ReportsAuthentic, HandsAuthentic,
     Settling, DecisionHolds
<1>2. amount[p] = Invoice /\ effect[p] = 0
  BY <1>1 DEF IInv, EffectMatchesRow
<1>3. prov[p] = "paid" /\ Covers(charge[p])
      /\ SettledAmount(hand[a], amount[p]) = Worth(charge[p])
  BY <1>1, <1>2, SettledIsWorth DEF IInv, Pay
<1>4. effect[p] + Worth(charge[p]) = Worth(charge[p])
  BY <1>1, <1>2, WorthIsNat DEF IInv
<1>5. effect' = [effect EXCEPT ![p] = effect[p] + Worth(charge[p])]
  BY <1>3 DEF Commit
<1>6. effect' = [effect EXCEPT ![p] = Worth(charge[p])]
  BY <1>4, <1>5
<1>7. QED BY <1>1, <1>3, <1>6 DEF Commit

LEMMA RefundStep ==
  ASSUME IInv, NEW a \in Actors, RefundCommit(a)
  PROVE  /\ Pay(a) \in Payments /\ status[Pay(a)] = "COMPLETED"
         /\ status' = [status EXCEPT ![Pay(a)] = "REFUNDED"]
         /\ UNCHANGED effectVars
  BY DEF RefundCommit, IInv, TInv, HandsFull, Jobs, Pay, DecisionHolds

(* The steps that no observer of rows and charges can see. *)
LEMMA OtherSteps ==
  ASSUME TInv, Next
  PROVE  \/ UNCHANGED <<status, prov, charge, effect>>
         \/ \E p \in Payments : \/ Checkout(p) \/ ProviderDecline(p)
                               \/ \E c \in Chargeable(p) : ProviderCharge(p, c)
         \/ \E a \in Actors : RowWrite(a)
  BY DEF Next, Outside, Webhook, Process, SweepPoll, CheckPoll, GrowOld, WebhookEnqueue,
     WebhookEnqueueFails, Lock, Duplicate, Fulfill, AfterSettled, Pickup, TransientError,
     AfterFails, DeadLetter, PollerFails, Crash, Poll, RefundCall, RowWrite, Actors, rowVars,
     effectVars, provVars

Advances(p) ==
    status'[p] # status[p] =>
        <<status[p], status'[p]>> \in
            {<<"ABSENT", "PENDING">>, <<"COMPLETED", "REFUNDED">>} \cup
            ({"PENDING"} \X {"COMPLETED", "FAILED", "CANCELED"})

LEMMA StatusAdvances ==
  ASSUME IInv, [Next]_vars PROVE \A p \in Payments : Advances(p)
<1> DEFINE Adv == \A p \in Payments : Advances(p)
<1> USE DEF IInv, TInv, TypeOK, Advances
<1>1. CASE UNCHANGED status
  BY <1>1
<1>2. ASSUME NEW p \in Payments, Checkout(p) PROVE Adv
  BY <1>2 DEF Checkout
<1>3. ASSUME NEW a \in Actors, RowWrite(a) PROVE Adv
  <2>1. Pay(a) \in Payments
    BY <1>3 DEF RowWrite, Reject, Commit, RefundCommit, HandsFull, Jobs, Pay
  <2>2. CASE Reject(a)
    BY <2>1, <2>2, RejectStep
  <2>3. CASE Commit(a)
    BY <2>1, <2>3, CommitStep
  <2>4. CASE RefundCommit(a)
    BY <2>1, <2>4, RefundStep
  <2>5. QED BY <1>3, <2>2, <2>3, <2>4 DEF RowWrite
<1>4. QED
  BY <1>1, <1>2, <1>3, OtherSteps DEF ProviderDecline, ProviderCharge, rowVars, vars

(* A row leaves PENDING once, and COMPLETED only for REFUNDED: no late or  *)
(* duplicate report, retry or crash ever moves it back.                    *)
THEOREM StatusMonotone == Spec => StatusOnlyAdvances
<1> DEFINE Adv == \A p \in Payments : status'[p] # status[p] =>
          <<status[p], status'[p]>> \in
              {<<"ABSENT", "PENDING">>, <<"COMPLETED", "REFUNDED">>} \cup
              ({"PENDING"} \X {"COMPLETED", "FAILED", "CANCELED"})
<1>1. IInv /\ [Next]_vars => [Adv]_vars
  BY StatusAdvances DEF Advances
<1>2. QED BY <1>1, Invariance, PTL DEF Spec, StatusOnlyAdvances

(* Where a declined invoice is never charged afterwards, every behaviour   *)
(* of the pipeline is a behaviour of Settlement.                           *)
THEOREM Refinement == ASSUME Retryable = {} PROVE Spec => ImplementsSettlement
<1>1. Init => S!Init
  BY DEF Init, S!Init
<1>2. IInv /\ [Next]_vars => [S!Next]_(S!vars)
  <2> SUFFICES ASSUME IInv, [Next]_vars PROVE [S!Next]_(S!vars)
    OBVIOUS
  <2> USE DEF IInv, TInv, TypeOK
  <2>1. CASE UNCHANGED <<status, prov, charge, effect>>
    BY <2>1 DEF S!vars
  <2>2. ASSUME NEW p \in Payments, Checkout(p) PROVE S!Next
    BY <2>2 DEF Checkout, S!Next, S!Open, provVars, effectVars
  <2>3. ASSUME NEW p \in Payments, ProviderDecline(p) PROVE S!Next
    BY <2>3 DEF ProviderDecline, S!Next, S!Decline, rowVars, effectVars
  <2>4. ASSUME NEW p \in Payments, NEW c \in Chargeable(p), ProviderCharge(p, c) PROVE S!Next
    <3>1. prov[p] = "open"
      BY <2>4 DEF ProviderCharge, ReportsAuthentic, DeclinedIsRetryable
    <3>2. S!Charge(p, c)
      BY <2>4, <3>1 DEF ProviderCharge, S!Charge, rowVars, effectVars
    <3>3. QED BY <3>2 DEF S!Next, Chargeable
  <2>5. ASSUME NEW a \in Actors, RowWrite(a) PROVE S!Next
    <3> DEFINE p == Pay(a)
    <3>1. p \in Payments /\ UNCHANGED <<prov, charge>>
      BY <2>5 DEF RowWrite, Reject, Commit, RefundCommit, HandsFull, Jobs, Pay, provVars
    <3>2. CASE Reject(a)
      <4>1. S!Deny(p)
        BY <3>1, <3>2, RejectStep DEF S!Deny, Covers
      <4>2. QED BY <3>1, <4>1 DEF S!Next
    <3>3. CASE Commit(a)
      <4>1. S!Grant(p)
        BY <3>1, <3>3, CommitStep DEF S!Grant, Covers, Worth
      <4>2. QED BY <3>1, <4>1 DEF S!Next
    <3>4. CASE RefundCommit(a)
      <4>1. S!Refund(p)
        BY <3>1, <3>4, RefundStep DEF S!Refund, effectVars
      <4>2. QED BY <3>1, <4>1 DEF S!Next
    <3>5. QED BY <2>5, <3>2, <3>3, <3>4 DEF RowWrite
  <2>6. CASE UNCHANGED vars
    BY <2>6 DEF vars, rowVars, provVars, effectVars, S!vars
  <2>7. QED BY <2>1, <2>2, <2>3, <2>4, <2>5, <2>6, OtherSteps
<1>3. QED BY <1>1, <1>2, Invariance, PTL DEF Spec, ImplementsSettlement, S!Spec

-----------------------------------------------------------------------------
(* Where the jobs in flight come from *)

(* A job on the list was there before, repeats a notice, or is a worker's  *)
(* re-run of the job in its hand.                                          *)
FromNotice(j) ==
    \E n \in notices : /\ WebhookEnqueue(n)
                       /\ j = [pay |-> n.pay, st |-> n.st, amt |-> n.amt, run |-> 1]
Rerun(j) ==
    \E w \in Workers : /\ \/ TransientError(w) /\ ~TriesLeft(w)
                          \/ AfterFails(w)
                       /\ ~LastRun(hand[w])
                       /\ j = [hand[w] EXCEPT !.run = @ + 1]

LEMMA QueueOrigin ==
  ASSUME TInv, [Next]_vars, NEW i \in 1 .. Len(queue')
  PROVE  \/ \E k \in 1 .. Len(queue) : queue'[i] = queue[k]
         \/ FromNotice(queue'[i])
         \/ Rerun(queue'[i])
<1> DEFINE Old == \E k \in 1 .. Len(queue) : queue'[i] = queue[k]
           Goal == Old \/ FromNotice(queue'[i]) \/ Rerun(queue'[i])
<1>0. queue \in Seq(Jobs)
  BY DEF TInv, TypeOK
<1>1. CASE UNCHANGED queue
  BY <1>1
<1>2. ASSUME NEW j, queue' = Append(queue, j) PROVE Old \/ queue'[i] = j
  BY <1>0, <1>2
<1>3. ASSUME NEW n \in notices, WebhookEnqueue(n) PROVE Goal
  <2> DEFINE j == [pay |-> n.pay, st |-> n.st, amt |-> n.amt, run |-> 1]
  <2>1. queue' = Append(queue, j)
    BY <1>3 DEF WebhookEnqueue
  <2>2. Old \/ queue'[i] = j
    BY <2>1, <1>2
  <2>3. QED BY <1>3, <2>2 DEF FromNotice
<1>4. ASSUME NEW w \in Workers, Pickup(w) PROVE Goal
  <2>1. queue' = Tail(queue) /\ queue # <<>>
    BY <1>4 DEF Pickup
  <2>2. i + 1 \in 1 .. Len(queue) /\ queue'[i] = queue[i + 1]
    BY <1>0, <2>1
  <2>3. QED BY <2>2
<1>5. ASSUME NEW w \in Workers, TransientError(w) \/ AfterFails(w) PROVE Goal
  <2>1. CASE queue' = queue
    BY <1>1, <2>1
  <2>2. CASE ~LastRun(hand[w]) /\ queue' = Append(queue, [hand[w] EXCEPT !.run = @ + 1])
             /\ ((TransientError(w) /\ ~TriesLeft(w)) \/ AfterFails(w))
    <3>1. Old \/ queue'[i] = [hand[w] EXCEPT !.run = @ + 1]
      BY <2>2, <1>2
    <3>2. QED BY <2>2, <3>1 DEF Rerun
  <2>3. QED BY <1>5, <2>1, <2>2 DEF TransientError, AfterFails
<1>6. QED
  BY <1>1, <1>3, <1>4, <1>5 DEF Next, Outside, Webhook, Process, SweepPoll, CheckPoll,
     Checkout, GrowOld, ProviderCharge, ProviderDecline, WebhookEnqueueFails, Lock, Duplicate,
     Reject, Fulfill, Commit, AfterSettled, DeadLetter, PollerFails, Crash, Poll, RefundCall,
     RefundCommit, vars

(* A job in a settling hand was there before, was picked off the list, or  *)
(* was polled; the try in its task is counted.                             *)
Kept(a) == /\ Settling(a) /\ hand'[a] = hand[a]
           /\ \/ attempt'[a] = attempt[a]
              \/ a \in Workers /\ TransientError(a) /\ attempt'[a] = attempt[a] + 1
Picked(a) == /\ a \in Workers /\ Pickup(a) /\ attempt'[a] = 1
             /\ \E k \in 1 .. Len(queue) : hand'[a] = queue[k]
PolledFor(a) == a \in Sweeps \cup Checks /\ hand'[a].pay \in Pollable

LEMMA HandOrigin ==
  ASSUME TInv, [Next]_vars, NEW a \in Actors, Settling(a)'
  PROVE  Kept(a) \/ Picked(a) \/ PolledFor(a)
<1> DEFINE Goal == Kept(a) \/ Picked(a) \/ PolledFor(a)
<1> USE DEF TInv, TypeOK, Settling
<1>1. CASE pc[a] = pc'[a] /\ hand'[a] = hand[a] /\ attempt'[a] = attempt[a]
  BY <1>1 DEF Kept
<1>2. ASSUME NEW b \in Actors \ {a}, UNCHANGED attempt \/ attempt' = [attempt EXCEPT ![b] = attempt'[b]],
             pc' = [pc EXCEPT ![b] = pc'[b]],
             UNCHANGED hand \/ hand' = [hand EXCEPT ![b] = hand'[b]]
      PROVE  Goal
  BY <1>1, <1>2
<1>3. ASSUME NEW b \in Actors, Process(b) \/ Crash(b) PROVE Goal
  <2>1. CASE b = a
    BY <1>3, <2>1 DEF Process, Lock, Duplicate, Reject, Fulfill, Commit, AfterSettled, Crash,
       Finish, Kept
  <2>2. CASE b # a
    BY <1>1, <1>3, <2>2 DEF Process, Lock, Duplicate, Reject, Fulfill, Commit, AfterSettled,
       Crash, Finish
  <2>3. QED BY <2>1, <2>2
<1>4. ASSUME NEW w \in Workers, Pickup(w) PROVE Goal
  <2>1. w \in Actors
    BY DEF Actors
  <2>2. CASE w = a
    <3>1. queue \in Seq(Jobs) /\ queue # <<>>
      BY <1>4 DEF Pickup
    <3>2. Head(queue) = queue[1] /\ 1 \in 1 .. Len(queue)
      BY <3>1
    <3>3. hand'[a] = queue[1] /\ attempt'[a] = 1
      BY <1>4, <2>1, <2>2, <3>2 DEF Pickup
    <3>4. QED BY <1>4, <2>2, <3>2, <3>3 DEF Picked
  <2>3. CASE w # a
    BY <1>1, <1>4, <2>1, <2>3 DEF Pickup
  <2>4. QED BY <2>2, <2>3
<1>5. ASSUME NEW w \in Workers, TransientError(w) \/ AfterFails(w) \/ DeadLetter(w) PROVE Goal
  <2>1. w \in Actors
    BY DEF Actors
  <2>2. CASE w # a
    BY <1>1, <1>5, <2>1, <2>2 DEF TransientError, AfterFails, DeadLetter, Finish
  <2>3. CASE w = a /\ Finish(w)
    BY <2>1, <2>3 DEF Finish
  <2>4. CASE w = a /\ TransientError(w) /\ attempt' = [attempt EXCEPT ![w] = @ + 1]
             /\ UNCHANGED hand
    <3>1. attempt'[a] = attempt[a] + 1
      BY <2>1, <2>4
    <3>2. pc[a] \in {"start", "locked", "served"}
      BY <2>4 DEF TransientError
    <3>3. QED BY <2>4, <3>1, <3>2 DEF Kept
  <2>5. QED BY <1>5, <2>2, <2>3, <2>4 DEF TransientError, AfterFails, DeadLetter
<1>6. ASSUME NEW b \in Sweeps \cup Checks, NEW p \in Pollable, Poll(b, p) PROVE Goal
  <2>1. b \in Actors
    BY DEF Actors
  <2>2. PICK j \in Polled(p) : hand' = [hand EXCEPT ![b] = j]
    BY <1>6 DEF Poll
  <2>3. j.pay = p
    BY DEF Polled
  <2>4. CASE b = a
    BY <1>6, <2>1, <2>2, <2>3, <2>4 DEF PolledFor
  <2>5. CASE b # a
    BY <1>1, <1>6, <2>1, <2>2, <2>5 DEF Poll
  <2>6. QED BY <2>4, <2>5
<1>7. ASSUME NEW b \in Sweeps \cup Checks, PollerFails(b) PROVE Goal
  BY <1>1, <1>7 DEF PollerFails, Finish, Actors
<1>8. ASSUME NEW b \in Admins, (\E p \in Payments : RefundCall(b, p)) \/ RefundCommit(b) PROVE Goal
  BY <1>1, <1>8 DEF RefundCall, RefundCommit, Finish, Actors
<1>9. CASE UNCHANGED <<pc, hand, attempt>>
  BY <1>1, <1>9
<1>10. QED
  BY <1>3, <1>4, <1>5, <1>6, <1>7, <1>8, <1>9 DEF Next, Outside, Webhook, SweepPoll, CheckPoll,
     Stuck, Checkout, GrowOld, ProviderCharge, ProviderDecline, WebhookEnqueue,
     WebhookEnqueueFails, vars, actorVars

-----------------------------------------------------------------------------
(* What the carriers of a payment know *)

(* A settlement is over when its row has left PENDING. *)
SettledIsDone == \A a \in Actors : pc[a] = "settled" => status[Pay(a)] \notin {"ABSENT", "PENDING"}

(* Pollers work on rows that can be polled. *)
PollersPoll == \A a \in Sweeps \cup Checks : Settling(a) => Pay(a) \in Pollable

(* Nothing is charged before its row is there. *)
NothingBeforeCheckout == \A p \in Payments : status[p] = "ABSENT" => prov[p] = "open"

(* A completed job brought by a webhook came with the canonical id. *)
Identified(j) == j.st = "COMPLETED" => j.pay \in Pollable \/ canonical[j.pay]
JobsIdentified == /\ \A i \in 1 .. Len(queue) : Identified(queue[i])
                  /\ \A a \in Actors : Settling(a) => Identified(hand[a])

JInv == /\ IInv /\ SettledIsDone /\ PollersPoll /\ NothingBeforeCheckout
        /\ JobsIdentified /\ RefundTargetsCharge /\ BuyerToldTheTruth

LEMMA SettledStep == ASSUME IInv, SettledIsDone, [Next]_vars PROVE SettledIsDone'
<1> USE DEF IInv, TInv, TypeOK
<1> SUFFICES ASSUME NEW a \in Actors, pc'[a] = "settled"
             PROVE  status'[hand'[a].pay] \notin {"ABSENT", "PENDING"}
  BY DEF SettledIsDone, Pay
<1>1. \/ pc[a] = "settled" /\ hand'[a] = hand[a]
      \/ Reject(a) \/ Commit(a)
  <2> DEFINE Goal == \/ pc[a] = "settled" /\ hand'[a] = hand[a]
                     \/ Reject(a) \/ Commit(a)
  <2>1. CASE UNCHANGED <<pc, hand>>
    BY <2>1
  <2>2. ASSUME NEW b \in Actors, Process(b) \/ Crash(b) PROVE Goal
    BY <2>2 DEF Process, Lock, Duplicate, Fulfill, AfterSettled, Crash, Finish, Reject, Commit
  <2>3. ASSUME NEW w \in Workers, Pickup(w) \/ TransientError(w) \/ AfterFails(w) \/ DeadLetter(w)
        PROVE  Goal
    BY <2>3 DEF Pickup, TransientError, AfterFails, DeadLetter, Finish, Actors
  <2>4. ASSUME NEW b \in Sweeps \cup Checks, PollerFails(b) \/ \E p \in Payments : Poll(b, p)
        PROVE  Goal
    BY <2>4 DEF PollerFails, Poll, Finish, Actors
  <2>5. ASSUME NEW b \in Admins, RefundCommit(b) \/ \E p \in Payments : RefundCall(b, p)
        PROVE  Goal
    BY <2>5 DEF RefundCommit, RefundCall, Finish, Actors
  <2>6. QED
    BY <2>1, <2>2, <2>3, <2>4, <2>5 DEF Next, Outside, Webhook, SweepPoll, CheckPoll,
       Checkout, GrowOld, ProviderCharge, ProviderDecline, WebhookEnqueue, WebhookEnqueueFails,
       vars, actorVars
<1>2. CASE pc[a] = "settled" /\ hand'[a] = hand[a]
  <2>1. Pay(a) \in Payments /\ status[Pay(a)] \notin {"ABSENT", "PENDING"}
    BY <1>2 DEF HandsFull, Jobs, SettledIsDone, Pay
  <2>2. Advances(Pay(a))
    BY <2>1, StatusAdvances
  <2>3. QED BY <1>2, <2>1, <2>2 DEF Advances, Pay
<1>3. CASE Reject(a)
  <2>1. Pay(a) \in Payments /\ hand' = hand
    BY <1>3 DEF Reject, HandsFull, Jobs, Pay
  <2>2. QED BY <1>3, <2>1, RejectStep DEF Pay
<1>4. CASE Commit(a)
  <2>1. Pay(a) \in Payments /\ hand' = hand
    BY <1>4 DEF Commit, HandsFull, Jobs, Pay
  <2>2. QED BY <1>4, <2>1, CommitStep DEF Pay
<1>5. QED BY <1>1, <1>2, <1>3, <1>4

LEMMA PollersStep == ASSUME TInv, PollersPoll, [Next]_vars PROVE PollersPoll'
<1> SUFFICES ASSUME NEW a \in Sweeps \cup Checks, Settling(a)' PROVE hand'[a].pay \in Pollable
  BY DEF PollersPoll, Pay
<1>1. a \in Actors /\ a \notin Workers
  BY ActorsAssumption DEF Actors
<1>2. Kept(a) \/ Picked(a) \/ PolledFor(a)
  BY <1>1, HandOrigin
<1>3. QED BY <1>1, <1>2 DEF Kept, Picked, PolledFor, PollersPoll, Pay

LEMMA CheckoutFirstStep ==
  ASSUME IInv, NothingBeforeCheckout, [Next]_vars PROVE NothingBeforeCheckout'
<1> SUFFICES ASSUME NEW p \in Payments, status'[p] = "ABSENT" PROVE prov'[p] = "open"
  BY DEF NothingBeforeCheckout
<1>1. status[p] = "ABSENT" /\ prov[p] = "open"
  BY StatusAdvances DEF Advances, NothingBeforeCheckout
<1>2. CASE UNCHANGED prov
  BY <1>1, <1>2
<1>3. ASSUME NEW q \in Payments, ProviderDecline(q) \/ \E c \in Chargeable(q) : ProviderCharge(q, c)
      PROVE  prov'[p] = "open"
  BY <1>1, <1>3 DEF ProviderDecline, ProviderCharge, IInv, TInv, TypeOK
<1>4. QED
  BY <1>2, <1>3 DEF Next, Outside, Webhook, Process, SweepPoll, CheckPoll, Checkout,
     GrowOld, WebhookEnqueue, WebhookEnqueueFails, Lock, Duplicate, Reject, Fulfill, Commit,
     AfterSettled, Pickup, TransientError, AfterFails, DeadLetter, PollerFails, Crash, Poll,
     RefundCall, RefundCommit, vars, provVars

(* The canonical id is never forgotten. *)
LEMMA CanonicalStays ==
  ASSUME TInv, [Next]_vars, NEW p \in Payments, canonical[p] PROVE canonical'[p]
<1>1. CASE UNCHANGED canonical
  BY <1>1
<1>2. ASSUME NEW n \in notices, PersistExternalId(n) PROVE canonical'[p]
  BY <1>2 DEF PersistExternalId, TInv, TypeOK
<1>3. QED
  BY <1>1, <1>2 DEF Next, Outside, Webhook, Process, SweepPoll, CheckPoll, Checkout,
     GrowOld, ProviderCharge, ProviderDecline, WebhookEnqueue, WebhookEnqueueFails, Lock,
     Duplicate, Reject, Fulfill, Commit, AfterSettled, Pickup, TransientError, AfterFails,
     DeadLetter, PollerFails, Crash, Poll, RefundCall, RefundCommit, vars, rowVars

LEMMA IdentifiedStays ==
  ASSUME TInv, [Next]_vars, NEW j \in Jobs, Identified(j)
  PROVE  j.st = "COMPLETED" => j.pay \in Pollable \/ canonical'[j.pay]
  BY CanonicalStays DEF Identified, Jobs

LEMMA IdentifiedStep == ASSUME TInv, JobsIdentified, [Next]_vars PROVE JobsIdentified'
<1> DEFINE Known(j) == j.st = "COMPLETED" => j.pay \in Pollable \/ canonical'[j.pay]
<1>0. queue \in Seq(Jobs) /\ \A k \in 1 .. Len(queue) : queue[k] \in Jobs
  BY DEF TInv, TypeOK
<1>1. \A k \in 1 .. Len(queue) : Known(queue[k])
  BY <1>0, IdentifiedStays DEF JobsIdentified
<1>2. \A a \in Actors : Settling(a) => Known(hand[a]) /\ hand[a] \in Jobs
  BY IdentifiedStays DEF JobsIdentified, TInv, HandsFull, Settling
<1>3. ASSUME NEW i \in 1 .. Len(queue') PROVE Known(queue'[i])
  <2>1. CASE \E k \in 1 .. Len(queue) : queue'[i] = queue[k]
    BY <1>1, <2>1
  <2>2. CASE FromNotice(queue'[i])
    <3>1. PICK n \in notices : WebhookEnqueue(n) /\ queue'[i] = [pay |-> n.pay, st |-> n.st,
                                                                amt |-> n.amt, run |-> 1]
      BY <2>2 DEF FromNotice
    <3>2. n.pay \in Payments /\ queue'[i].pay = n.pay /\ queue'[i].st = n.st
      BY <3>1 DEF TInv, TypeOK, Reports
    <3>3. n.st = "COMPLETED" => canonical'[n.pay]
      BY <3>1, <3>2 DEF WebhookEnqueue, PersistExternalId, TInv, TypeOK
    <3>4. QED BY <3>2, <3>3
  <2>3. CASE Rerun(queue'[i])
    <3>1. PICK w \in Workers : /\ TransientError(w) \/ AfterFails(w)
                               /\ queue'[i] = [hand[w] EXCEPT !.run = @ + 1]
      BY <2>3 DEF Rerun
    <3>2. w \in Actors /\ Settling(w)
      BY <3>1 DEF TransientError, AfterFails, Actors, Settling
    <3>3. Known(hand[w]) /\ hand[w] \in Jobs
      BY <1>2, <3>2
    <3>4. queue'[i].pay = hand[w].pay /\ queue'[i].st = hand[w].st
      BY <3>1, <3>3 DEF Jobs
    <3>5. QED BY <3>3, <3>4
  <2>4. QED BY <2>1, <2>2, <2>3, QueueOrigin
<1>4. ASSUME NEW a \in Actors, Settling(a)' PROVE Known(hand'[a])
  BY <1>1, <1>2, <1>4, HandOrigin DEF Kept, Picked, PolledFor
<1>5. QED BY <1>3, <1>4 DEF JobsIdentified, Identified

(* Only a commit completes a row, from a job that is identified. *)
LEMMA RefundTargetStep == ASSUME JInv, [Next]_vars PROVE RefundTargetsCharge'
<1> USE DEF JInv, IInv
<1> SUFFICES ASSUME NEW p \in Payments \ Pollable, status'[p] \in {"COMPLETED", "REFUNDED"}
             PROVE  canonical'[p]
  BY DEF RefundTargetsCharge
<1>1. CASE status[p] \in {"COMPLETED", "REFUNDED"}
  BY <1>1, CanonicalStays DEF RefundTargetsCharge
<1>2. CASE status[p] \notin {"COMPLETED", "REFUNDED"}
  <2>1. ~SameRow(p) /\ ~Checkout(p)
    BY <1>2 DEF SameRow, Checkout, TInv, TypeOK
  <2>2. PICK a \in Actors : RowWrite(a) /\ Pay(a) = p
    BY <2>1, RowChange
  <2>3. Commit(a)
    BY <1>2, <2>2, RejectStep, RefundStep DEF RowWrite
  <2>4. Settling(a) /\ hand[a] \in Jobs /\ hand[a].st = "COMPLETED"
    BY <2>3 DEF Commit, Settling, TInv, HandsFull, DecisionHolds, Outcome, Jobs
  <2>5. canonical[p]
    BY <2>2, <2>4 DEF JobsIdentified, Identified, Pay
  <2>6. QED BY <2>5, CanonicalStays
<1>3. QED BY <1>1, <1>2

(* The buyer is told what the row says, and the row does not take it back. *)
LEMMA ToldStep == ASSUME JInv, [Next]_vars PROVE BuyerToldTheTruth'
<1> USE DEF JInv, IInv, TInv, TypeOK
<1> DEFINE Fits(p, t) == /\ t = "paid" => status'[p] \in {"COMPLETED", "REFUNDED"}
                         /\ t = "rejected" => status'[p] \in {"FAILED", "CANCELED"}
<1>1. \A p \in Payments : Fits(p, told[p])
  BY StatusAdvances DEF Advances, BuyerToldTheTruth
<1>2. CASE UNCHANGED told
  BY <1>1, <1>2 DEF BuyerToldTheTruth
<1>3. ASSUME NEW a \in Actors, AfterSettled(a) PROVE BuyerToldTheTruth'
  <2>1. Pay(a) \in Payments /\ UNCHANGED status
    BY <1>3 DEF AfterSettled, HandsFull, Jobs, Pay, rowVars
  <2>2. CASE UNCHANGED told
    BY <1>1, <2>2 DEF BuyerToldTheTruth
  <2>3. CASE told' = [told EXCEPT ![Pay(a)] = Message(hand[a], status[Pay(a)])]
             /\ Message(hand[a], status[Pay(a)]) # "nothing"
    <3>1. Fits(Pay(a), Message(hand[a], status[Pay(a)]))
      BY <2>1, <2>3 DEF Message, Statuses
    <3>2. \A p \in Payments : Fits(p, told'[p])
      BY <1>1, <2>1, <2>3, <3>1
    <3>3. QED BY <3>2 DEF BuyerToldTheTruth
  <2>4. QED BY <1>3, <2>2, <2>3 DEF AfterSettled
<1>4. QED
  BY <1>2, <1>3 DEF Next, Outside, Webhook, Process, SweepPoll, CheckPoll, Checkout,
     GrowOld, ProviderCharge, ProviderDecline, WebhookEnqueue, WebhookEnqueueFails, Lock,
     Duplicate, Reject, Fulfill, Commit, Pickup, TransientError, AfterFails,
     DeadLetter, PollerFails, Crash, Poll, RefundCall, RefundCommit, vars, effectVars

LEMMA JInvInductive == (Init => JInv) /\ (JInv /\ [Next]_vars => JInv')
<1>1. Init => JInv
  <2> SUFFICES ASSUME Init PROVE JInv
    OBVIOUS
  <2>1. IInv
    BY InitIInv
  <2>2. QED
    BY <2>1 DEF Init, JInv, SettledIsDone, PollersPoll, NothingBeforeCheckout,
       JobsIdentified, RefundTargetsCharge, BuyerToldTheTruth, Settling, Actors
<1>2. JInv /\ [Next]_vars => JInv'
  BY IInvStep, SettledStep, PollersStep, CheckoutFirstStep, IdentifiedStep, RefundTargetStep,
     ToldStep DEF JInv, IInv
<1>3. QED BY <1>1, <1>2

THEOREM Journey == Spec => []JInv
  BY JInvInductive, PTL DEF Spec

(* Whoever settles the row, and whatever the inbound report said, the      *)
(* buyer is told "paid" only about a completed row and "rejected" only     *)
(* about one that will never complete.                                     *)
THEOREM MessagesAreTrue == Spec => []BuyerToldTheTruth
<1>1. JInv => BuyerToldTheTruth
  BY DEF JInv
<1>2. QED BY <1>1, Journey, PTL

(* A row that no poll can complete is completed with the provider's        *)
(* canonical id on it, whichever process saved the id.                     *)
THEOREM RefundsFindTheCharge == Spec => []RefundTargetsCharge
<1>1. JInv => RefundTargetsCharge
  BY DEF JInv
<1>2. QED BY <1>1, Journey, PTL

-----------------------------------------------------------------------------
(* What retries promise *)

(* Failures a task has met when it makes this try of this run. *)
Spent(run, try) == (run - 1) * MaxAttempts + try - 1

(* Every try of an unsettled, completed report that no poll repeats has    *)
(* cost one of the environment's failures.                                 *)
TryPaid(j, try) ==
    j.st = "COMPLETED" /\ j.pay \notin Pollable /\ status[j.pay] = "PENDING" =>
        MaxFaults - faults >= Spent(j.run, try)
TriesPaid == /\ \A i \in 1 .. Len(queue) : TryPaid(queue[i], 1)
             /\ \A w \in Workers : Settling(w) => TryPaid(hand[w], attempt[w])

LEMMA NextTry ==
  ASSUME NEW run \in Nat, NEW try \in Nat
  PROVE  /\ Spent(run, try + 1) = Spent(run, try) + 1
         /\ Spent(run + 1, 1) = Spent(run, MaxAttempts) + 1
         /\ Spent(1, 1) = 0
         /\ Spent(run, try) \in Int
<1>1. MaxAttempts \in Nat
  BY BoundsAssumption
<1>2. (run - 1) * MaxAttempts = run * MaxAttempts - MaxAttempts /\ run * MaxAttempts \in Nat
  BY <1>1
<1>3. (run + 1 - 1) * MaxAttempts = run * MaxAttempts
  BY <1>1
<1>4. (1 - 1) * MaxAttempts = 0
  BY <1>1
<1>5. QED BY <1>1, <1>2, <1>3, <1>4 DEF Spent

(* A failure costs one; nothing gives one back. *)
LEMMA FaultsStep ==
  ASSUME TInv, [Next]_vars
  PROVE  /\ faults \in Nat /\ faults' \in Nat /\ MaxFaults \in Nat
         /\ faults' <= faults /\ faults <= MaxFaults
         /\ \A w \in Workers : TransientError(w) => faults > 0 /\ faults' = faults - 1
<1>1. TInv'
  BY TInvStep
<1>2. faults \in Nat /\ faults' \in Nat /\ MaxFaults \in Nat /\ faults <= MaxFaults
  BY <1>1, BoundsAssumption DEF TInv, TypeOK
<1>3. \A w \in Workers : TransientError(w) => faults > 0 /\ faults' = faults - 1
  BY DEF TransientError, Fault
<1>4. UNCHANGED faults \/ Fault \/ \E w \in Workers : DeadLetter(w)
  BY DEF Next, Outside, Webhook, Process, SweepPoll, CheckPoll, Checkout,
     GrowOld, ProviderCharge, ProviderDecline, WebhookEnqueue, WebhookEnqueueFails, Lock,
     Duplicate, Reject, Fulfill, Commit, AfterSettled, Pickup, TransientError, AfterFails,
     PollerFails, Crash, Poll, RefundCall, RefundCommit, vars
<1>5. ASSUME NEW w \in Workers, DeadLetter(w) PROVE faults' <= faults
  <2>1. PICK lost \in {0, 1} : faults' = faults - 1 - lost
    BY <1>5 DEF DeadLetter
  <2>2. QED BY <1>2, <2>1
<1>6. QED BY <1>2, <1>3, <1>4, <1>5 DEF Fault

(* A charged row that is pending now was pending before. *)
LEMMA PendingBefore ==
  ASSUME JInv, [Next]_vars, NEW p \in Payments, prov[p] = "paid", status'[p] = "PENDING"
  PROVE  status[p] = "PENDING"
  BY StatusAdvances DEF JInv, NothingBeforeCheckout, Advances

(* Authentic reports are of charged invoices. *)
LEMMA CompletedIsPaid ==
  ASSUME JInv
  PROVE  /\ \A i \in 1 .. Len(queue) : queue[i] \in Jobs /\
                  (queue[i].st = "COMPLETED" => prov[queue[i].pay] = "paid")
         /\ \A a \in Actors : Settling(a) => hand[a] \in Jobs /\
                  (hand[a].st = "COMPLETED" => prov[hand[a].pay] = "paid")
  BY DEF JInv, IInv, TInv, TypeOK, HandsFull, ReportsAuthentic, QueueAuthentic, HandsAuthentic,
     Says, Settling

LEMMA TriesStep == ASSUME JInv, TriesPaid, [Next]_vars PROVE TriesPaid'
<1> DEFINE Known(j, try) ==
       j.st = "COMPLETED" /\ j.pay \notin Pollable /\ status'[j.pay] = "PENDING" =>
           MaxFaults - faults' >= Spent(j.run, try)
<1> USE FaultsStep DEF JInv, IInv
<1>a. \A j \in Jobs : j.pay \in Payments /\ j.run \in Nat
  BY DEF Jobs
<1>b. \A a \in Actors : attempt[a] \in Nat
  BY DEF TInv, TypeOK
<1>c. Spent(1, 1) = 0
  BY BoundsAssumption DEF Spent
<1>1. ASSUME NEW j \in Jobs, NEW try \in Nat, j.st = "COMPLETED" => prov[j.pay] = "paid",
             TryPaid(j, try)
      PROVE  Known(j, try)
  <2>1. j.pay \in Payments /\ Spent(j.run, try) \in Int
    BY <1>a, NextTry
  <2>2. j.st = "COMPLETED" /\ status'[j.pay] = "PENDING" => status[j.pay] = "PENDING"
    BY <1>1, <2>1, PendingBefore
  <2>3. QED BY <1>1, <2>1, <2>2 DEF TryPaid
<1>2. \A k \in 1 .. Len(queue) : Known(queue[k], 1) /\ queue[k] \in Jobs
  BY <1>1, CompletedIsPaid DEF TriesPaid
<1>3. \A w \in Workers : Settling(w) => Known(hand[w], attempt[w])
  BY <1>1, <1>b, CompletedIsPaid DEF TriesPaid, Actors
<1>4. ASSUME NEW w \in Workers, TransientError(w),
             hand[w].st = "COMPLETED", hand[w].pay \notin Pollable, status'[hand[w].pay] = "PENDING"
      PROVE  MaxFaults - faults' >= Spent(hand[w].run, attempt[w]) + 1
  <2>1. Settling(w) /\ w \in Actors
    BY <1>4 DEF TransientError, Settling, Actors
  <2>2. hand[w] \in Jobs /\ prov[hand[w].pay] = "paid"
    BY <1>4, <2>1, CompletedIsPaid
  <2>3. status[hand[w].pay] = "PENDING"
    BY <1>4, <2>2, <1>a, PendingBefore
  <2>4. MaxFaults - faults >= Spent(hand[w].run, attempt[w])
    BY <1>4, <2>1, <2>3 DEF TriesPaid, TryPaid
  <2>5. Spent(hand[w].run, attempt[w]) \in Int
    BY <2>1, <2>2, <1>a, <1>b, NextTry
  <2>6. faults' = faults - 1
    BY <1>4
  <2>7. QED BY <2>4, <2>5, <2>6
<1>5. ASSUME NEW i \in 1 .. Len(queue') PROVE Known(queue'[i], 1)
  <2>1. CASE \E k \in 1 .. Len(queue) : queue'[i] = queue[k]
    BY <1>2, <2>1
  <2>2. CASE FromNotice(queue'[i])
    <3>1. queue'[i].run = 1
      BY <2>2 DEF FromNotice
    <3>2. QED BY <3>1, <1>c
  <2>3. CASE Rerun(queue'[i])
    <3>1. PICK w \in Workers : /\ (TransientError(w) /\ ~TriesLeft(w)) \/ AfterFails(w)
                               /\ queue'[i] = [hand[w] EXCEPT !.run = @ + 1]
      BY <2>3 DEF Rerun
    <3>2. w \in Actors /\ Settling(w) /\ hand[w] \in Jobs
      BY <3>1, CompletedIsPaid DEF TransientError, AfterFails, Actors, Settling
    <3>3. /\ queue'[i].pay = hand[w].pay /\ queue'[i].st = hand[w].st
          /\ queue'[i].run = hand[w].run + 1
      BY <3>1, <3>2 DEF Jobs
    <3>4. CASE AfterFails(w)
      <4>1. pc[w] = "settled" /\ UNCHANGED status
        BY <3>4 DEF AfterFails, rowVars
      <4>2. status'[queue'[i].pay] # "PENDING"
        BY <3>2, <3>3, <4>1 DEF SettledIsDone, Pay
      <4>3. QED BY <4>2
    <3>5. CASE TransientError(w) /\ ~TriesLeft(w)
      <4>1. attempt[w] = MaxAttempts
        BY <3>2, <3>5, BoundsAssumption DEF TriesLeft, TInv, TypeOK
      <4>2. Spent(hand[w].run + 1, 1) = Spent(hand[w].run, attempt[w]) + 1
        BY <3>2, <4>1, <1>a, <1>b, NextTry
      <4>3. QED BY <3>3, <3>5, <4>2, <1>4
    <3>6. QED BY <3>1, <3>4, <3>5
  <2>4. QED BY <2>1, <2>2, <2>3, QueueOrigin
<1>6. ASSUME NEW w \in Workers, Settling(w)' PROVE Known(hand'[w], attempt'[w])
  <2>1. w \in Actors /\ w \notin Sweeps \cup Checks
    BY ActorsAssumption DEF Actors
  <2>2. Kept(w) \/ Picked(w) \/ PolledFor(w)
    BY <1>6, <2>1, HandOrigin
  <2>3. CASE Picked(w)
    BY <1>2, <2>3 DEF Picked
  <2>4. CASE Kept(w) /\ attempt'[w] = attempt[w]
    BY <1>3, <2>4 DEF Kept
  <2>5. CASE Kept(w) /\ TransientError(w) /\ attempt'[w] = attempt[w] + 1
    <3>1. hand'[w] = hand[w] /\ hand[w] \in Jobs
      BY <2>1, <2>5, CompletedIsPaid DEF Kept
    <3>2. Spent(hand[w].run, attempt[w] + 1) = Spent(hand[w].run, attempt[w]) + 1
      BY <2>1, <3>1, <1>a, <1>b, NextTry
    <3>3. QED BY <2>5, <3>1, <3>2, <1>4
  <2>6. QED BY <2>1, <2>2, <2>3, <2>4, <2>5 DEF PolledFor, Kept
<1>7. QED BY <1>5, <1>6 DEF TriesPaid, TryPaid

(* An idle actor holds no job; who puts its job down has a reason to. *)
IdleHandsEmpty == \A a \in Actors : pc[a] = "idle" => hand[a] = NoJob
PutsDown(a) ==
    \/ Duplicate(a) \/ AfterSettled(a) \/ Crash(a)
    \/ a \in Workers /\ \/ TransientError(a) /\ ~TriesLeft(a)
                        \/ AfterFails(a) \/ DeadLetter(a)
    \/ a \in Sweeps \cup Checks /\ PollerFails(a)
    \/ a \in Admins /\ RefundCommit(a)

LEMMA HandsEmptied ==
  ASSUME TInv, IdleHandsEmpty, [Next]_vars, NEW a \in Actors
  PROVE  /\ hand'[a] = hand[a] \/ pc[a] = "idle" \/ PutsDown(a)
         /\ pc'[a] = "idle" => hand'[a] = NoJob
<1> DEFINE Goal == /\ hand'[a] = hand[a] \/ pc[a] = "idle" \/ PutsDown(a)
                   /\ pc'[a] = "idle" => hand'[a] = NoJob
<1> USE DEF TInv, TypeOK, IdleHandsEmpty
<1>1. CASE UNCHANGED hand /\ (pc'[a] = "idle" => pc[a] = "idle")
  BY <1>1
<1>2. ASSUME NEW b \in Actors, Finish(b), b = a => PutsDown(a) PROVE Goal
  BY <1>2 DEF Finish
<1>3. ASSUME NEW b \in Actors, pc[b] = "idle", hand' = [hand EXCEPT ![b] = hand'[b]],
             pc' = [pc EXCEPT ![b] = pc'[b]], pc'[b] # "idle"
      PROVE  Goal
  BY <1>3
<1>4. ASSUME NEW b \in Actors, Process(b) PROVE Goal
  <2>1. CASE Lock(b) \/ Reject(b) \/ Fulfill(b) \/ Commit(b)
    BY <1>1, <2>1 DEF Lock, Reject, Fulfill, Commit
  <2>2. CASE Duplicate(b) \/ AfterSettled(b)
    BY <1>2, <2>2 DEF Duplicate, AfterSettled, PutsDown
  <2>3. QED BY <1>4, <2>1, <2>2 DEF Process
<1>5. ASSUME NEW b \in Actors, Crash(b) PROVE Goal
  BY <1>2, <1>5 DEF Crash, PutsDown
<1>6. ASSUME NEW w \in Workers, Pickup(w) \/ TransientError(w) \/ AfterFails(w) \/ DeadLetter(w)
      PROVE  Goal
  <2>1. w \in Actors
    BY DEF Actors
  <2>2. CASE Pickup(w)
    BY <1>3, <2>1, <2>2 DEF Pickup, Idle
  <2>3. CASE pc' = [pc EXCEPT ![w] = "start"] /\ UNCHANGED hand
    BY <1>1, <2>1, <2>3
  <2>4. CASE Finish(w) /\ ((TransientError(w) /\ ~TriesLeft(w)) \/ AfterFails(w) \/ DeadLetter(w))
    BY <1>2, <2>1, <2>4 DEF PutsDown
  <2>5. QED
    BY <1>6, <2>2, <2>3, <2>4 DEF TransientError, AfterFails, DeadLetter
<1>7. ASSUME NEW b \in Sweeps \cup Checks, PollerFails(b) \/ \E p \in Payments : Poll(b, p)
      PROVE  Goal
  <2>1. b \in Actors
    BY DEF Actors
  <2>2. CASE PollerFails(b)
    BY <1>2, <2>1, <2>2 DEF PollerFails, PutsDown
  <2>3. CASE \E p \in Payments : Poll(b, p)
    BY <1>3, <2>1, <2>3 DEF Poll, Idle
  <2>4. QED BY <1>7, <2>2, <2>3
<1>8. ASSUME NEW b \in Admins, RefundCommit(b) \/ \E p \in Payments : RefundCall(b, p)
      PROVE  Goal
  <2>1. b \in Actors
    BY DEF Actors
  <2>2. CASE RefundCommit(b)
    BY <1>2, <2>1, <2>2 DEF RefundCommit, PutsDown
  <2>3. CASE \E p \in Payments : RefundCall(b, p)
    BY <1>3, <2>1, <2>3 DEF RefundCall, Idle
  <2>4. QED BY <1>8, <2>2, <2>3
<1>9. QED
  BY <1>1, <1>4, <1>5, <1>6, <1>7, <1>8 DEF Next, Outside, Webhook, SweepPoll, CheckPoll,
     Checkout, GrowOld, ProviderCharge, ProviderDecline, WebhookEnqueue, WebhookEnqueueFails,
     vars, actorVars

(* An alert is lost only by a failure of its own. *)
LostCosts == \A p \in Payments : alerted[p] = "lost" => faults + 2 <= MaxFaults

KInv == JInv /\ TriesPaid /\ IdleHandsEmpty /\ LostCosts /\ PaidIsNotForgotten

(* After a dead letter the row counts as dead-lettered. *)
LEMMA DeadLetterStep ==
  ASSUME TInv, LostCosts, NEW w \in Actors, DeadLetter(w)
  PROVE  LostCosts' /\ \A p \in Payments : p = Pay(w) => DeadLettered(p)'
<1>0. /\ Pay(w) \in Payments /\ faults \in 0 .. MaxFaults /\ MaxFaults \in Nat
      /\ alerted \in [Payments -> {"no", "sent", "lost"}]
  BY BoundsAssumption DEF DeadLetter, Actors, Jobs, TInv, TypeOK, HandsFull, Pay
<1>1. PICK lost \in {0, 1} :
          /\ lost < faults
          /\ faults' = faults - 1 - lost
          /\ \E heard \in Heard(alerted[Pay(w)], IF lost = 0 THEN "sent" ELSE "lost") :
                alerted' = [alerted EXCEPT ![Pay(w)] = heard]
  BY DEF DeadLetter
<1>2. PICK heard \in Heard(alerted[Pay(w)], IF lost = 0 THEN "sent" ELSE "lost") :
          alerted' = [alerted EXCEPT ![Pay(w)] = heard]
  BY <1>1
<1>3. heard = "sent" \/ (heard = "lost" /\ (alerted[Pay(w)] = "lost" \/ lost = 1))
  <2> DEFINE now == IF lost = 0 THEN "sent" ELSE "lost"
  <2>1. now = "sent" \/ (now = "lost" /\ lost = 1)
    BY <1>1
  <2>2. heard \in Heard(alerted[Pay(w)], now)
    BY <1>2
  <2> HIDE DEF now
  <2>3. alerted[Pay(w)] \in {"no", "sent", "lost"}
    BY <1>0
  <2>4. CASE alerted[Pay(w)] = "no"
    <3>1. heard = now
      BY <2>2, <2>4 DEF Heard
    <3>2. QED BY <2>1, <3>1
  <2>5. CASE alerted[Pay(w)] = "lost"
    <3>1. heard = now \/ heard = "lost"
      BY <2>2, <2>5 DEF Heard
    <3>2. QED BY <2>1, <2>5, <3>1
  <2>6. CASE alerted[Pay(w)] = "sent"
    BY <2>2, <2>6 DEF Heard
  <2>7. QED BY <2>3, <2>4, <2>5, <2>6
<1>4. heard = "lost" => faults' + 2 <= MaxFaults
  <2>1. ASSUME alerted[Pay(w)] = "lost" PROVE faults' + 2 <= MaxFaults
    <3>1. faults + 2 <= MaxFaults
      BY <1>0, <2>1 DEF LostCosts
    <3>2. QED BY <1>0, <1>1, <3>1
  <2>2. ASSUME lost = 1 PROVE faults' + 2 <= MaxFaults
    BY <1>0, <1>1, <2>2
  <2>3. QED BY <1>3, <2>1, <2>2
<1>5. ASSUME NEW p \in Payments, alerted'[p] = "lost" PROVE faults' + 2 <= MaxFaults
  <2>1. CASE p = Pay(w)
    BY <1>0, <1>2, <1>4, <1>5, <2>1
  <2>2. CASE p # Pay(w)
    <3>1. alerted[p] = "lost"
      BY <1>0, <1>2, <1>5, <2>2
    <3>2. faults + 2 <= MaxFaults
      BY <3>1 DEF LostCosts
    <3>3. QED BY <1>0, <1>1, <3>2
  <2>3. QED BY <2>1, <2>2
<1>6. LostCosts'
  BY <1>5 DEF LostCosts
<1>7. alerted'[Pay(w)] = heard
  BY <1>0, <1>2
<1>8. ASSUME NEW p \in Payments, p = Pay(w) PROVE DeadLettered(p)'
  <2>1. CASE heard = "sent"
    BY <1>7, <1>8, <2>1 DEF DeadLettered
  <2>2. CASE heard = "lost"
    BY <1>4, <1>7, <1>8, <2>2 DEF DeadLettered
  <2>3. QED BY <1>3, <2>1, <2>2
<1>9. QED BY <1>6, <1>8

(* A carrier gives its job up only when the row is settled or              *)
(* dead-lettered, or every try was paid for.                               *)
LEMMA CarrierStep ==
  ASSUME KInv, TInv', Next, MayCrash = FALSE, MaxFaults < MaxRuns * MaxAttempts,
         NEW p \in Payments \ Pollable, status[p] = "PENDING", status'[p] = "PENDING",
         prov[p] = "paid", Carried(p)
  PROVE  Carried(p)' \/ DeadLettered(p)'
<1> DEFINE Goal == Carried(p)' \/ DeadLettered(p)'
<1> USE DEF KInv, JInv, IInv
<1>0. /\ queue \in Seq(Jobs) /\ queue' \in Seq(Jobs)
      /\ pc \in [Actors -> {"idle", "start", "locked", "served", "settled", "refunding"}]
      /\ hand \in [Actors -> Jobs \cup {NoJob}] /\ notices \subseteq Reports
  BY DEF TInv, TypeOK
<1>1. ASSUME NEW j \in Jobs, j.pay = p, j.st = "COMPLETED", queue' = Append(queue, j)
      PROVE  Goal
  <2>1. Len(queue') \in 1 .. Len(queue') /\ queue'[Len(queue')] = j
    BY <1>0, <1>1
  <2>2. QED BY <1>1, <2>1 DEF Carried
<1>2. ASSUME NEW n \in notices, n.pay = p, n.st = "COMPLETED" PROVE Goal
  <2>1. CASE n \in notices'
    BY <1>2, <2>1 DEF Carried
  <2>2. CASE n \notin notices'
    <3>1. ASSUME NEW m \in notices, WebhookEnqueue(m) PROVE Goal
      <4>1. m = n
        BY <2>2, <3>1 DEF WebhookEnqueue
      <4>2. [pay |-> n.pay, st |-> n.st, amt |-> n.amt, run |-> 1] \in Jobs
        BY <1>0, BoundsAssumption DEF Reports, Jobs
      <4>3. QED BY <1>1, <1>2, <3>1, <4>1, <4>2 DEF WebhookEnqueue
    <3>2. ASSUME NEW m \in notices, WebhookEnqueueFails(m) PROVE Goal
      BY <1>2, <2>2, <3>2 DEF WebhookEnqueueFails, ReconcilerCovers
    <3>3. QED
      BY <2>2, <3>1, <3>2 DEF Next, Outside, Webhook, Process, SweepPoll, CheckPoll,
         Checkout, GrowOld, ProviderCharge, ProviderDecline, Lock, Duplicate, Reject, Fulfill,
         Commit, AfterSettled, Pickup, TransientError, AfterFails, DeadLetter, PollerFails,
         Crash, Poll, RefundCall, RefundCommit
  <2>3. QED BY <2>1, <2>2
<1>3. ASSUME NEW i \in 1 .. Len(queue), queue[i].pay = p, queue[i].st = "COMPLETED" PROVE Goal
  <2>1. queue[i] \in Jobs
    BY <1>0, <1>3
  <2>2. CASE \E k \in 1 .. Len(queue') : queue'[k] = queue[i]
    BY <1>3, <2>2 DEF Carried
  <2>3. ASSUME NEW j, queue' = Append(queue, j) PROVE Goal
    <3>1. i \in 1 .. Len(queue') /\ queue'[i] = queue[i]
      BY <1>0, <2>3
    <3>2. QED BY <2>2, <3>1
  <2>4. ASSUME NEW w \in Workers, Pickup(w) PROVE Goal
    <3>1. queue # <<>> /\ queue' = Tail(queue) /\ hand'[w] = Head(queue)
          /\ w \in Actors \ Admins
      BY <1>0, <2>4, ActorsAssumption DEF Pickup, Actors
    <3>2. CASE i = 1
      <4>1. hand'[w] = queue[i]
        BY <1>0, <3>1, <3>2
      <4>2. hand'[w] # NoJob
        BY <2>1, <4>1, ActorsAssumption
      <4>3. QED BY <1>3, <3>1, <4>1, <4>2 DEF Carried
    <3>3. CASE i # 1
      <4>1. i - 1 \in 1 .. Len(queue') /\ queue'[i - 1] = queue[i]
        BY <1>0, <3>1, <3>3
      <4>2. QED BY <2>2, <4>1
    <3>4. QED BY <3>2, <3>3
  <2>5. CASE UNCHANGED queue
    BY <2>2, <2>5
  <2>6. QED
    BY <2>3, <2>4, <2>5 DEF Next, Outside, Webhook, Process, SweepPoll, CheckPoll,
       Checkout, GrowOld, ProviderCharge, ProviderDecline, WebhookEnqueue, WebhookEnqueueFails,
       Lock, Duplicate, Reject, Fulfill, Commit, AfterSettled, TransientError, AfterFails,
       DeadLetter, PollerFails, Crash, Poll, RefundCall, RefundCommit
<1>4. ASSUME NEW a \in Actors \ Admins, hand[a] # NoJob, hand[a].pay = p,
             hand[a].st = "COMPLETED"
      PROVE  Goal
  <2>1. CASE hand'[a] = hand[a]
    BY <1>4, <2>1 DEF Carried
  <2>2. CASE PutsDown(a)
    <3>1. hand[a] \in Jobs
      BY <1>0, <1>4
    <3>2. CASE Duplicate(a) \/ AfterSettled(a) \/ AfterFails(a)
      BY <1>4, <3>2 DEF Duplicate, AfterSettled, AfterFails, Claim, Pay, SettledIsDone
    <3>3. CASE Crash(a)
      BY <3>3 DEF Crash
    <3>4. CASE a \in Workers /\ TransientError(a) /\ ~TriesLeft(a)
      <4>1. Settling(a) /\ faults > 0
        BY <3>4 DEF TransientError, Fault, Settling
      <4>2. MaxFaults - faults >= Spent(hand[a].run, attempt[a])
        BY <1>4, <3>4, <4>1 DEF TriesPaid, TryPaid
      <4>3. attempt[a] = MaxAttempts
        BY <3>4, BoundsAssumption DEF TriesLeft, TInv, TypeOK
      <4>4. ~LastRun(hand[a])
        <5> SUFFICES ASSUME hand[a].run = MaxRuns PROVE FALSE
          BY DEF LastRun
        <5>1. MaxFaults - faults >= Spent(MaxRuns, MaxAttempts)
          BY <4>2, <4>3
        <5>2. Spent(MaxRuns, MaxAttempts) = MaxRuns * MaxAttempts - 1
          BY BoundsAssumption DEF Spent
        <5>3. MaxRuns * MaxAttempts \in Nat /\ faults \in Nat /\ MaxFaults \in Nat
          BY BoundsAssumption DEF TInv, TypeOK
        <5>4. QED BY <4>1, <5>1, <5>2, <5>3
      <4>5. queue' = Append(queue, [hand[a] EXCEPT !.run = @ + 1])
        BY <3>4, <4>4 DEF TransientError
      <4>6. [hand[a] EXCEPT !.run = @ + 1] \in Jobs
        BY <3>1, <4>4, NextRunIsJob
      <4>7. QED BY <1>1, <1>4, <3>1, <4>5, <4>6 DEF Jobs
    <3>5. CASE DeadLetter(a)
      BY <1>4, <3>5, DeadLetterStep DEF PutsDown, Pay
    <3>6. CASE a \in Sweeps \cup Checks /\ PollerFails(a)
      BY <1>4, <3>6 DEF PollerFails, PollersPoll, Pay, Settling
    <3>7. QED BY <1>4, <2>2, <3>2, <3>3, <3>4, <3>5, <3>6 DEF PutsDown
  <2>3. pc[a] # "idle"
    BY <1>4 DEF IdleHandsEmpty
  <2>4. QED BY <2>1, <2>2, <2>3, HandsEmptied
<1>5. QED BY <1>2, <1>3, <1>4 DEF Carried

LEMMA AlertsStay ==
  ASSUME TInv, LostCosts, [Next]_vars
  PROVE  LostCosts' /\ \A p \in Payments : DeadLettered(p) => DeadLettered(p)'
<1>0. faults \in 0 .. MaxFaults /\ MaxFaults \in Nat
  BY BoundsAssumption DEF TInv, TypeOK
<1>1. ASSUME UNCHANGED alerted, faults' <= faults, faults' \in Nat
      PROVE  LostCosts' /\ \A p \in Payments : DeadLettered(p) => DeadLettered(p)'
  <2>1. \A p \in Payments : alerted'[p] = alerted[p]
    BY <1>1
  <2>2. faults + 2 <= MaxFaults => faults' + 2 <= MaxFaults
    <3>1. \A m, f, g \in Nat : g <= f /\ f + 2 <= m => g + 2 <= m
      OBVIOUS
    <3>2. faults \in Nat
      BY <1>0
    <3>3. QED BY <1>0, <1>1, <3>1, <3>2
  <2>3. QED BY <2>1, <2>2 DEF LostCosts, DeadLettered
<1>2. ASSUME NEW w \in Workers, DeadLetter(w)
      PROVE  LostCosts' /\ \A p \in Payments : DeadLettered(p) => DeadLettered(p)'
  <2>1. LostCosts' /\ Pay(w) \in Payments /\ w \in Actors
    BY <1>2, DeadLetterStep DEF DeadLetter, Actors, Jobs, TInv, HandsFull, Pay
  <2>2. \A p \in Payments : alerted[p] # "no" => alerted'[p] \in {"sent", "lost"}
    <3>1. PICK lost \in {0, 1} :
             \E heard \in Heard(alerted[Pay(w)], IF lost = 0 THEN "sent" ELSE "lost") :
                alerted' = [alerted EXCEPT ![Pay(w)] = heard]
      BY <1>2 DEF DeadLetter
    <3>2. alerted \in [Payments -> {"no", "sent", "lost"}]
      BY DEF TInv, TypeOK
    <3>3. Heard(alerted[Pay(w)], IF lost = 0 THEN "sent" ELSE "lost") \subseteq {"sent", "lost"}
      BY <2>1, <3>2 DEF Heard
    <3>4. QED BY <3>1, <3>2, <3>3
  <2>3. QED BY <2>1, <2>2 DEF LostCosts, DeadLettered
<1>3. CASE UNCHANGED vars
  BY <1>0, <1>1, <1>3 DEF vars, effectVars
<1>4. CASE Next
  <2>1. UNCHANGED alerted \/ \E w \in Workers : DeadLetter(w)
    BY <1>4 DEF Next, Outside, Webhook, Process, SweepPoll, CheckPoll, Checkout,
       GrowOld, ProviderCharge, ProviderDecline, WebhookEnqueue, WebhookEnqueueFails, Lock,
       Duplicate, Reject, Fulfill, Commit, AfterSettled, Pickup, TransientError, AfterFails,
       PollerFails, Crash, Poll, RefundCall, RefundCommit, effectVars
  <2>2. QED BY <1>1, <1>2, <2>1, FaultsStep
<1>5. QED BY <1>3, <1>4

LEMMA NotForgottenStep ==
  ASSUME KInv, [Next]_vars, MayCrash = FALSE, MaxFaults < MaxRuns * MaxAttempts
  PROVE  PaidIsNotForgotten'
<1> USE DEF KInv, JInv, IInv
<1> SUFFICES ASSUME NEW p \in Payments \ Pollable, status'[p] = "PENDING", prov'[p] = "paid"
             PROVE  Carried(p)' \/ DeadLettered(p)'
  BY DEF PaidIsNotForgotten
<1>1. CASE UNCHANGED vars
  BY <1>1 DEF PaidIsNotForgotten, Carried, DeadLettered, vars, rowVars, effectVars, provVars,
     actorVars
<1>2. CASE Next /\ prov[p] = "paid"
  <2>1. status[p] = "PENDING"
    BY <1>2, PendingBefore
  <2>2. DeadLettered(p) => DeadLettered(p)'
    BY <1>2, AlertsStay
  <2>3. Carried(p) \/ DeadLettered(p)
    BY <1>2, <2>1 DEF PaidIsNotForgotten
  <2>4. TInv'
    BY TInvStep
  <2>5. QED BY <1>2, <2>1, <2>2, <2>3, <2>4, CarrierStep
<1>3. CASE Next /\ prov[p] # "paid"
  <2>0. PICK q \in Payments : \E c \in Chargeable(q) : ProviderCharge(q, c)
    BY <1>3 DEF Next, Outside, Webhook, Process, SweepPoll, CheckPoll, Checkout,
       GrowOld, ProviderDecline, WebhookEnqueue, WebhookEnqueueFails, Lock, Duplicate, Reject,
       Fulfill, Commit, AfterSettled, Pickup, TransientError, AfterFails, DeadLetter,
       PollerFails, Crash, Poll, RefundCall, RefundCommit, provVars, TInv, TypeOK
  <2>1. PICK c \in Chargeable(q) : ProviderCharge(q, c)
    BY <2>0
  <2>2. q = p
    BY <1>3, <2>1 DEF ProviderCharge, TInv, TypeOK
  <2>3. PICK amt \in Reported(p, c) :
            notices' = notices \cup {[pay |-> p, st |-> "COMPLETED", amt |-> amt]}
    BY <2>1, <2>2 DEF ProviderCharge
  <2> DEFINE n == [pay |-> p, st |-> "COMPLETED", amt |-> amt]
  <2>4. n \in notices' /\ n.pay = p /\ n.st = "COMPLETED"
    BY <2>3
  <2> HIDE DEF n
  <2>5. QED BY <2>4 DEF Carried
<1>4. QED BY <1>1, <1>2, <1>3

(* While no process dies, and the environment fails less often than the    *)
(* task retries (one failure fewer than its tries, over all its runs), a   *)
(* payment the provider took and no poll can recover is on its way, or the *)
(* admins were alerted, or their alert failed after the settlement did.    *)
THEOREM PaidStaysOnItsWay ==
  ASSUME MayCrash = FALSE, MaxFaults < MaxRuns * MaxAttempts
  PROVE  Spec => []PaidIsNotForgotten
<1>1. Init => KInv
  <2> SUFFICES ASSUME Init PROVE KInv
    OBVIOUS
  <2>1. JInv
    BY JInvInductive
  <2>2. QED
    BY <2>1 DEF Init, KInv, TriesPaid, IdleHandsEmpty, LostCosts, PaidIsNotForgotten, Settling,
       Actors
<1>2. KInv /\ [Next]_vars => KInv'
  <2> SUFFICES ASSUME KInv, [Next]_vars PROVE KInv'
    OBVIOUS
  <2>1. JInv'
    BY JInvInductive DEF KInv
  <2>2. TriesPaid'
    BY TriesStep DEF KInv
  <2>3. IdleHandsEmpty'
    BY HandsEmptied DEF KInv, JInv, IInv, IdleHandsEmpty
  <2>4. PaidIsNotForgotten'
    BY NotForgottenStep
  <2>5. LostCosts'
    BY AlertsStay DEF KInv, JInv, IInv
  <2>6. QED BY <2>1, <2>2, <2>3, <2>4, <2>5 DEF KInv
<1>3. KInv => PaidIsNotForgotten
  BY DEF KInv
<1>4. QED BY <1>1, <1>2, <1>3, PTL DEF Spec
=============================================================================
