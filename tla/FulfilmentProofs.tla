-------------------------- MODULE FulfilmentProofs --------------------------
(***************************************************************************)
(* Machine-checked proofs about Fulfilment, for any orders and plans.  The *)
(* argument: a session past the user's lock owns it, so between its read   *)
(* of the subscription and its commit the row it loaded is still the row;  *)
(* autopay, which reads before it owns that lock, holds the row's own.     *)
(***************************************************************************)
EXTENDS Fulfilment, FiniteSetTheorems, TLAPS

(* An autopay run that has locked its subscription. *)
Holds(o) ==
    /\ target[o] \in Subs
    /\ subLock[target[o]] = o
    /\ due[target[o]]
    /\ base[o] = sub[target[o]]
    /\ sub[target[o]] # NoSub
    /\ sub[target[o]].plan # NoPlan

OwnsUser(o) == pc[o] \in {"locked", "loaded", "written"} => userLock = o
Steps(o) ==
    /\ o \in Autopays => pc[o] \in {"idle", "claimed", "loaded", "written"}
    /\ o \notin Autopays => pc[o] # "claimed"
BaseIsRow(o) ==
    pc[o] \in {"loaded", "written"} => target[o] \in Subs /\ base[o] = sub[target[o]]
Resolved(o) ==
    o \in Buys /\ pc[o] \in {"loaded", "written"} =>
        target[o] = IF seen[o] = None THEN o ELSE seen[o]
TargetExists(o) ==
    o \in Topups /\ pc[o] # "idle" => target[o] \in Subs /\ sub[target[o]] # NoSub
SeenExists(o) == seen[o] # None => sub[seen[o]] # NoSub
PanelWritten(o) == pc[o] = "written" => panel[target[o]] = Applied(o, base[o])

SessionInv(o) ==
    /\ Steps(o)
    /\ OwnsUser(o)
    /\ o \in Autopays /\ pc[o] # "idle" => Holds(o)
    /\ BaseIsRow(o)
    /\ Resolved(o)
    /\ TargetExists(o)
    /\ SeenExists(o)
    /\ PanelWritten(o)

CurrentExists == current # None => sub[current] # NoSub

IInv ==
    /\ TypeOK
    /\ CurrentExists
    /\ PaidTimeKept
    /\ PanelNeverBehind
    /\ \A o \in Orders : SessionInv(o)

-----------------------------------------------------------------------------
(* What a step of order o leaves alone for the session of order x. *)
Frame(o, x) ==
    /\ pc'[x] = pc[x] /\ seen'[x] = seen[x]
    /\ target'[x] = target[x] /\ base'[x] = base[x]
    /\ userLock = x => userLock' = x /\ sub' = sub /\ panel' = panel
    /\ \A s \in Subs : sub[s] # NoSub => sub'[s] # NoSub
    /\ \A s \in Subs : subLock[s] = x =>
         /\ subLock'[s] = x /\ sub'[s] = sub[s]
         /\ due[s] => due'[s]

LEMMA OthersKeep ==
  ASSUME TypeOK, NEW o, NEW x \in Orders, Frame(o, x), SessionInv(x)
  PROVE  SessionInv(x)'
<1>1. Steps(x)' /\ OwnsUser(x)'
  BY DEF SessionInv, Steps, OwnsUser, Frame
<1>2. (x \in Autopays /\ pc[x] # "idle" => Holds(x))'
  BY DEF SessionInv, Holds, Frame
<1>3. BaseIsRow(x)'
  BY DEF SessionInv, OwnsUser, BaseIsRow, Frame
<1>4. Resolved(x)' /\ TargetExists(x)'
  BY DEF SessionInv, Resolved, TargetExists, Frame
<1>5. SeenExists(x)'
  BY DEF SessionInv, SeenExists, Frame, TypeOK
<1>6. PanelWritten(x)'
  BY DEF SessionInv, OwnsUser, PanelWritten, Applied, Kind, IsTopup, Frame
<1>7. QED BY <1>1, <1>2, <1>3, <1>4, <1>5, <1>6 DEF SessionInv

LEMMA StepKeeps ==
  ASSUME IInv, NEW o \in Orders, TypeOK', CurrentExists', PaidTimeKept',
         PanelNeverBehind', SessionInv(o)', \A x \in Orders \ {o} : Frame(o, x)
  PROVE  IInv'
<1>1. ASSUME NEW x \in Orders, x # o PROVE SessionInv(x)'
  BY <1>1, OthersKeep DEF IInv
<1>2. QED BY <1>1 DEF IInv

(* Steps that leave the rows and the panel alone. *)
LEMMA QuietKeeps ==
  ASSUME IInv, UNCHANGED <<current, sub, done, panel>>
  PROVE  CurrentExists' /\ PaidTimeKept' /\ PanelNeverBehind'
BY DEF IInv, CurrentExists, PaidTimeKept, PanelNeverBehind

(* The subscription a fulfilment resolves to is one of the user's. *)
LEMMA ResolveType ==
  ASSUME IInv, NEW o \in Orders, o \notin Autopays, pc[o] # "idle"
  PROVE  /\ Resolve(o) \in Subs
         /\ o \in Buys => Resolve(o) = IF seen[o] = None THEN o ELSE seen[o]
<1>1. SessionInv(o) /\ seen[o] \in Subs \cup {None} /\ Buys \subseteq Subs
  BY DEF IInv, TypeOK, Subs
<1>2. CASE o \in Topups
  BY <1>1, <1>2, OrdersAssumption DEF SessionInv, TargetExists, Resolve, IsTopup
<1>3. CASE o \in Buys
  BY <1>1, <1>3, OrdersAssumption DEF Resolve, IsTopup, ResolvedSub
<1>4. QED BY <1>2, <1>3 DEF Orders

LEMMA AppliedType ==
  ASSUME IInv, NEW o \in Orders, pc[o] \in {"loaded", "written"}
  PROVE  /\ Applied(o, base[o]) \in Sub
         /\ target[o] \in Subs /\ base[o] = sub[target[o]]
         /\ sub[target[o]] # NoSub => sub[target[o]] \in Sub
         /\ o \notin Topups => o \in Applied(o, base[o]).time
         /\ sub[target[o]] # NoSub => base[o].time \subseteq Applied(o, base[o]).time
         /\ sub[target[o]] # NoSub =>
              \/ base[o].packs \subseteq Applied(o, base[o]).packs
              \/ base[o].plan # Applied(o, base[o]).plan
<1>1. target[o] \in Subs /\ base[o] = sub[target[o]] /\ base[o] \in Sub \cup {NoSub}
  BY DEF IInv, SessionInv, BaseIsRow, TypeOK
<1>2. CASE o \in Autopays
  <2>1. base[o] # NoSub /\ base[o].plan # NoPlan
    BY <1>1, <1>2 DEF IInv, SessionInv, Holds
  <2>2. Kind(o) = "renew"
    BY <1>2 DEF Kind
  <2>3. Applied(o, base[o]) = [plan |-> base[o].plan, time |-> base[o].time \cup {o}, packs |-> base[o].packs]
    BY <2>1, <2>2, <1>1 DEF Applied, Sub
  <2>4. o \notin Topups
    BY <1>2, OrdersAssumption
  <2>5. QED BY <1>1, <2>1, <2>3, <2>4 DEF Sub
<1>3. CASE o \in Topups
  <2>1. base[o] # NoSub
    BY <1>1, <1>3 DEF IInv, SessionInv, TargetExists
  <2>2. Kind(o) = "topup"
    BY <1>3, OrdersAssumption DEF Kind, IsTopup
  <2>3. Applied(o, base[o]) = [plan |-> base[o].plan, time |-> base[o].time, packs |-> base[o].packs \cup {o}]
    BY <2>2 DEF Applied
  <2>4. QED BY <1>1, <1>3, <2>1, <2>3 DEF Sub
<1>4. CASE o \in Buys
  <2>1. Plan[o] \in Plans /\ o \notin Topups /\ o \notin Autopays
    BY <1>4, PlansAssumption, OrdersAssumption
  <2>2. CASE base[o] = NoSub
    <3>1. Applied(o, base[o]) = [plan |-> Plan[o], time |-> {o}, packs |-> {}]
      BY <2>1, <2>2 DEF Applied, Kind, IsTopup
    <3>2. QED BY <1>1, <2>1, <2>2, <3>1 DEF Sub
  <2>3. CASE base[o] # NoSub /\ base[o].plan \in {Plan[o], NoPlan}
    <3>1. Kind(o) = "renew"
      BY <2>1, <2>3 DEF Kind, IsTopup
    <3>2. Applied(o, base[o]) = [plan |-> Plan[o], time |-> base[o].time \cup {o}, packs |-> base[o].packs]
      BY <1>1, <2>3, <3>1 DEF Applied, Sub
    <3>3. QED BY <1>1, <2>1, <2>3, <3>2 DEF Sub
  <2>4. CASE base[o] # NoSub /\ base[o].plan \notin {Plan[o], NoPlan}
    <3>1. Kind(o) = "change"
      BY <2>1, <2>4 DEF Kind, IsTopup
    <3>2. Applied(o, base[o]) = [plan |-> Plan[o], time |-> base[o].time \cup {o}, packs |-> {}]
      BY <3>1 DEF Applied
    <3>3. QED BY <1>1, <2>1, <2>4, <3>2 DEF Sub
  <2>5. QED BY <2>2, <2>3, <2>4
<1>5. QED BY <1>2, <1>3, <1>4 DEF Orders

-----------------------------------------------------------------------------
THEOREM InitIInv == Init => IInv
<1> SUFFICES ASSUME Init PROVE IInv
  OBVIOUS
<1>1. FirstSub \in Sub /\ FirstSub # NoSub
  BY PlansAssumption, OrdersAssumption DEF FirstSub, Sub
<1>2. TypeOK
  BY <1>1, PlansAssumption DEF Init, TypeOK, Subs
<1>3. CurrentExists
  BY <1>1 DEF Init, CurrentExists, Subs
<1>4. PaidTimeKept /\ PanelNeverBehind
  BY DEF Init, PaidTimeKept, PanelNeverBehind
<1>5. ASSUME NEW o \in Orders PROVE SessionInv(o)
  BY <1>5 DEF Init, SessionInv, Steps, OwnsUser, BaseIsRow, Resolved, TargetExists,
     SeenExists, PanelWritten
<1>6. QED BY <1>2, <1>3, <1>4, <1>5 DEF IInv

LEMMA CheckoutKeeps ==
  ASSUME IInv, NEW o \in Orders, Checkout(o) PROVE IInv'
<1>1. TypeOK'
  BY DEF IInv, TypeOK, Checkout, rows, locks
<1>2. CurrentExists' /\ PaidTimeKept' /\ PanelNeverBehind'
  BY QuietKeeps DEF Checkout, rows
<1>3. SessionInv(o)'
  <2>1. o \notin Autopays /\ SessionInv(o) /\ pc'[o] = "paid"
    BY OrdersAssumption DEF IInv, TypeOK, Checkout, Buys
  <2>2. TargetExists(o)'
    BY <2>1 DEF IInv, TypeOK, CurrentExists, TargetExists, Checkout, rows
  <2>3. SeenExists(o)'
    BY <2>1 DEF SessionInv, SeenExists, Checkout, rows
  <2>4. QED
    BY <2>1, <2>2, <2>3 DEF SessionInv, Steps, OwnsUser, BaseIsRow, Resolved, PanelWritten
<1>4. \A x \in Orders \ {o} : Frame(o, x)
  BY DEF IInv, TypeOK, Checkout, Frame, rows, locks
<1>5. QED BY <1>1, <1>2, <1>3, <1>4, StepKeeps

LEMMA ReadUserKeeps ==
  ASSUME IInv, NEW o \in Orders, ReadUser(o) PROVE IInv'
<1>1. TypeOK'
  BY DEF IInv, TypeOK, ReadUser, rows, locks
<1>2. CurrentExists' /\ PaidTimeKept' /\ PanelNeverBehind'
  BY QuietKeeps DEF ReadUser, rows
<1>3. SessionInv(o)'
  <2>1. o \notin Autopays /\ SessionInv(o) /\ pc'[o] = "read" /\ pc[o] = "paid"
    BY DEF IInv, TypeOK, ReadUser, ReadsFirst, Ready, SessionInv, Steps
  <2>2. TargetExists(o)'
    BY <2>1 DEF SessionInv, TargetExists, ReadUser, rows
  <2>3. SeenExists(o)'
    BY DEF IInv, TypeOK, CurrentExists, SeenExists, ReadUser, rows
  <2>4. QED
    BY <2>1, <2>2, <2>3 DEF SessionInv, Steps, OwnsUser, BaseIsRow, Resolved, PanelWritten
<1>4. \A x \in Orders \ {o} : Frame(o, x)
  BY DEF IInv, TypeOK, ReadUser, Frame, rows, locks
<1>5. QED BY <1>1, <1>2, <1>3, <1>4, StepKeeps

LEMMA LockUserKeeps ==
  ASSUME IInv, NEW o \in Orders, LockUser(o) PROVE IInv'
<1>1. TypeOK'
  BY DEF IInv, TypeOK, LockUser, LocksUser, rows
<1>2. CurrentExists' /\ PaidTimeKept' /\ PanelNeverBehind'
  BY QuietKeeps DEF LockUser, rows
<1>3. SessionInv(o)'
  <2>1. /\ o \notin Autopays /\ SessionInv(o)
        /\ pc'[o] = "locked" /\ userLock' = o
        /\ pc[o] # "idle" \/ o \notin Topups
    BY OrdersAssumption
    DEF IInv, TypeOK, LockUser, LocksUser, ReadsFirst, Ready, SessionInv, Steps, Buys
  <2>2. TargetExists(o)'
    BY <2>1 DEF SessionInv, TargetExists, LockUser, rows
  <2>3. SeenExists(o)'
    BY DEF IInv, TypeOK, CurrentExists, SessionInv, SeenExists, LockUser, rows
  <2>4. QED
    BY <2>1, <2>2, <2>3 DEF SessionInv, Steps, OwnsUser, BaseIsRow, Resolved, PanelWritten
<1>4. \A x \in Orders \ {o} : Frame(o, x)
  BY OrdersAssumption DEF IInv, TypeOK, LockUser, LocksUser, Frame, rows
<1>5. QED BY <1>1, <1>2, <1>3, <1>4, StepKeeps

LEMMA LoadKeeps ==
  ASSUME IInv, NEW o \in Orders, Load(o) PROVE IInv'
<1> USE DEF Load, rows, locks
<1>1. SessionInv(o) /\ o \notin Autopays /\ pc'[o] = "loaded" /\ pc[o] = "locked"
  BY DEF IInv, TypeOK, SessionInv, Steps
<1>2. Resolve(o) \in Subs /\ (o \in Buys => Resolve(o) = IF seen[o] = None THEN o ELSE seen[o])
  BY <1>1, ResolveType
<1>3. target'[o] = Resolve(o) /\ base'[o] = sub[Resolve(o)]
  BY DEF IInv, TypeOK
<1>4. TypeOK'
  BY <1>2 DEF IInv, TypeOK
<1>5. CurrentExists' /\ PaidTimeKept' /\ PanelNeverBehind'
  BY QuietKeeps
<1>6. SessionInv(o)'
  <2>1. TargetExists(o)'
    BY <1>1, <1>2, <1>3 DEF SessionInv, TargetExists, Resolve, IsTopup
  <2>2. SeenExists(o)' /\ OwnsUser(o)' /\ BaseIsRow(o)' /\ Resolved(o)'
    BY <1>1, <1>2, <1>3 DEF SessionInv, SeenExists, OwnsUser, BaseIsRow, Resolved
  <2>3. QED
    BY <1>1, <2>1, <2>2 DEF SessionInv, Steps, PanelWritten
<1>7. \A x \in Orders \ {o} : Frame(o, x)
  BY DEF IInv, TypeOK, Frame
<1>8. QED BY <1>4, <1>5, <1>6, <1>7, StepKeeps

LEMMA AutopayLockKeeps ==
  ASSUME IInv, NEW o \in Orders, NEW s \in Subs, AutopayLock(o, s) PROVE IInv'
<1> USE DEF AutopayLock, rows, locks
<1>1. TypeOK'
  BY DEF IInv, TypeOK
<1>2. CurrentExists' /\ PaidTimeKept' /\ PanelNeverBehind'
  BY QuietKeeps
<1>3. SessionInv(o)'
  <2>1. o \notin Buys \cup Topups /\ SessionInv(o) /\ pc'[o] = "claimed"
    BY OrdersAssumption DEF IInv, TypeOK
  <2>2. Holds(o)'
    BY DEF IInv, TypeOK, Holds
  <2>3. SeenExists(o)'
    BY <2>1 DEF SessionInv, SeenExists
  <2>4. QED
    BY <2>1, <2>2, <2>3
    DEF SessionInv, Steps, OwnsUser, BaseIsRow, Resolved, TargetExists, PanelWritten
<1>4. \A x \in Orders \ {o} : Frame(o, x)
  BY OrdersAssumption DEF IInv, TypeOK, SubFree, Frame
<1>5. QED BY <1>1, <1>2, <1>3, <1>4, StepKeeps

LEMMA AutopayDebitKeeps ==
  ASSUME IInv, NEW o \in Orders, AutopayDebit(o) PROVE IInv'
<1> USE DEF AutopayDebit, rows
<1>1. TypeOK'
  BY DEF IInv, TypeOK
<1>2. CurrentExists' /\ PaidTimeKept' /\ PanelNeverBehind'
  BY QuietKeeps
<1>3. SessionInv(o)'
  <2>1. /\ SessionInv(o) /\ o \in Autopays /\ o \notin Buys \cup Topups
        /\ pc[o] = "claimed" /\ pc'[o] = "loaded" /\ userLock' = o
    BY OrdersAssumption DEF IInv, TypeOK, SessionInv, Steps
  <2>2. Holds(o) /\ Holds(o)'
    BY <2>1 DEF SessionInv, Holds
  <2>3. BaseIsRow(o)' /\ SeenExists(o)'
    BY <2>1, <2>2 DEF Holds, BaseIsRow, SessionInv, SeenExists
  <2>4. QED
    BY <2>1, <2>2, <2>3
    DEF SessionInv, Steps, OwnsUser, Resolved, TargetExists, PanelWritten
<1>4. \A x \in Orders \ {o} : Frame(o, x)
  BY OrdersAssumption DEF IInv, TypeOK, Frame
<1>5. QED BY <1>1, <1>2, <1>3, <1>4, StepKeeps

(* Time passes for every session alike. *)
LEMMA ComeDueKeeps ==
  ASSUME IInv, NEW s \in Subs, ComeDue(s) PROVE IInv'
<1> USE DEF ComeDue, session, locks
<1>1. TypeOK'
  BY DEF IInv, TypeOK
<1>2. CurrentExists' /\ PaidTimeKept' /\ PanelNeverBehind'
  BY QuietKeeps
<1>3. ASSUME NEW x \in Orders PROVE SessionInv(x)'
  <2>1. Frame(None, x)
    BY DEF IInv, TypeOK, Frame
  <2>2. QED BY <2>1, OthersKeep DEF IInv
<1>4. QED BY <1>1, <1>2, <1>3 DEF IInv

LEMMA PanelWriteKeeps ==
  ASSUME IInv, NEW o \in Orders, PanelWrite(o) PROVE IInv'
<1> USE DEF PanelWrite, PanelSpec, rows, locks
<1>1. /\ SessionInv(o) /\ pc[o] = "loaded" /\ pc'[o] = "written" /\ userLock = o
      /\ target[o] \in Subs /\ base[o] = sub[target[o]]
      /\ Applied(o, base[o]) \in Sub
      /\ sub[target[o]] # NoSub => base[o].time \subseteq Applied(o, base[o]).time
  BY AppliedType DEF IInv, TypeOK, SessionInv, OwnsUser
<1>2. panel' = [panel EXCEPT ![target[o]] = Applied(o, base[o])]
  OBVIOUS
<1>3. TypeOK'
  BY <1>1 DEF IInv, TypeOK
<1>4. CurrentExists' /\ PaidTimeKept'
  BY DEF IInv, CurrentExists, PaidTimeKept
<1>5. PanelNeverBehind'
  BY <1>1, <1>2, OrdersAssumption DEF IInv, TypeOK, PanelNeverBehind
<1>6. SessionInv(o)'
  <2>1. PanelWritten(o)'
    BY <1>1, <1>2 DEF IInv, TypeOK, PanelWritten, Applied, Kind, IsTopup
  <2>2. (o \in Autopays => Holds(o))' /\ BaseIsRow(o)' /\ Resolved(o)'
    BY <1>1 DEF SessionInv, Holds, BaseIsRow, Resolved
  <2>3. QED
    BY <1>1, <2>1, <2>2 DEF SessionInv, Steps, OwnsUser, TargetExists, SeenExists
<1>7. \A x \in Orders \ {o} : Frame(o, x)
  BY <1>1 DEF IInv, TypeOK, Frame
<1>8. QED BY <1>3, <1>4, <1>5, <1>6, <1>7, StepKeeps

LEMMA CommitKeeps ==
  ASSUME IInv, NEW o \in Orders, Commit(o) PROVE IInv'
<1> USE DEF Commit, Release
<1>1. /\ SessionInv(o) /\ pc[o] = "written" /\ pc'[o] = "idle" /\ userLock = o
      /\ panel[target[o]] = Applied(o, base[o])
  BY DEF IInv, TypeOK, SessionInv, OwnsUser, PanelWritten
<1>2. /\ target[o] \in Subs /\ base[o] = sub[target[o]]
      /\ Applied(o, base[o]) \in Sub
      /\ o \notin Topups => o \in Applied(o, base[o]).time
      /\ sub[target[o]] # NoSub => base[o].time \subseteq Applied(o, base[o]).time
  BY <1>1, AppliedType
<1>3. sub' = [sub EXCEPT ![target[o]] = Applied(o, base[o])]
  BY <1>2 DEF IInv, TypeOK
<1>4. \A s \in Subs : sub[s] # NoSub =>
         sub'[s] # NoSub /\ sub[s].time \subseteq sub'[s].time
  BY <1>2, <1>3, OrdersAssumption DEF IInv, TypeOK
<1>5. TypeOK'
  BY <1>2, <1>3 DEF IInv, TypeOK
<1>6. CurrentExists'
  BY <1>2, <1>3, <1>4, OrdersAssumption DEF IInv, TypeOK, CurrentExists
<1>7. PaidTimeKept'
  <2>1. SUFFICES ASSUME NEW x \in done' \ Topups
                 PROVE  \E s \in Subs : sub'[s] # NoSub /\ x \in sub'[s].time
    BY DEF PaidTimeKept
  <2>2. CASE x = o
    BY <1>2, <1>3, <2>1, <2>2, OrdersAssumption DEF IInv, TypeOK
  <2>3. CASE x # o
    BY <1>4, <2>1, <2>3 DEF IInv, PaidTimeKept
  <2>4. QED BY <2>2, <2>3
<1>8. PanelNeverBehind'
  BY <1>1, <1>2, <1>3, OrdersAssumption DEF IInv, TypeOK, PanelNeverBehind
<1>9. SessionInv(o)'
  <2>1. SeenExists(o)'
    BY <1>1, <1>4 DEF IInv, TypeOK, SessionInv, SeenExists
  <2>2. QED
    BY <1>1, <2>1
    DEF SessionInv, Steps, OwnsUser, BaseIsRow, Resolved, TargetExists, PanelWritten
<1>10. ASSUME NEW x \in Orders \ {o} PROVE Frame(o, x)
  <2>1. pc'[x] = pc[x] /\ seen'[x] = seen[x] /\ target'[x] = target[x] /\ base'[x] = base[x]
    BY DEF IInv, TypeOK
  <2>2. ASSUME NEW s \in Subs, subLock[s] = x
        PROVE  subLock'[s] = x /\ sub'[s] = sub[s] /\ (due[s] => due'[s])
    <3>1. s # target[o] /\ subLock'[s] = x
      BY <1>10, <2>2, OrdersAssumption
    <3>2. sub'[s] = sub[s] /\ due'[s] = due[s]
      BY <1>2, <1>3, <3>1 DEF IInv, TypeOK
    <3>3. QED BY <3>1, <3>2
  <2>3. QED BY <1>1, <1>4, <1>10, <2>1, <2>2 DEF Frame
<1>11. QED BY <1>5, <1>6, <1>7, <1>8, <1>9, <1>10, StepKeeps

(* Every way a session gives up. *)
LEMMA AbandonKeeps ==
  ASSUME IInv, NEW o \in Orders, pc[o] # "idle", Abandon(o),
         faults' \in 0 .. MaxFaults
  PROVE  IInv'
<1> USE DEF Abandon, Release, rows
<1>1. TypeOK'
  BY DEF IInv, TypeOK
<1>2. CurrentExists' /\ PaidTimeKept' /\ PanelNeverBehind'
  BY QuietKeeps
<1>3. SessionInv(o)'
  <2>1. SessionInv(o) /\ pc'[o] = IF o \in Hosted \cup Topups THEN "paid" ELSE "idle"
    BY DEF IInv, TypeOK
  <2>2. o \in Autopays => pc'[o] = "idle"
    BY <2>1, OrdersAssumption DEF Buys
  <2>3. TargetExists(o)' /\ SeenExists(o)'
    BY <2>1 DEF SessionInv, TargetExists, SeenExists
  <2>4. QED
    BY <2>1, <2>2, <2>3
    DEF SessionInv, Steps, OwnsUser, BaseIsRow, Resolved, PanelWritten
<1>4. \A x \in Orders \ {o} : Frame(o, x)
  BY DEF IInv, TypeOK, Frame
<1>5. QED BY <1>1, <1>2, <1>3, <1>4, StepKeeps

LEMMA StutterKeeps ==
  ASSUME IInv, UNCHANGED vars PROVE IInv'
<1> USE DEF vars, rows, session, locks
<1>1. TypeOK' /\ CurrentExists' /\ PaidTimeKept' /\ PanelNeverBehind'
  BY QuietKeeps DEF IInv, TypeOK
<1>2. ASSUME NEW x \in Orders PROVE SessionInv(x)'
  <2>1. Frame(None, x)
    BY DEF IInv, TypeOK, Frame
  <2>2. QED BY <2>1, OthersKeep DEF IInv
<1>3. QED BY <1>1, <1>2 DEF IInv

THEOREM IInvStep == IInv /\ [Next]_vars => IInv'
<1> SUFFICES ASSUME IInv, [Next]_vars PROVE IInv'
  OBVIOUS
<1>1. CASE UNCHANGED vars
  BY <1>1, StutterKeeps
<1>2. CASE \E s \in Subs : ComeDue(s)
  BY <1>2, ComeDueKeeps
<1>3. ASSUME NEW o \in Orders, NEW s \in Subs, AutopayLock(o, s) PROVE IInv'
  BY <1>3, AutopayLockKeeps
<1>4. ASSUME NEW o \in Orders, Checkout(o) \/ Work(o) PROVE IInv'
  <2>1. CASE Checkout(o) \/ ReadUser(o) \/ LockUser(o) \/ Load(o)
    BY <2>1, CheckoutKeeps, ReadUserKeeps, LockUserKeeps, LoadKeeps
  <2>2. CASE AutopayDebit(o) \/ PanelWrite(o) \/ Commit(o)
    BY <2>2, AutopayDebitKeeps, PanelWriteKeeps, CommitKeeps
  <2>3. CASE DuplicateKey(o)
    BY <2>3, AbandonKeeps DEF DuplicateKey, IInv, TypeOK
  <2>4. QED BY <1>4, <2>1, <2>2, <2>3 DEF Work
<1>5. ASSUME NEW o \in Orders, Fail(o) \/ Declined(o) \/ DeadlockVictim(o) PROVE IInv'
  <2>1. pc[o] # "idle"
    BY <1>5 DEF Fail, Declined, DeadlockVictim, Crossed
  <2>2. faults' \in 0 .. MaxFaults
    BY <1>5, PlansAssumption DEF Fail, Declined, DeadlockVictim, IInv, TypeOK
  <2>3. QED BY <1>5, <2>1, <2>2, AbandonKeeps DEF Fail, Declined, DeadlockVictim
<1>6. QED BY <1>1, <1>2, <1>3, <1>4, <1>5 DEF Next

THEOREM Invariance == Spec => []IInv
BY InitIInv, IInvStep, PTL DEF Spec

(* Every variable keeps its type: a session never works on a subscription  *)
(* that is not the user's.                                                 *)
THEOREM TypeCorrect == Spec => []TypeOK
BY Invariance, PTL DEF IInv

(* Days that were paid for and delivered are never lost to a concurrent    *)
(* fulfilment or autopay, whatever fails and is retried.                   *)
THEOREM PaidTimeSafe == Spec => []PaidTimeKept
BY Invariance, PTL DEF IInv

(* The panel holds every day of a subscription's row: it is written first. *)
THEOREM PanelFirst == Spec => []PanelNeverBehind
BY Invariance, PTL DEF IInv

-----------------------------------------------------------------------------
(* Only a commit changes a row. *)
LEMMA OnlyCommits ==
  ASSUME IInv, [Next]_vars, sub' # sub \/ done' # done
  PROVE  \E o \in Orders : Commit(o)
BY DEF Next, Work, Checkout, ReadUser, LockUser, Load, AutopayDebit, PanelWrite, DuplicateKey,
   Fail, Declined, DeadlockVictim, AutopayLock, ComeDue, Abandon, vars, rows

(* What a commit writes is made of the row it replaces. *)
LEMMA CommitWrites ==
  ASSUME IInv, NEW o \in Orders, Commit(o)
  PROVE  /\ target[o] \in Subs /\ SessionInv(o)
         /\ sub' = [sub EXCEPT ![target[o]] = Applied(o, base[o])]
         /\ base[o] = sub[target[o]]
         /\ sub[target[o]] # NoSub =>
              \/ base[o].packs \subseteq Applied(o, base[o]).packs
              \/ base[o].plan # Applied(o, base[o]).plan
BY AppliedType DEF IInv, TypeOK, Commit

(* A pack that was delivered is lost to nothing but a change of plan.      *)
THEOREM PacksSafe == Spec => PacksKept
<1> DEFINE Kept == \A s \in Subs : sub[s] # NoSub =>
                     sub[s].packs \subseteq sub'[s].packs \/ sub'[s].plan # sub[s].plan
<1>1. ASSUME IInv, [Next]_vars PROVE [Kept]_vars
  <2>1. CASE sub' = sub
    BY <2>1
  <2>2. CASE sub' # sub
    <3>1. PICK o \in Orders : Commit(o)
      BY <1>1, <2>2, OnlyCommits
    <3>2. QED BY <1>1, <3>1, CommitWrites DEF IInv, TypeOK
  <2>3. QED BY <2>1, <2>2
<1>2. QED BY <1>1, Invariance, PTL DEF Spec, PacksKept

(* However its runs overlap, autopay renews a subscription once a period.  *)
THEOREM AutopayOnce == Spec => RenewedOncePerPeriod
<1> DEFINE Once == \A o \in Autopays : o \in done' \ done => due[target[o]]
<1>1. ASSUME IInv, [Next]_vars PROVE [Once]_vars
  <2>1. CASE done' = done
    BY <2>1
  <2>2. CASE done' # done
    <3>1. PICK o \in Orders : Commit(o)
      BY <1>1, <2>2, OnlyCommits
    <3>2. done' = done \cup {o} /\ (o \in Autopays => Holds(o))
      BY <1>1, <3>1, CommitWrites DEF Commit, SessionInv
    <3>3. QED BY <3>2 DEF Holds
  <2>3. QED BY <2>1, <2>2
<1>2. QED BY <1>1, Invariance, PTL DEF Spec, RenewedOncePerPeriod

-----------------------------------------------------------------------------
(* A fulfilment that found no subscription still has none to find: it read *)
(* the user under the lock, or the user had one from the start.            *)
Fresh(o) ==
    o \in Buys =>
      /\ pc[o] = "read" => seen[o] # None
      /\ pc[o] \in {"locked", "loaded", "written"} /\ seen[o] = None => current = None

Single ==
    /\ \A s \in Subs : sub[s] # NoSub => s = current
    /\ First # None => current # None
    /\ \A o \in Orders : Fresh(o)

LEMMA InitSingle == Init => Single
BY DEF Init, Single, Fresh

LEMMA SingleStep ==
  ASSUME Hosted = {} \/ First # None, IInv, Single, [Next]_vars
  PROVE  Single'
<1> USE DEF Single
<1>1. CASE \E o \in Orders : Commit(o)
  <2>1. PICK o \in Orders : Commit(o)
    BY <1>1
  <2>2. /\ target[o] \in Subs /\ SessionInv(o)
        /\ sub' = [sub EXCEPT ![target[o]] = Applied(o, base[o])]
        /\ base[o] = sub[target[o]] /\ Fresh(o)
    BY <2>1, CommitWrites
  <2>3. pc[o] = "written" /\ userLock = o
    BY <2>1, <2>2 DEF Commit, SessionInv, OwnsUser
  <2>4. IF base[o] = NoSub
        THEN Kind(o) = "new" /\ current = None /\ current' = target[o]
        ELSE Kind(o) # "new" /\ current' = current
    <3>1. CASE base[o] = NoSub
      <4>1. o \notin Autopays /\ o \notin Topups
        BY <2>2, <2>3, <3>1 DEF SessionInv, Holds, TargetExists
      <4>2. o \in Buys /\ seen[o] = None
        BY <2>2, <2>3, <3>1, <4>1 DEF SessionInv, Resolved, SeenExists, Orders
      <4>3. QED BY <2>1, <2>2, <2>3, <3>1, <4>1, <4>2 DEF Commit, Kind, IsTopup, Fresh
    <3>2. CASE base[o] # NoSub
      BY <2>1, <3>2 DEF Commit, Kind
    <3>3. QED BY <3>1, <3>2
  <2>5. None \notin Subs
    BY OrdersAssumption DEF Subs, Orders
  <2>6. \A s \in Subs : sub'[s] # NoSub => s = current'
    BY <2>2, <2>4, <2>5 DEF IInv, TypeOK
  <2>7. First # None => current' # None
    BY <2>2, <2>4, <2>5
  <2>8. ASSUME NEW x \in Orders PROVE Fresh(x)'
    <3>1. CASE x = o
      BY <2>1, <3>1 DEF Commit, Fresh, IInv, TypeOK
    <3>2. CASE x # o
      <4>1. Fresh(x) /\ OwnsUser(x) /\ pc'[x] = pc[x] /\ seen'[x] = seen[x]
        BY <2>1, <3>2 DEF Commit, IInv, TypeOK, SessionInv
      <4>2. QED BY <2>3, <3>2, <4>1 DEF Fresh, OwnsUser
    <3>3. QED BY <3>1, <3>2
  <2>9. QED BY <2>6, <2>7, <2>8
<1>2. CASE ~ \E o \in Orders : Commit(o)
  <2>1. sub' = sub /\ current' = current
    BY <1>2 DEF Next, Work, Checkout, ReadUser, LockUser, Load, AutopayDebit, PanelWrite,
       DuplicateKey, Fail, Declined, DeadlockVictim, AutopayLock, ComeDue, Abandon, vars, rows
  <2>2. ASSUME NEW x \in Orders PROVE Fresh(x)'
    <3>1. Fresh(x)
      OBVIOUS
    <3>2. CASE ReadUser(x)
      <4>1. pc[x] = "paid" /\ seen'[x] = current /\ pc'[x] = "read"
        BY <3>2 DEF ReadUser, ReadsFirst, Ready, IInv, TypeOK
      <4>2. QED BY <4>1, <3>2 DEF ReadUser, ReadsFirst, Buys, Fresh
    <3>3. CASE LockUser(x)
      <4>1. pc'[x] = "locked" /\ seen'[x] = IF pc[x] = "read" THEN seen[x] ELSE current
        BY <3>3 DEF LockUser, IInv, TypeOK
      <4>2. QED BY <2>1, <3>1, <4>1 DEF Fresh
    <3>4. CASE ~ReadUser(x) /\ ~LockUser(x)
      <4>1. /\ seen'[x] = seen[x]
            /\ pc'[x] = "read" => pc[x] = "read"
            /\ pc'[x] \in {"locked", "loaded", "written"} =>
                 x \in Autopays \/ pc[x] \in {"locked", "loaded", "written"}
        BY <1>2, <3>4
        DEF Next, Work, Checkout, ReadUser, LockUser, Load, AutopayDebit, PanelWrite,
            DuplicateKey, Fail, Declined, DeadlockVictim, AutopayLock, ComeDue, Abandon,
            vars, session, rows, IInv, TypeOK, SessionInv, Steps
      <4>2. QED BY <2>1, <3>1, <4>1, OrdersAssumption DEF Fresh
    <3>5. QED BY <3>2, <3>3, <3>4
  <2>3. QED BY <2>1, <2>2
<1>3. QED BY <1>1, <1>2

(* The user has one panel account when every plan is bought from the       *)
(* wallet, and when there is a subscription already.                       *)
THEOREM OneAccount ==
  ASSUME Hosted = {} \/ First # None
  PROVE  Spec => []OneAccountPerUser
<1>1. Spec => []Single
  <2>1. IInv /\ Single /\ [Next]_vars => Single'
    BY SingleStep
  <2>2. QED BY <2>1, InitSingle, Invariance, PTL DEF Spec
<1>2. Single => OneAccountPerUser
  <2>1. SUFFICES ASSUME Single PROVE Cardinality({s \in Subs : sub[s] # NoSub}) <= 1
    BY DEF OneAccountPerUser
  <2>2. {s \in Subs : sub[s] # NoSub} \subseteq {current}
    BY <2>1 DEF Single
  <2>3. IsFiniteSet({current}) /\ Cardinality({current}) = 1
    BY FS_Singleton
  <2>4. QED BY <2>2, <2>3, FS_Subset, FS_CardinalityType
<1>3. QED BY <1>1, <1>2, PTL
=============================================================================
