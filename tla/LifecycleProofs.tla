---------------------------- MODULE LifecycleProofs ----------------------------
(***************************************************************************)
(* Machine-checked proofs about Lifecycle, for any shops, periods, grace   *)
(* settings and bounds: the types, one grace per cooldown, and no day that *)
(* was neither paid, given, dated by hand nor part of a grace window.      *)
(*                                                                         *)
(* The dates travel: the panel's into webhooks and from there into the     *)
(* row, the row's into sessions and from there back to the panel.  So the  *)
(* invariants bound all of them at once (DatesUpTo), by a day that only    *)
(* renewals, hand-set dates and grace windows move.                        *)
(***************************************************************************)
EXTENDS Lifecycle, SequenceTheorems, FiniteSetTheorems, TLAPS

-----------------------------------------------------------------------------
(* The rows, users, webhooks and sessions with no expiry past day d.       *)

RowsUpTo(d) ==
    [status: Statuses, expire: 0..d, grace: 0..(MaxTime + Grace), graced: 0..MaxTime]
UsersUpTo(d) == [status: {"active", "disabled", "expired"}, expire: 0..d, small: BOOLEAN]
EventsUpTo(d) ==
    [name: {"modified", "enabled", "disabled", "expired"}, on: BOOLEAN, expire: 0..d]
SessionsUpTo(d) ==
    [AllJobs -> [at: Steps, old: RowsUpTo(d), new: RowsUpTo(d), on: BOOLEAN]]

DatesUpTo(d) ==
    /\ sub \in RowsUpTo(d)
    /\ user \in UsersUpTo(d)
    /\ events \in Seq(EventsUpTo(d))
    /\ session \in SessionsUpTo(d)

Shaped ==
    /\ shop \in Settings
    /\ now \in 1..MaxTime
    /\ Len(events) <= MaxEvents
    /\ \A j \in AllJobs : session[j].at # "idle" => j \in shop.jobs
    /\ \A j \in {"pay", "extend"} : session[j].at \in {"idle", "loaded", "commit"}
    /\ retry \in BOOLEAN /\ cut \in BOOLEAN
    /\ due \in 0..MaxOrders /\ ordered \in 0..MaxOrders
    /\ cuts \in 0..MaxCuts /\ faults \in 0..MaxFaults
    /\ entitled \in Nat /\ graces \in Nat
    /\ 1 + Period <= entitled

(* The orders that are past due or past a load, and those whose dates may  *)
(* be out already: a renewal that failed after its push may be out twice.  *)
Committed == ordered - due - (IF session["extend"].at # "idle" THEN 1 ELSE 0)
Spent == ordered - due + (IF session["pay"].at = "commit" THEN 1 ELSE 0)
           - (IF session["extend"].at = "loaded" THEN 1 ELSE 0) + faults

Reach(n) == MaxTime + Grace + Period + n * Period

Counted ==
    /\ session["pay"].at # "idle" => due > 0
    /\ Committed \in Nat
    /\ entitled <= Reach(Committed)
    /\ DatesUpTo(Reach(Spent))

(* The grace sweep's session and the row agree on when grace began; only   *)
(* that session sets it, to today, and only when the last grace is old.    *)
Sweep == session["grace"]
GraceKept ==
    /\ \A j \in AllJobs \ {"grace"} : session[j].new.graced = session[j].old.graced
    /\ Sweep.at # "idle" => Sweep.old.graced = sub.graced
    /\ Sweep.at = "loaded" => (GraceEntry(Sweep.old) \/ GraceOver(Sweep.old))
    /\ Sweep.new.graced # Sweep.old.graced =>
          /\ Sweep.at # "idle" /\ Sweep.new.graced = now
          /\ Sweep.old.graced = 0 \/ Sweep.old.graced <= now - Cooldown

(* What was promised: renewals told the panel but not committed count.     *)
Ahead == (IF session["pay"].at = "commit" THEN Period ELSE 0)
           + (IF session["extend"].at = "commit" THEN Period ELSE 0)
Promised == IF Ahead = 0 THEN entitled ELSE Later(entitled, now) + Ahead
Allowed == Promised + (Lookback - 1 + Grace) * graces

NothingFree == DatesUpTo(Allowed)

LifecycleInv == Shaped /\ Counted /\ GraceKept

-----------------------------------------------------------------------------
(* Arithmetic of the bound. *)

LEMMA ReachGrows ==
  /\ \A n \in Int : Reach(n) \in Int /\ Reach(n + 1) = Reach(n) + Period
  /\ \A m, n \in Int : m <= n => Reach(m) <= Reach(n)
<1>1. Period \in Nat \ {0} /\ MaxTime \in Nat \ {0} /\ Grace \in Nat \ {0}
  BY LifecycleAssumption
<1>2. \A n \in Int : n * Period \in Int /\ (n + 1) * Period = n * Period + Period
  BY <1>1
<1>3. \A m, n \in Int : m <= n => m * Period <= n * Period
  BY <1>1
<1>4. QED BY <1>1, <1>2, <1>3 DEF Reach

LEMMA ReachStart == \A n \in Nat : Reach(n) \in Nat /\ Reach(n) >= MaxTime + Grace + Period
<1>1. Reach(0) = MaxTime + Grace + Period
  BY LifecycleAssumption DEF Reach
<1>2. SUFFICES ASSUME NEW n \in Nat
               PROVE  Reach(n) \in Nat /\ Reach(n) >= MaxTime + Grace + Period
  OBVIOUS
<1>3. Reach(n) \in Int /\ Reach(0) <= Reach(n)
  BY ReachGrows
<1>4. MaxTime + Grace + Period \in Nat
  BY LifecycleAssumption
<1>5. QED BY <1>1, <1>3, <1>4

-----------------------------------------------------------------------------
(* What the helpers make of rows, users, webhooks and sessions. *)

LEMMA FlushedRow ==
  ASSUME NEW d \in Nat, sub \in RowsUpTo(d), session \in SessionsUpTo(d), NEW j \in AllJobs
  PROVE  /\ Flushed(j) \in RowsUpTo(d)
         /\ Flushed(j).graced = IF session[j].new.graced # session[j].old.graced
                                THEN session[j].new.graced ELSE sub.graced
<1> DEFINE n == session[j].new
           o == session[j].old
<1>1. n \in RowsUpTo(d) /\ o \in RowsUpTo(d)
  BY DEF SessionsUpTo
<1> HIDE DEF n, o
<1>2. DOMAIN sub = {"status", "expire", "grace", "graced"}
  BY DEF RowsUpTo
<1>3. Flushed(j) = [c \in {"status", "expire", "grace", "graced"} |->
                      IF n[c] # o[c] THEN n[c] ELSE sub[c]]
  BY <1>2 DEF Flushed, n, o
<1>4. Flushed(j) = [status |-> IF n.status # o.status THEN n.status ELSE sub.status,
                    expire |-> IF n.expire # o.expire THEN n.expire ELSE sub.expire,
                    grace |-> IF n.grace # o.grace THEN n.grace ELSE sub.grace,
                    graced |-> IF n.graced # o.graced THEN n.graced ELSE sub.graced]
  BY <1>3
<1>5. QED BY <1>1, <1>4 DEF RowsUpTo, n, o

LEMMA EventTaken ==
  ASSUME NEW S, events \in Seq(S), NEW i \in 1..Len(events)
  PROVE  events[i] \in S /\ RemoveAt(events, i) \in Seq(S)
         /\ Len(RemoveAt(events, i)) = Len(events) - 1
<1>1. Len(events) \in Nat /\ \A k \in 1..Len(events) : events[k] \in S
  BY ElementOfSeq
<1>2. i - 1 \in Int /\ i + 1 \in Int /\ Len(events) \in Int
  BY <1>1
<1>3. \A k \in 1..(i - 1) : events[k] \in S
  BY <1>1
<1>4. \A k \in (i + 1)..Len(events) : events[k] \in S
  BY <1>1
<1> DEFINE left == SubSeq(events, 1, i - 1)
           right == SubSeq(events, i + 1, Len(events))
<1>5. left \in Seq(S) /\ Len(left) = i - 1
  BY <1>2, <1>3, SubSeqProperties
<1>6. right \in Seq(S) /\ Len(right) = Len(events) - i
  BY <1>1, <1>2, <1>4, SubSeqProperties
<1> HIDE DEF left, right
<1>7. left \o right \in Seq(S) /\ Len(left \o right) = Len(left) + Len(right)
  BY <1>5, <1>6, ConcatProperties
<1>8. RemoveAt(events, i) = left \o right
  BY DEF RemoveAt, left, right
<1>9. QED BY <1>1, <1>5, <1>6, <1>7, <1>8

LEMMA UpToGrows ==
  ASSUME NEW d \in Nat, NEW e \in Nat, d <= e, DatesUpTo(d) PROVE DatesUpTo(e)
<1>1. RowsUpTo(d) \subseteq RowsUpTo(e) /\ UsersUpTo(d) \subseteq UsersUpTo(e)
  BY DEF RowsUpTo, UsersUpTo
<1>2. EventsUpTo(d) \subseteq EventsUpTo(e)
  BY DEF EventsUpTo
<1>3. session \in SessionsUpTo(e)
  BY <1>1 DEF DatesUpTo, SessionsUpTo
<1>4. events \in Seq(EventsUpTo(e))
  <2>1. Len(events) \in Nat /\ \A k \in 1..Len(events) : events[k] \in EventsUpTo(d)
    BY ElementOfSeq DEF DatesUpTo
  <2>2. QED BY <1>2, <2>1 DEF DatesUpTo
<1>5. QED BY <1>1, <1>3, <1>4 DEF DatesUpTo

LEMMA PanelMoves ==
  ASSUME NEW e \in Nat, events \in Seq(EventsUpTo(e)), Len(events) <= MaxEvents,
         NEW u \in UsersUpTo(e), NEW name \in {"modified", "enabled", "disabled", "expired"},
         Becomes(name, u)
  PROVE  /\ user' = u /\ user' \in UsersUpTo(e)
         /\ events' \in Seq(EventsUpTo(e)) /\ Len(events') <= MaxEvents
<1>1. Event(name, u) \in EventsUpTo(e)
  BY DEF Event, EventsUpTo, UsersUpTo
<1> HIDE DEF Event, EventsUpTo
<1>2. Len(events) \in Nat /\ MaxEvents \in Nat
  BY LifecycleAssumption, LenProperties
<1>3. Append(events, Event(name, u)) \in Seq(EventsUpTo(e))
      /\ Len(Append(events, Event(name, u))) = Len(events) + 1
  BY <1>1, AppendProperties
<1>4. QED BY <1>2, <1>3 DEF Becomes

LEMMA PatchedUser ==
  ASSUME NEW e \in Nat, user \in UsersUpTo(e), NEW x \in 0..e, NEW small \in BOOLEAN
  PROVE  Patched(x, small) \in UsersUpTo(e) /\ Patched(x, small).expire = x
  BY DEF Patched, UsersUpTo

LEMMA SwitchedUser ==
  ASSUME NEW e \in Nat, user \in UsersUpTo(e)
  PROVE  Enabled(user) \in UsersUpTo(e) /\ Disabled(user) \in UsersUpTo(e)
         /\ [user EXCEPT !.status = "expired"] \in UsersUpTo(e)
  BY DEF Enabled, Disabled, UsersUpTo

LEMMA Flagged ==
  ASSUME NEW R, NEW B, NEW x \in [at: Steps, old: R, new: R, on: B], NEW o \in B, NEW s \in Steps
  PROVE  [[x EXCEPT !.on = o] EXCEPT !.at = s] \in [at: Steps, old: R, new: R, on: B]
  OBVIOUS

LEMMA SessionMoves ==
  ASSUME NEW e \in Nat, 1 + Period <= e, sub \in RowsUpTo(e), session \in SessionsUpTo(e),
         NEW j \in AllJobs
  PROVE  /\ Load(j) => session' \in SessionsUpTo(e)
         /\ Ends(j) => session' \in SessionsUpTo(e)
         /\ \A s \in Steps : Goes(j, s) => session' \in SessionsUpTo(e)
         /\ \A o \in BOOLEAN, s \in Steps :
               session' = [session EXCEPT ![j].on = o, ![j].at = s] => session' \in SessionsUpTo(e)
         /\ \A r \in RowsUpTo(e), s \in Steps : Sets(j, r, s) => session' \in SessionsUpTo(e)
<1>1. FirstRow \in RowsUpTo(e)
  BY LifecycleAssumption DEF FirstRow, RowsUpTo, Statuses
<1> HIDE DEF FirstRow, RowsUpTo
<1>2. Idle \in [at: Steps, old: RowsUpTo(e), new: RowsUpTo(e), on: BOOLEAN]
  BY <1>1 DEF Idle, Steps
<1>3. Load(j) => session' \in SessionsUpTo(e)
  BY DEF Load, SessionsUpTo, Steps
<1>4. Ends(j) => session' \in SessionsUpTo(e)
  BY <1>2 DEF Ends, SessionsUpTo
<1>5. \A s \in Steps : Goes(j, s) => session' \in SessionsUpTo(e)
  BY DEF Goes, SessionsUpTo
<1>6. \A r \in RowsUpTo(e), s \in Steps : Sets(j, r, s) => session' \in SessionsUpTo(e)
  BY DEF Sets, SessionsUpTo
<1>7. \A o \in BOOLEAN, s \in Steps :
         session' = [session EXCEPT ![j].on = o, ![j].at = s] => session' \in SessionsUpTo(e)
  <2> SUFFICES ASSUME NEW o \in BOOLEAN, NEW s \in Steps,
                      session' = [session EXCEPT ![j].on = o, ![j].at = s]
               PROVE  session' \in SessionsUpTo(e)
    OBVIOUS
  <2> DEFINE T == [at: Steps, old: RowsUpTo(e), new: RowsUpTo(e), on: BOOLEAN]
             r == [[session[j] EXCEPT !.on = o] EXCEPT !.at = s]
  <2>1. session[j] \in T
    BY DEF SessionsUpTo
  <2>2. r \in T
    BY <2>1, Flagged, Zenon
  <2>3. session' = [session EXCEPT ![j] = r]
    BY DEF SessionsUpTo
  <2> HIDE DEF r
  <2>4. QED BY <2>2, <2>3 DEF SessionsUpTo
<1>8. QED BY <1>3, <1>4, <1>5, <1>6, <1>7

-----------------------------------------------------------------------------
(* Where the dates go: a step leaves them all up to e when they were up to *)
(* d and what it adds, if it adds, is up to e.                             *)

LEMMA MirroredRow ==
  ASSUME NEW d \in Nat, sub \in RowsUpTo(d), NEW v \in EventsUpTo(d)
  PROVE  Mirrored(v) \in RowsUpTo(d) /\ Mirrored(v).graced = sub.graced
  BY DEF Mirrored, RowsUpTo, EventsUpTo, Statuses

LEMMA RenewedRow ==
  ASSUME NEW d \in Nat, NEW e \in Nat, d + Period <= e, now + Period <= e, now \in Nat,
         NEW row \in RowsUpTo(d)
  PROVE  /\ Renewed(row) \in RowsUpTo(e) /\ Renewed(row).graced = row.graced
         /\ Renewed(row).expire \in 0..e
<1>1. Period \in Nat /\ row.expire \in 0..d
  BY LifecycleAssumption DEF RowsUpTo
<1>2. Later(row.expire, now) + Period \in 0..e
  BY <1>1 DEF Later
<1>3. row.status \in Statuses /\ "ACTIVE" \in Statuses /\ 0 \in 0..(MaxTime + Grace)
  BY LifecycleAssumption DEF RowsUpTo, Statuses
<1> HIDE DEF Later, Statuses
<1>4. QED BY <1>2, <1>3 DEF Renewed, RowsUpTo

LEMMA EditedRow ==
  ASSUME NEW d \in Nat, NEW e \in Nat, d <= e, NEW row \in RowsUpTo(d),
         NEW st \in Statuses, NEW g \in 0..(MaxTime + Grace)
  PROVE  /\ [row EXCEPT !.status = st, !.grace = g] \in RowsUpTo(d)
         /\ \A x \in 0..e : [row EXCEPT !.expire = x, !.status = st, !.grace = g] \in RowsUpTo(e)
<1> HIDE DEF Statuses
<1>1. [row EXCEPT !.status = st, !.grace = g] \in RowsUpTo(d)
  BY DEF RowsUpTo
<1>2. ASSUME NEW x \in 0..e
      PROVE  [row EXCEPT !.expire = x, !.status = st, !.grace = g] \in RowsUpTo(e)
  BY DEF RowsUpTo
<1>3. QED BY <1>1, <1>2

LEMMA RevokedRow ==
  ASSUME NEW d \in Nat, NEW row \in RowsUpTo(d)
  PROVE  Revoked(row) \in RowsUpTo(d) /\ Revoked(row).graced = row.graced
  BY DEF Revoked, RowsUpTo, Statuses

LEMMA DatesStep ==
  ASSUME NEW d \in Nat, NEW e \in Nat, d <= e, 1 + Period <= d,
         Shaped, DatesUpTo(d), LifecycleNext,
         \A j \in {"pay", "extend"} : RenewApply(j) => d + Period <= e /\ now + Period <= e,
         GraceApply => now + Grace <= e,
         CalendarApply => user'.expire <= e
  PROVE  DatesUpTo(e)'
<1>1. /\ sub \in RowsUpTo(e) /\ user \in UsersUpTo(e) /\ events \in Seq(EventsUpTo(e))
      /\ session \in SessionsUpTo(e) /\ 1 + Period <= e
  <2>1. DatesUpTo(e)
    BY UpToGrows
  <2>2. Period \in Nat
    BY LifecycleAssumption
  <2>3. QED BY <2>1, <2>2 DEF DatesUpTo
<1>2. \A j \in AllJobs : /\ session[j].at \in Steps /\ session[j].on \in BOOLEAN
                         /\ session[j].old \in RowsUpTo(d) /\ session[j].new \in RowsUpTo(d)
                         /\ session[j].old \in RowsUpTo(e) /\ session[j].new \in RowsUpTo(e)
  BY <1>1 DEF DatesUpTo, SessionsUpTo
<1>3. now \in 1..MaxTime /\ Len(events) <= MaxEvents
  BY DEF Shaped
<1> DEFINE Done == /\ sub' \in RowsUpTo(e) /\ user' \in UsersUpTo(e)
                   /\ events' \in Seq(EventsUpTo(e)) /\ session' \in SessionsUpTo(e)
<1> SUFFICES Done
  BY DEF DatesUpTo
<1>4. \A j \in AllJobs :
         /\ Load(j) => session' \in SessionsUpTo(e)
         /\ Ends(j) => session' \in SessionsUpTo(e)
         /\ \A s \in Steps : Goes(j, s) => session' \in SessionsUpTo(e)
         /\ \A o \in BOOLEAN, s \in Steps :
               session' = [session EXCEPT ![j].on = o, ![j].at = s] => session' \in SessionsUpTo(e)
         /\ \A r \in RowsUpTo(e), s \in Steps : Sets(j, r, s) => session' \in SessionsUpTo(e)
  BY <1>1, SessionMoves
<1>5. \A u \in UsersUpTo(e), name \in {"modified", "enabled", "disabled", "expired"} :
         Becomes(name, u) => user' \in UsersUpTo(e) /\ events' \in Seq(EventsUpTo(e))
  BY <1>1, <1>3, PanelMoves
<1>6. \A x \in 0..e, small \in BOOLEAN : Patched(x, small) \in UsersUpTo(e)
  BY <1>1, PatchedUser
<1>7. Enabled(user) \in UsersUpTo(e) /\ Disabled(user) \in UsersUpTo(e)
      /\ [user EXCEPT !.status = "expired"] \in UsersUpTo(e)
  BY <1>1, SwitchedUser
<1>8. \A j \in AllJobs : Flushed(j) \in RowsUpTo(e)
  BY <1>1, FlushedRow
<1>9. \A j \in AllJobs : /\ Revoked(session[j].old) \in RowsUpTo(e)
                         /\ session[j].old.expire \in 0..e
  BY <1>2, RevokedRow DEF RowsUpTo
<1>10. \A name \in {"idle", "loaded", "fetched", "pushed", "unanswered", "commit"} : name \in Steps
  BY DEF Steps
<1>11. /\ {"pay", "extend", "refund", "guard"} \subseteq AllJobs
       /\ "calendar" \in AllJobs /\ "grace" \in AllJobs /\ "resync" \in AllJobs
       /\ "retry" \in AllJobs /\ "backstop" \in AllJobs /\ "push" \in AllJobs
  BY DEF AllJobs
<1> HIDE DEF Done
<1> USE <1>1 DEF Done
<1>12. CASE Tick \/ Order
  BY <1>12 DEF Tick, Order
<1>13. CASE PanelExpires
  BY <1>13, <1>5, <1>7 DEF PanelExpires
<1>14. CASE PanelWebhook
  <2>1. PICK i \in 1..Len(events) : sub' = Mirrored(events[i]) /\ events' = RemoveAt(events, i)
    BY <1>14 DEF PanelWebhook
  <2>2. events[i] \in EventsUpTo(e) /\ events' \in Seq(EventsUpTo(e))
    BY <2>1, EventTaken
  <2>3. sub' \in RowsUpTo(e)
    BY <2>1, <2>2, MirroredRow
  <2>4. QED BY <1>14, <2>2, <2>3 DEF PanelWebhook
<1>15. ASSUME NEW j \in {"pay", "extend"}, RenewLoad(j) PROVE Done
  BY <1>15, <1>4, <1>11 DEF RenewLoad
<1>16. ASSUME NEW j \in {"pay", "extend"}, RenewApply(j) PROVE Done
  <2>1. /\ Renewed(session[j].old) \in RowsUpTo(e)
        /\ Renewed(session[j].old).expire \in 0..e
    BY <1>2, <1>3, <1>11, <1>16, RenewedRow
  <2>2. Patched(Renewed(session[j].old).expire, FALSE) \in UsersUpTo(e)
    BY <2>1, <1>6
  <2>3. QED BY <1>16, <2>1, <2>2, <1>4, <1>5, <1>10, <1>11 DEF RenewApply
<1>17. ASSUME NEW j \in {"pay", "extend"}, RenewCommit(j) PROVE Done
  BY <1>17, <1>4, <1>8, <1>11 DEF RenewCommit
<1>18. ASSUME NEW j \in {"refund", "guard"}, CutLoad(j) PROVE Done
  BY <1>18, <1>4, <1>11 DEF CutLoad
<1>19. ASSUME NEW j \in {"refund", "guard"}, CutDisable(j) PROVE Done
  BY <1>19, <1>4, <1>5, <1>7, <1>9, <1>10, <1>11 DEF CutDisable
<1>20. ASSUME NEW j \in {"refund", "guard"}, CutUnanswered(j) PROVE Done
  BY <1>20, <1>4, <1>9, <1>10, <1>11 DEF CutUnanswered
<1>21. ASSUME NEW j \in {"refund", "guard"}, CutCommit(j) PROVE Done
  BY <1>21, <1>4, <1>8, <1>11 DEF CutCommit
<1>22. CASE CalendarLoad
  BY <1>22, <1>4, <1>11 DEF CalendarLoad
<1>23. CASE CalendarApply
  <2>1. PICK date \in {now, now + 1} :
          /\ Sets("calendar", [session["calendar"].old EXCEPT
                      !.expire = date,
                      !.status = IF date > now THEN "ACTIVE" ELSE "EXPIRED",
                      !.grace = IF date > now THEN 0 ELSE @], "commit")
          /\ Becomes("modified", Patched(date, FALSE))
    BY <1>23 DEF CalendarApply
  <2>2. user'.expire = date
    BY <2>1 DEF Becomes, Patched, UsersUpTo
  <2>3. date \in 0..e
    BY <1>3, <1>23, <2>2
  <2>4. [session["calendar"].old EXCEPT
                      !.expire = date,
                      !.status = IF date > now THEN "ACTIVE" ELSE "EXPIRED",
                      !.grace = IF date > now THEN 0 ELSE @] \in RowsUpTo(e)
    <3> DEFINE st == IF date > now THEN "ACTIVE" ELSE "EXPIRED"
               g == IF date > now THEN 0 ELSE session["calendar"].old.grace
    <3>1. st \in Statuses /\ g \in 0..(MaxTime + Grace)
      BY <1>2, <1>11, LifecycleAssumption DEF Statuses, RowsUpTo
    <3>2. session["calendar"].old \in RowsUpTo(d)
      BY <1>2, <1>11
    <3> HIDE DEF st, g
    <3>3. [session["calendar"].old EXCEPT !.expire = date, !.status = st, !.grace = g] \in RowsUpTo(e)
      BY <2>3, <3>1, <3>2, EditedRow
    <3>4. QED BY <3>3 DEF st, g
  <2>5. session' \in SessionsUpTo(e)
    BY <1>4, <1>10, <1>11, <2>1, <2>4
  <2>6. user' \in UsersUpTo(e) /\ events' \in Seq(EventsUpTo(e))
    BY <1>5, <1>6, <2>1, <2>3
  <2>7. QED BY <1>23, <2>5, <2>6 DEF CalendarApply
<1>24. CASE CalendarCommit
  BY <1>24, <1>4, <1>8, <1>11 DEF CalendarCommit
<1>25. CASE PushLoad
  BY <1>25, <1>4, <1>11 DEF PushLoad
<1>26. CASE PushApply
  BY <1>26, <1>4, <1>5, <1>6, <1>9, <1>11 DEF PushApply
<1>27. CASE RetryLoad
  BY <1>27, <1>4, <1>11 DEF RetryLoad
<1>28. CASE RetryWrite
  BY <1>28, <1>4, <1>5, <1>7, <1>11 DEF RetryWrite
<1>29. CASE RetryFails
  BY <1>29, <1>4, <1>11 DEF RetryFails
<1>30. CASE BackstopLoad
  BY <1>30, <1>4, <1>11 DEF BackstopLoad
<1>31. CASE BackstopFetch
  <2>1. session' \in SessionsUpTo(e)
    <3> DEFINE o == user.status = "active"
    <3>1. o \in BOOLEAN
      OBVIOUS
    <3>2. session' = [session EXCEPT !["backstop"].on = o, !["backstop"].at = "fetched"]
      BY <1>31 DEF BackstopFetch
    <3> HIDE DEF o
    <3>3. QED BY <3>1, <3>2, <1>4, <1>10, <1>11
  <2>2. QED BY <1>31, <2>1 DEF BackstopFetch
<1>32. CASE BackstopDisable
  BY <1>32, <1>4, <1>5, <1>7, <1>11 DEF BackstopDisable
<1>33. CASE GraceLoad
  BY <1>33, <1>4, <1>11 DEF GraceLoad
<1>34. CASE GraceApply
  <2>1. now + Grace \in 0..e /\ now + Grace \in 0..(MaxTime + Grace) /\ now \in 0..MaxTime
    BY <1>3, <1>34, LifecycleAssumption
  <2>2. [session["grace"].old EXCEPT !.status = "LIMITED", !.grace = now + Grace, !.graced = now]
          \in RowsUpTo(e)
    BY <1>2, <1>11, <2>1 DEF RowsUpTo, Statuses
  <2>3. session' \in SessionsUpTo(e)
    BY <1>34, <1>4, <1>10, <1>11, <2>2 DEF GraceApply
  <2>4. QED BY <1>34, <1>5, <1>6, <2>1, <2>3 DEF GraceApply
<1>35. CASE GraceEnable
  BY <1>35, <1>4, <1>5, <1>7, <1>10, <1>11 DEF GraceEnable
<1>36. [session["grace"].old EXCEPT !.status = "EXPIRED", !.grace = 0] \in RowsUpTo(e)
  <2>1. "EXPIRED" \in Statuses /\ 0 \in 0..(MaxTime + Grace) /\ e <= e
    BY LifecycleAssumption DEF Statuses
  <2>2. session["grace"].old \in RowsUpTo(e)
    BY <1>2, <1>11
  <2>3. QED BY <2>1, <2>2, EditedRow
<1>37. CASE GraceEnd
  BY <1>37, <1>36, <1>4, <1>5, <1>7, <1>10, <1>11 DEF GraceEnd
<1>38. CASE GraceEndUnanswered
  BY <1>38, <1>36, <1>4, <1>10, <1>11 DEF GraceEndUnanswered
<1>39. CASE GraceCommit
  BY <1>39, <1>4, <1>8, <1>11 DEF GraceCommit
<1>40. CASE ResyncLoad
  BY <1>40, <1>4, <1>11 DEF ResyncLoad
<1>41. CASE ResyncFetch
  <2>1. session' \in SessionsUpTo(e)
    <3> DEFINE o == user.status # "active"
    <3>1. o \in BOOLEAN
      OBVIOUS
    <3>2. \/ session' = [session EXCEPT !["resync"].on = o, !["resync"].at = "fetched"]
          \/ Ends("resync")
      BY <1>41 DEF ResyncFetch
    <3> HIDE DEF o
    <3>3. QED BY <3>1, <3>2, <1>4, <1>10, <1>11
  <2>2. QED BY <1>41, <2>1 DEF ResyncFetch
<1>42. CASE ResyncPush
  BY <1>42, <1>4, <1>5, <1>6, <1>9, <1>10, <1>11 DEF ResyncPush
<1>43. CASE ResyncEnable
  BY <1>43, <1>4, <1>5, <1>7, <1>11 DEF ResyncEnable
<1>44. CASE ResyncUnanswered
  BY <1>44, <1>4, <1>9, <1>10, <1>11 DEF ResyncUnanswered
<1>45. CASE ResyncCommit
  BY <1>45, <1>4, <1>8, <1>11 DEF ResyncCommit
<1>46. ASSUME NEW j \in AllJobs, JobFails(j) PROVE Done
  BY <1>46, <1>4 DEF JobFails, RollsBack
<1>47. QED
  BY <1>12, <1>13, <1>14, <1>15, <1>16, <1>17, <1>18, <1>19, <1>20, <1>21, <1>22, <1>23, <1>24,
     <1>25, <1>26, <1>27, <1>28, <1>29, <1>30, <1>31, <1>32, <1>33, <1>34, <1>35, <1>37, <1>38,
     <1>39, <1>40, <1>41, <1>42, <1>43, <1>44, <1>45, <1>46
     DEF LifecycleNext, RenewStep, CutStep
-----------------------------------------------------------------------------
(* What the steps of the other jobs leave alone: the day, the renewals'    *)
(* sessions, the orders and what was promised.                             *)

Touched(j) ==
    /\ \A k \in AllJobs \ {j} : session'[k] = session[k]
    /\ session'[j].at # "idle" => j \in shop.jobs

LEMMA SessionTouched ==
  ASSUME NEW d \in Nat, session \in SessionsUpTo(d), Shaped, NEW j \in AllJobs
  PROVE  /\ Load(j) => Touched(j)
         /\ Ends(j) => Touched(j)
         /\ \A s : session[j].at # "idle" /\ Goes(j, s) => Touched(j)
         /\ \A r, s : session[j].at # "idle" /\ Sets(j, r, s) => Touched(j)
<1> HIDE DEF RowsUpTo
<1>1. Load(j) => Touched(j)
  BY DEF Load, Touched, SessionsUpTo
<1>2. Ends(j) => Touched(j)
  BY DEF Ends, Idle, Touched, SessionsUpTo
<1>3. \A s : session[j].at # "idle" /\ Goes(j, s) => Touched(j)
  BY DEF Goes, Touched, SessionsUpTo, Shaped
<1>4. \A r, s : session[j].at # "idle" /\ Sets(j, r, s) => Touched(j)
  BY DEF Sets, Touched, SessionsUpTo, Shaped
<1>5. QED BY <1>1, <1>2, <1>3, <1>4

Calm ==
    /\ UNCHANGED <<shop, now, due, ordered, entitled>>
    /\ session'["pay"] = session["pay"] /\ session'["extend"] = session["extend"]
    /\ cuts' \in 0..MaxCuts /\ faults' \in faults..MaxFaults
    /\ retry' \in BOOLEAN /\ cut' \in BOOLEAN
    /\ Len(events') <= MaxEvents
    /\ \A j \in AllJobs : session'[j].at # "idle" => j \in shop.jobs
    /\ graces' \in {graces} \cup (IF GraceApply THEN {graces + 1} ELSE {})

Loud ==
    \/ Tick \/ Order \/ RenewStep \/ CalendarLoad \/ CalendarApply
    \/ JobFails("pay") \/ JobFails("extend")

LEMMA CalmSteps ==
  ASSUME NEW d \in Nat, DatesUpTo(d), Shaped, LifecycleNext PROVE Loud \/ Calm
<1> SUFFICES ASSUME ~Loud PROVE Calm
  OBVIOUS
<1>1. /\ session \in SessionsUpTo(d) /\ user \in UsersUpTo(d) /\ events \in Seq(EventsUpTo(d))
  BY DEF DatesUpTo
<1>2. /\ UNCHANGED shop
      /\ cuts \in 0..MaxCuts /\ faults \in 0..MaxFaults /\ retry \in BOOLEAN /\ cut \in BOOLEAN
      /\ Len(events) <= MaxEvents /\ Len(events) \in Nat
      /\ {MaxCuts, MaxFaults, MaxEvents} \subseteq Nat
      /\ \A j \in AllJobs : session[j].at # "idle" => j \in shop.jobs
  BY <1>1, LifecycleAssumption, LenProperties DEF Shaped, LifecycleNext
<1>3. \A j \in AllJobs :
         /\ Load(j) => Touched(j)
         /\ Ends(j) => Touched(j)
         /\ \A s : session[j].at # "idle" /\ Goes(j, s) => Touched(j)
         /\ \A r, s : session[j].at # "idle" /\ Sets(j, r, s) => Touched(j)
  BY <1>1, SessionTouched
<1>4. \A u, name : Becomes(name, u) => Len(events') <= MaxEvents
  <2> SUFFICES ASSUME NEW u, NEW name, Becomes(name, u) PROVE Len(events') <= MaxEvents
    OBVIOUS
  <2>1. Len(Append(events, Event(name, u))) = Len(events) + 1
    BY <1>1
  <2>2. QED BY <1>2, <2>1 DEF Becomes
<1>5. ASSUME NEW j \in AllJobs \ {"pay", "extend"}, Touched(j)
      PROVE  /\ session'["pay"] = session["pay"] /\ session'["extend"] = session["extend"]
             /\ \A k \in AllJobs : session'[k].at # "idle" => k \in shop.jobs
  BY <1>2, <1>5 DEF Touched, AllJobs
<1>6. {"refund", "guard", "calendar", "push", "retry", "backstop", "grace", "resync"}
        = AllJobs \ {"pay", "extend"}
  BY DEF AllJobs
<1>7. Fault => faults' \in faults..MaxFaults
  BY <1>2 DEF Fault
<1> USE <1>2 DEF Calm, At
<1>8. CASE PanelExpires
  BY <1>8, <1>4 DEF PanelExpires
<1>9. CASE PanelWebhook
  <2>1. PICK i \in 1..Len(events) : events' = RemoveAt(events, i)
    BY <1>9 DEF PanelWebhook
  <2>2. Len(events') = Len(events) - 1
    BY <1>1, <2>1, EventTaken
  <2>3. QED BY <1>9, <2>2 DEF PanelWebhook
<1>10. ASSUME NEW j \in {"refund", "guard"}, CutLoad(j) PROVE Calm
  <2>1. Touched(j) BY <1>10, <1>3, <1>6 DEF CutLoad
  <2>2. QED BY <1>10, <2>1, <1>5, <1>6 DEF CutLoad
<1>11. ASSUME NEW j \in {"refund", "guard"}, CutDisable(j) PROVE Calm
  <2>1. Touched(j) BY <1>11, <1>3, <1>6 DEF CutDisable
  <2>2. QED BY <1>11, <2>1, <1>4, <1>5, <1>6 DEF CutDisable
<1>12. ASSUME NEW j \in {"refund", "guard"}, CutUnanswered(j) PROVE Calm
  <2>1. Touched(j) BY <1>12, <1>3, <1>6 DEF CutUnanswered
  <2>2. QED BY <1>12, <2>1, <1>5, <1>6, <1>7 DEF CutUnanswered
<1>13. ASSUME NEW j \in {"refund", "guard"}, CutCommit(j) PROVE Calm
  <2>1. Touched(j) BY <1>13, <1>3, <1>6 DEF CutCommit
  <2>2. (retry \/ session[j].at = "unanswered") \in BOOLEAN
    OBVIOUS
  <2>3. QED BY <1>13, <2>1, <2>2, <1>5, <1>6 DEF CutCommit
<1>14. CASE CalendarCommit
  <2>1. Touched("calendar") BY <1>14, <1>3, <1>6 DEF CalendarCommit
  <2>2. QED BY <1>14, <2>1, <1>5, <1>6 DEF CalendarCommit
<1>15. CASE PushLoad
  <2>1. Touched("push") BY <1>15, <1>3, <1>6 DEF PushLoad
  <2>2. QED BY <1>15, <2>1, <1>5, <1>6 DEF PushLoad
<1>16. CASE PushApply
  <2>1. Touched("push") BY <1>16, <1>3, <1>6 DEF PushApply
  <2>2. UNCHANGED <<now, due, retry, ordered, cuts, faults, entitled, graces, cut>> /\ Len(events') <= MaxEvents
    BY <1>16, <1>4 DEF PushApply
  <2>3. QED BY <2>1, <2>2, <1>5, <1>6
<1>17. CASE RetryLoad
  <2>1. Touched("retry") BY <1>17, <1>3, <1>6 DEF RetryLoad
  <2>2. UNCHANGED <<now, events, due, ordered, cuts, faults, entitled, graces, cut>> /\ retry' \in BOOLEAN
    BY <1>17 DEF RetryLoad
  <2>3. QED BY <2>1, <2>2, <1>5, <1>6
<1>18. CASE RetryWrite
  <2>1. Touched("retry") BY <1>18, <1>3, <1>6 DEF RetryWrite
  <2>2. QED BY <1>18, <2>1, <1>4, <1>5, <1>6 DEF RetryWrite
<1>19. CASE RetryFails
  <2>1. Touched("retry") BY <1>19, <1>3, <1>6 DEF RetryFails
  <2>2. QED BY <1>19, <2>1, <1>5, <1>6, <1>7 DEF RetryFails
<1>20. CASE BackstopLoad
  <2>1. Touched("backstop") BY <1>20, <1>3, <1>6 DEF BackstopLoad
  <2>2. QED BY <1>20, <2>1, <1>5, <1>6 DEF BackstopLoad
<1>21. CASE BackstopFetch
  <2>1. Touched("backstop")
    BY <1>21, <1>1, <1>6 DEF BackstopFetch, Touched, SessionsUpTo
  <2>2. UNCHANGED <<now, events, due, retry, ordered, cuts, faults, entitled, graces, cut>>
    BY <1>21 DEF BackstopFetch
  <2>3. QED BY <2>1, <2>2, <1>5, <1>6
<1>22. CASE BackstopDisable
  <2>1. Touched("backstop") BY <1>22, <1>3, <1>6 DEF BackstopDisable
  <2>2. QED BY <1>22, <2>1, <1>4, <1>5, <1>6 DEF BackstopDisable
<1>23. CASE GraceLoad
  <2>1. Touched("grace") BY <1>23, <1>3, <1>6 DEF GraceLoad
  <2>2. QED BY <1>23, <2>1, <1>5, <1>6 DEF GraceLoad
<1>24. CASE GraceApply
  <2>1. Touched("grace") BY <1>24, <1>3, <1>6 DEF GraceApply
  <2>2. graces' = graces + 1 /\ Len(events') <= MaxEvents
        /\ UNCHANGED <<now, due, retry, ordered, cuts, faults, entitled, cut>>
    BY <1>24, <1>4 DEF GraceApply
  <2>3. QED BY <1>24, <2>1, <2>2, <1>5, <1>6
<1>25. CASE GraceEnable
  <2>1. Touched("grace") BY <1>25, <1>3, <1>6 DEF GraceEnable
  <2>2. QED BY <1>25, <2>1, <1>4, <1>5, <1>6 DEF GraceEnable
<1>26. CASE GraceEnd
  <2>1. Touched("grace") BY <1>26, <1>3, <1>6 DEF GraceEnd
  <2>2. QED BY <1>26, <2>1, <1>4, <1>5, <1>6 DEF GraceEnd
<1>27. CASE GraceEndUnanswered
  <2>1. Touched("grace") BY <1>27, <1>3, <1>6 DEF GraceEndUnanswered
  <2>2. QED BY <1>27, <2>1, <1>5, <1>6, <1>7 DEF GraceEndUnanswered
<1>28. CASE GraceCommit
  <2>1. Touched("grace") BY <1>28, <1>3, <1>6 DEF GraceCommit
  <2>2. QED BY <1>28, <2>1, <1>5, <1>6 DEF GraceCommit
<1>29. CASE ResyncLoad
  <2>1. Touched("resync") BY <1>29, <1>3, <1>6 DEF ResyncLoad
  <2>2. QED BY <1>29, <2>1, <1>5, <1>6 DEF ResyncLoad
<1>30. CASE ResyncFetch
  <2>1. Touched("resync")
    BY <1>30, <1>1, <1>3, <1>6 DEF ResyncFetch, Touched, SessionsUpTo
  <2>2. QED BY <1>30, <2>1, <1>5, <1>6 DEF ResyncFetch
<1>31. CASE ResyncPush
  <2>1. Touched("resync") BY <1>31, <1>3, <1>6 DEF ResyncPush
  <2>2. UNCHANGED <<now, due, retry, ordered, cuts, faults, entitled, graces, cut>> /\ Len(events') <= MaxEvents
    BY <1>31, <1>4 DEF ResyncPush
  <2>3. QED BY <2>1, <2>2, <1>5, <1>6
<1>32. CASE ResyncEnable
  <2>1. Touched("resync") BY <1>32, <1>3, <1>6 DEF ResyncEnable
  <2>2. QED BY <1>32, <2>1, <1>4, <1>5, <1>6 DEF ResyncEnable
<1>33. CASE ResyncUnanswered
  <2>1. Touched("resync") BY <1>33, <1>3, <1>6 DEF ResyncUnanswered
  <2>2. QED BY <1>33, <2>1, <1>5, <1>6, <1>7 DEF ResyncUnanswered
<1>34. CASE ResyncCommit
  <2>1. Touched("resync") BY <1>34, <1>3, <1>6 DEF ResyncCommit
  <2>2. QED BY <1>34, <2>1, <1>5, <1>6 DEF ResyncCommit
<1>35. ASSUME NEW j \in AllJobs \ {"pay", "extend"}, JobFails(j) PROVE Calm
  <2>1. Touched(j) BY <1>35, <1>3 DEF JobFails, RollsBack
  <2>2. QED BY <1>35, <2>1, <1>5, <1>7 DEF JobFails, RollsBack
<1>36. QED
  BY <1>8, <1>9, <1>10, <1>11, <1>12, <1>13, <1>14, <1>15, <1>16, <1>17, <1>18, <1>19, <1>20,
     <1>21, <1>22, <1>23, <1>24, <1>25, <1>26, <1>27, <1>28, <1>29, <1>30, <1>31, <1>32, <1>33,
     <1>34, <1>35
     DEF LifecycleNext, CutStep, Loud

LEMMA SessionAfter ==
  ASSUME NEW d \in Nat, session \in SessionsUpTo(d), NEW j \in AllJobs
  PROVE  /\ Load(j) => /\ session'[j].at = "loaded" /\ session'[j].old = sub /\ session'[j].new = sub
                       /\ session[j].at = "idle"
         /\ Ends(j) => session'[j] = Idle
         /\ \A s : Goes(j, s) => /\ session'[j].at = s /\ session'[j].old = session[j].old
                                 /\ session'[j].new = session[j].new
         /\ \A r, s : Sets(j, r, s) => /\ session'[j].at = s /\ session'[j].old = session[j].old
                                       /\ session'[j].new = r
<1> HIDE DEF RowsUpTo
<1>1. QED BY DEF Load, Ends, Goes, Sets, SessionsUpTo

(* Orders, renewals under way and what they committed, step by step.       *)
LEMMA CountsStep ==
  ASSUME Shaped, Counted, LifecycleNext
  PROVE  /\ Shaped'
         /\ session'["pay"].at # "idle" => due' > 0
         /\ Committed' \in Nat /\ entitled' <= Reach(Committed')
         /\ Spent' \in Nat /\ Spent' >= Spent
         /\ \A j \in {"pay", "extend"} : RenewApply(j) => Spent' >= Spent + 1
<1> DEFINE Goal == /\ Shaped'
                   /\ session'["pay"].at # "idle" => due' > 0
                   /\ Committed' \in Nat /\ entitled' <= Reach(Committed')
                   /\ Spent' \in Nat /\ Spent' >= Spent
                   /\ \A j \in {"pay", "extend"} : RenewApply(j) => Spent' >= Spent + 1
<1>1. PICK d \in Nat : DatesUpTo(d)
  <2>1. Spent \in Nat
    BY DEF Shaped, Counted, Committed, Spent
  <2>2. QED BY <2>1, ReachStart DEF Counted
<1>2. /\ session \in SessionsUpTo(d) /\ events \in Seq(EventsUpTo(d))
  BY <1>1 DEF DatesUpTo
<1>3. /\ "pay" \in AllJobs /\ "extend" \in AllJobs /\ "calendar" \in AllJobs
  BY DEF AllJobs
<1>4. \A j \in AllJobs :
         /\ Load(j) => Touched(j)
         /\ Ends(j) => Touched(j)
         /\ \A r, s : session[j].at # "idle" /\ Sets(j, r, s) => Touched(j)
  BY <1>2, SessionTouched
<1>5. \A j \in AllJobs :
         /\ Load(j) => session'[j].at = "loaded" /\ session[j].at = "idle"
         /\ Ends(j) => session'[j].at = "idle"
         /\ \A r, s : Sets(j, r, s) => session'[j].at = s
  <2>1. Idle.at = "idle"
    BY DEF Idle
  <2> HIDE DEF Idle
  <2>2. QED BY <1>2, <2>1, SessionAfter
<1>6. /\ Committed \in Nat /\ entitled <= Reach(Committed) /\ Spent \in Nat
      /\ Reach(Committed) \in Nat /\ Reach(Committed + 1) = Reach(Committed) + Period
      /\ Reach(Committed) >= MaxTime + Grace + Period
      /\ Period \in Nat \ {0} /\ Grace \in Nat \ {0}
      /\ \A m \in Nat : Committed <= m => Reach(Committed) <= Reach(m)
      /\ MaxOrders \in Nat /\ MaxFaults \in Nat /\ MaxTime \in Nat
  <2>1. Committed \in Nat /\ entitled <= Reach(Committed)
    BY DEF Counted
  <2>2. Spent \in Nat
    BY DEF Shaped, Counted, Committed, Spent
  <2>3. /\ Period \in Nat \ {0} /\ Grace \in Nat \ {0}
        /\ MaxOrders \in Nat /\ MaxFaults \in Nat /\ MaxTime \in Nat
    BY LifecycleAssumption
  <2>4. Reach(Committed) \in Nat /\ Reach(Committed) >= MaxTime + Grace + Period
    BY <2>1, ReachStart
  <2>5. /\ Reach(Committed + 1) = Reach(Committed) + Period
        /\ \A m \in Nat : Committed <= m => Reach(Committed) <= Reach(m)
    BY <2>1, ReachGrows
  <2>6. QED BY <2>1, <2>2, <2>3, <2>4, <2>5
<1>7. /\ session["pay"].at \in {"idle", "loaded", "commit"}
      /\ session["extend"].at \in {"idle", "loaded", "commit"}
      /\ session["pay"].at # "idle" => due > 0
      /\ due \in 0..MaxOrders /\ ordered \in 0..MaxOrders /\ faults \in 0..MaxFaults
      /\ now \in 1..MaxTime /\ entitled \in Nat
  BY DEF Shaped, Counted
<1>8. Len(events) \in Nat /\ (\A u, name : Becomes(name, u) => Len(events') <= MaxEvents)
  <2>1. Len(events) \in Nat
    BY <1>2, LenProperties
  <2>2. ASSUME NEW u, NEW name, Becomes(name, u) PROVE Len(events') <= MaxEvents
    <3>1. Len(Append(events, Event(name, u))) = Len(events) + 1
      BY <1>2
    <3>2. QED BY <2>1, <2>2, <3>1, LifecycleAssumption DEF Becomes, Shaped
  <2>3. QED BY <2>1, <2>2
<1> HIDE DEF Goal
<1>9. SUFFICES Goal
  BY DEF Goal
<1>10. CASE Calm
  <2>1. ~RenewApply("pay") /\ ~RenewApply("extend")
    BY <1>7, <1>10, <1>3, <1>5 DEF Calm, RenewApply, At
  <2>2. Shaped'
    BY <1>7, <1>10 DEF Calm, Shaped
  <2>3. Committed' = Committed /\ Spent' \in Nat /\ Spent' >= Spent
    <3>1. /\ session'["pay"].at = session["pay"].at /\ session'["extend"].at = session["extend"].at
          /\ UNCHANGED <<due, ordered>> /\ faults' \in faults..MaxFaults
      BY <1>10 DEF Calm
    <3>2. MaxFaults \in Nat /\ Spent \in Nat
      BY <1>6
    <3>3. Committed' = Committed
      BY <3>1 DEF Committed
    <3>4. PICK k \in Nat : faults' = faults + k
      <4>1. faults \in Nat /\ MaxFaults \in Nat
        BY <1>7, <3>2
      <4>2. QED BY <3>1, <4>1
    <3>5. Spent' = Spent + k
      BY <1>7, <3>1, <3>4 DEF Spent
    <3>6. QED BY <3>2, <3>3, <3>4, <3>5
  <2>4. entitled' = entitled /\ (session'["pay"].at # "idle" => due' > 0)
    BY <1>7, <1>10 DEF Calm
  <2>5. Reach(Committed') = Reach(Committed)
    BY <2>3
  <2>6. QED BY <1>6, <2>1, <2>2, <2>3, <2>4, <2>5 DEF Goal
<1>11. \A j \in {"pay", "extend"} :
          RenewApply(j) => session[j].at = "loaded" /\ session'[j].at = "commit"
  BY <1>3, <1>5 DEF RenewApply, At
<1>12. ASSUME NEW j \in AllJobs, Touched(j)
       PROVE  /\ \A k \in AllJobs \ {j} : session'[k].at = session[k].at
              /\ \A k \in AllJobs : session'[k].at # "idle" => k \in shop.jobs
  BY <1>12 DEF Touched, Shaped
<1>13. UNCHANGED shop
  BY DEF LifecycleNext
<1>14. CASE Tick
  <2>1. /\ now' \in 1..MaxTime
        /\ UNCHANGED <<sub, user, events, session, due, retry, ordered, cuts, faults, entitled, graces, cut>>
    BY <1>6, <1>7, <1>14 DEF Tick
  <2>2. Shaped'
    BY <1>13, <2>1 DEF Shaped
  <2>3. Committed' = Committed /\ Spent' = Spent /\ (session'["pay"].at # "idle" => due' > 0)
    BY <1>7, <2>1 DEF Committed, Spent
  <2>4. \A j \in {"pay", "extend"} : ~RenewApply(j)
    BY <1>11, <2>1
  <2>5. QED BY <1>6, <2>1, <2>2, <2>3, <2>4 DEF Goal
<1>15. CASE Order
  <2>1. /\ ordered' = ordered + 1 /\ ordered < MaxOrders /\ due' = due + 1
        /\ UNCHANGED <<now, sub, user, events, session, retry, cuts, faults, entitled, graces, cut>>
    BY <1>15 DEF Order
  <2>2. due <= ordered
    BY <1>6, <1>7 DEF Committed
  <2>3. Shaped'
    BY <1>6, <1>7, <1>13, <2>1, <2>2 DEF Shaped
  <2>4. Committed' = Committed /\ Spent' = Spent /\ (session'["pay"].at # "idle" => due' > 0)
    BY <1>7, <2>1 DEF Committed, Spent
  <2>5. \A j \in {"pay", "extend"} : ~RenewApply(j)
    BY <1>11, <2>1
  <2>6. QED BY <1>6, <2>1, <2>3, <2>4, <2>5 DEF Goal
<1>16. CASE RenewLoad("pay")
  <2>1. /\ due > 0 /\ session'["pay"].at = "loaded" /\ session["pay"].at = "idle"
        /\ UNCHANGED <<now, sub, user, events, due, retry, ordered, cuts, faults, entitled, graces, cut>>
    BY <1>16, <1>3, <1>5 DEF RenewLoad
  <2>2. Touched("pay")
    BY <1>16, <1>3, <1>4 DEF RenewLoad
  <2>3. session'["extend"].at = session["extend"].at
    BY <1>3, <1>12, <2>2
  <2>4. Shaped'
    BY <1>3, <1>7, <1>12, <1>13, <2>1, <2>2, <2>3 DEF Shaped
  <2>5. Committed' = Committed /\ Spent' = Spent
    BY <1>7, <2>1, <2>3 DEF Committed, Spent
  <2>6. \A j \in {"pay", "extend"} : ~RenewApply(j)
    BY <1>11, <2>1, <2>3
  <2>7. QED BY <1>6, <2>1, <2>4, <2>5, <2>6 DEF Goal
<1>17. CASE RenewLoad("extend")
  <2>1. /\ session'["extend"].at = "loaded" /\ session["extend"].at = "idle"
        /\ ordered < MaxOrders /\ ordered' = ordered + 1
        /\ UNCHANGED <<now, sub, user, events, due, retry, cuts, faults, entitled, graces, cut>>
    BY <1>17, <1>3, <1>5 DEF RenewLoad
  <2>2. Touched("extend")
    BY <1>17, <1>3, <1>4 DEF RenewLoad
  <2>3. session'["pay"].at = session["pay"].at
    BY <1>3, <1>12, <2>2
  <2>4. Shaped'
    BY <1>3, <1>6, <1>7, <1>12, <1>13, <2>1, <2>2, <2>3 DEF Shaped
  <2>5. Committed' = Committed /\ Spent' = Spent /\ (session'["pay"].at # "idle" => due' > 0)
    BY <1>7, <2>1, <2>3 DEF Committed, Spent
  <2>6. \A j \in {"pay", "extend"} : ~RenewApply(j)
    BY <1>11, <2>1, <2>3
  <2>7. QED BY <1>6, <2>1, <2>4, <2>5, <2>6 DEF Goal
<1>18. ASSUME NEW j \in {"pay", "extend"}, NEW k \in {"pay", "extend"} \ {j}, RenewApply(j) PROVE Goal
  <2>1. /\ session[j].at = "loaded" /\ session'[j].at = "commit" /\ Len(events') <= MaxEvents
        /\ UNCHANGED <<now, sub, due, retry, ordered, cuts, faults, entitled, graces, cut>>
    BY <1>18, <1>8, <1>11 DEF RenewApply
  <2>2. Touched(j)
    BY <1>18, <1>3, <1>4, <2>1 DEF RenewApply
  <2>3. session'[k].at = session[k].at
    BY <1>3, <1>12, <2>2
  <2>4. Shaped'
    BY <1>3, <1>7, <1>12, <1>13, <2>1, <2>2, <2>3 DEF Shaped
  <2>5. Committed' = Committed /\ Spent' = Spent + 1 /\ (session'["pay"].at # "idle" => due' > 0)
    <3>1. CASE j = "pay" /\ k = "extend"
      <4>1. /\ session["pay"].at = "loaded" /\ session'["pay"].at = "commit"
            /\ session'["extend"].at = session["extend"].at
        BY <2>1, <2>3, <3>1
      <4>2. QED BY <1>7, <2>1, <4>1 DEF Committed, Spent
    <3>2. CASE j = "extend" /\ k = "pay"
      <4>1. /\ session["extend"].at = "loaded" /\ session'["extend"].at = "commit"
            /\ session'["pay"].at = session["pay"].at
        BY <2>1, <2>3, <3>2
      <4>2. QED BY <1>7, <2>1, <4>1 DEF Committed, Spent
    <3>3. QED BY <3>1, <3>2
  <2>6. QED BY <1>6, <2>1, <2>4, <2>5 DEF Goal
<1>19. CASE RenewCommit("pay")
  <2>1. /\ session["pay"].at = "commit" /\ session'["pay"].at = "idle" /\ due' = due - 1
        /\ entitled' = Later(entitled, now) + Period /\ cut' \in BOOLEAN
        /\ UNCHANGED <<now, user, events, retry, ordered, cuts, faults, graces>>
    BY <1>19, <1>3, <1>5 DEF RenewCommit, At
  <2>2. Touched("pay")
    BY <1>19, <1>3, <1>4 DEF RenewCommit
  <2>3. session'["extend"].at = session["extend"].at
    BY <1>3, <1>12, <2>2
  <2>4. entitled' \in Nat /\ entitled' >= entitled /\ entitled' <= Reach(Committed) + Period
    BY <1>6, <1>7, <2>1 DEF Later
  <2>5. Shaped'
    BY <1>3, <1>6, <1>7, <1>12, <1>13, <2>1, <2>2, <2>3, <2>4 DEF Shaped
  <2>6. Committed' = Committed + 1 /\ Spent' = Spent
    BY <1>7, <2>1, <2>3 DEF Committed, Spent
  <2>7. \A j \in {"pay", "extend"} : ~RenewApply(j)
    BY <1>11, <2>1, <2>3
  <2>8. QED BY <1>6, <2>1, <2>4, <2>5, <2>6, <2>7 DEF Goal
<1>20. CASE RenewCommit("extend")
  <2>1. /\ session["extend"].at = "commit" /\ session'["extend"].at = "idle" /\ due' = due
        /\ entitled' = Later(entitled, now) + Period /\ cut' \in BOOLEAN
        /\ UNCHANGED <<now, user, events, retry, ordered, cuts, faults, graces>>
    BY <1>20, <1>3, <1>5 DEF RenewCommit, At, Shaped
  <2>2. Touched("extend")
    BY <1>20, <1>3, <1>4 DEF RenewCommit
  <2>3. session'["pay"].at = session["pay"].at
    BY <1>3, <1>12, <2>2
  <2>4. entitled' \in Nat /\ entitled' >= entitled /\ entitled' <= Reach(Committed) + Period
    BY <1>6, <1>7, <2>1 DEF Later
  <2>5. Shaped'
    BY <1>3, <1>6, <1>7, <1>12, <1>13, <2>1, <2>2, <2>3, <2>4 DEF Shaped
  <2>6. Committed' = Committed + 1 /\ Spent' = Spent /\ (session'["pay"].at # "idle" => due' > 0)
    BY <1>7, <2>1, <2>3 DEF Committed, Spent
  <2>7. \A j \in {"pay", "extend"} : ~RenewApply(j)
    BY <1>11, <2>1, <2>3
  <2>8. QED BY <1>6, <2>1, <2>4, <2>5, <2>6, <2>7 DEF Goal
<1>21. CASE CalendarLoad \/ CalendarApply
  <2>1. Touched("calendar")
    BY <1>21, <1>3, <1>4 DEF CalendarLoad, CalendarApply, At
  <2>2. /\ session'["pay"].at = session["pay"].at /\ session'["extend"].at = session["extend"].at
        /\ \A k \in AllJobs : session'[k].at # "idle" => k \in shop.jobs
    BY <1>3, <1>12, <2>1
  <2>3. /\ ordered' \in {ordered, ordered + 1} /\ ordered' <= MaxOrders /\ Len(events') <= MaxEvents
        /\ entitled' \in {entitled, Later(entitled, now), Later(entitled, now + 1)}
        /\ UNCHANGED <<now, due, retry, cuts, faults, graces, cut>>
    <3>1. CASE CalendarLoad
      <4>1. /\ ordered < MaxOrders /\ ordered' = ordered + 1
            /\ UNCHANGED <<now, events, due, retry, cuts, faults, entitled, graces, cut>>
        BY <3>1 DEF CalendarLoad
      <4>2. Len(events') <= MaxEvents
        BY <4>1 DEF Shaped
      <4>3. QED BY <1>6, <1>7, <4>1, <4>2
    <3>2. CASE CalendarApply
      <4>1. /\ \E date \in {now, now + 1} : entitled' = Later(entitled, date)
            /\ Len(events') <= MaxEvents
            /\ UNCHANGED <<now, due, retry, ordered, cuts, faults, graces, cut>>
        BY <1>8, <3>2 DEF CalendarApply
      <4>2. QED BY <1>7, <4>1
    <3>3. QED BY <1>21, <3>1, <3>2
  <2>4. entitled' \in Nat /\ entitled' >= entitled /\ entitled' <= Reach(Committed)
    BY <1>6, <1>7, <2>3 DEF Later
  <2>5. Shaped'
    BY <1>6, <1>7, <1>13, <2>2, <2>3, <2>4 DEF Shaped
  <2>6. /\ Committed' \in {Committed, Committed + 1} /\ Spent' \in {Spent, Spent + 1}
        /\ session'["pay"].at # "idle" => due' > 0
    <3>1. Committed' \in {Committed, Committed + 1}
      <4>1. CASE ordered' = ordered
        BY <2>2, <2>3, <4>1 DEF Committed
      <4>2. CASE ordered' = ordered + 1
        BY <1>7, <2>2, <2>3, <4>2 DEF Committed
      <4>3. QED BY <2>3, <4>1, <4>2
    <3>2. Spent' \in {Spent, Spent + 1}
      <4>1. CASE ordered' = ordered
        BY <2>2, <2>3, <4>1 DEF Spent
      <4>2. CASE ordered' = ordered + 1
        BY <1>7, <2>2, <2>3, <4>2 DEF Spent
      <4>3. QED BY <2>3, <4>1, <4>2
    <3>3. QED BY <1>7, <2>2, <2>3, <3>1, <3>2
  <2>7. \A j \in {"pay", "extend"} : ~RenewApply(j)
    BY <1>11, <2>2
  <2>8. Reach(Committed) <= Reach(Committed')
    BY <1>6, <2>6
  <2>9. QED BY <1>6, <2>2, <2>4, <2>5, <2>6, <2>7, <2>8 DEF Goal
<1>22. ASSUME NEW j \in {"pay", "extend"}, NEW k \in {"pay", "extend"} \ {j}, JobFails(j) PROVE Goal
  <2>1. /\ session'[j].at = "idle" /\ session[j].at # "idle" /\ faults' = faults + 1 /\ faults < MaxFaults
        /\ UNCHANGED <<sub, now, user, events, due, retry, ordered, cuts, entitled, graces, cut>>
    BY <1>22, <1>3, <1>5 DEF JobFails, RollsBack, Fault
  <2>2. Touched(j)
    BY <1>22, <1>3, <1>4 DEF JobFails, RollsBack
  <2>3. session'[k].at = session[k].at
    BY <1>3, <1>12, <2>2
  <2>4. Shaped'
    BY <1>3, <1>6, <1>7, <1>12, <1>13, <2>1, <2>2, <2>3 DEF Shaped
  <2>5. /\ Committed' \in {Committed, Committed + 1} /\ Spent' \in {Spent, Spent + 1, Spent + 2}
        /\ session'["pay"].at # "idle" => due' > 0
    BY <1>7, <2>1, <2>3 DEF Committed, Spent
  <2>6. \A i \in {"pay", "extend"} : ~RenewApply(i)
    BY <1>11, <2>1, <2>3
  <2>7. Reach(Committed) <= Reach(Committed')
    BY <1>6, <2>5
  <2>8. QED BY <1>6, <1>7, <2>1, <2>4, <2>5, <2>6, <2>7 DEF Goal
<1>23. QED
  <2>1. Calm \/ Loud
    BY <1>1, CalmSteps
  <2>2. "pay" \in {"pay", "extend"} \ {"extend"} /\ "extend" \in {"pay", "extend"} \ {"pay"}
    OBVIOUS
  <2>3. QED
    BY <1>10, <1>14, <1>15, <1>16, <1>17, <1>18, <1>19, <1>20, <1>21, <1>22, <2>1, <2>2
       DEF Loud, RenewStep
-----------------------------------------------------------------------------
(* The first state. *)

LEMMA InitLifecycle == LifecycleInit => LifecycleInv
<1> SUFFICES ASSUME LifecycleInit PROVE LifecycleInv
  OBVIOUS
<1> DEFINE E == Reach(0)
<1>1. /\ {Period, Grace, Cooldown, Lookback, MaxTime} \subseteq Nat \ {0}
      /\ {MaxOrders, MaxCuts, MaxEvents, MaxFaults} \subseteq Nat
      /\ shop \in Settings /\ now = 1
  BY LifecycleAssumption DEF LifecycleInit
<1>2. Reach(0) \in Nat /\ Reach(0) >= MaxTime + Grace + Period
  BY ReachStart
<1>3. \A j \in AllJobs : session[j] = Idle
  BY DEF LifecycleInit
<1>4. Idle.at = "idle" /\ Idle.new = FirstRow /\ Idle.old = FirstRow /\ Idle.on = FALSE
  BY DEF Idle
<1>5. {"pay", "extend", "grace"} \subseteq AllJobs
  BY DEF AllJobs
<1>6. /\ \A j \in AllJobs : session[j].at = "idle"
      /\ session["pay"].at = "idle" /\ session["extend"].at = "idle"
  <2> HIDE DEF Idle
  <2>1. QED BY <1>3, <1>4, <1>5
<1>7. /\ events = << >> /\ Len(events) = 0
       /\ retry \in BOOLEAN /\ cut \in BOOLEAN /\ due = 0 /\ ordered = 0 /\ cuts = 0 /\ faults = 0
       /\ entitled = 1 + Period /\ graces = 0
  BY DEF LifecycleInit
<1>8. Shaped
  BY <1>1, <1>6, <1>7 DEF Shaped
<1>9. Committed = 0 /\ Spent = 0
  BY <1>6, <1>7 DEF Committed, Spent
<1> HIDE DEF E
<1>10. DatesUpTo(E)
  <2>1. E \in Nat /\ 1 + Period <= E
    BY <1>1, <1>2 DEF E
  <2>2. FirstRow \in RowsUpTo(E)
    BY <1>1, <2>1 DEF FirstRow, RowsUpTo, Statuses
  <2>3. sub \in RowsUpTo(E)
    BY <2>2 DEF LifecycleInit
  <2>4. user \in UsersUpTo(E)
    BY <1>1, <2>1 DEF LifecycleInit, UsersUpTo
  <2>5. events \in Seq(EventsUpTo(E))
    BY DEF LifecycleInit
  <2>6. session \in SessionsUpTo(E)
    <3> HIDE DEF FirstRow
    <3>1. Idle \in [at: Steps, old: RowsUpTo(E), new: RowsUpTo(E), on: BOOLEAN]
      BY <2>2 DEF Idle, Steps
    <3>2. QED BY <3>1 DEF LifecycleInit, SessionsUpTo
  <2>7. QED BY <2>3, <2>4, <2>5, <2>6 DEF DatesUpTo
<1>11. Counted
  <2>1. session["pay"].at = "idle"
    BY <1>3, <1>4, <1>5
  <2>2. entitled = 1 + Period
    BY DEF LifecycleInit
  <2>3. QED BY <1>1, <1>2, <1>9, <1>10, <2>1, <2>2 DEF Counted, E
<1>12. GraceKept
  <2>1. Sweep.at = "idle" /\ Sweep.new.graced = Sweep.old.graced
    BY <1>3, <1>4, <1>5 DEF Sweep
  <2>2. \A j \in AllJobs : session[j].new.graced = session[j].old.graced
    BY <1>3, <1>4
  <2>3. QED BY <2>1, <2>2 DEF GraceKept
<1>13. QED BY <1>8, <1>11, <1>12 DEF LifecycleInv

-----------------------------------------------------------------------------
(* When grace began.  Only the sweep's session changes it.                 *)

Kept(j) == Touched(j) /\ session'[j].new.graced = session'[j].old.graced

LEMMA SessionKept ==
  ASSUME NEW d \in Nat, session \in SessionsUpTo(d), Shaped, NEW j \in AllJobs,
         session[j].new.graced = session[j].old.graced
  PROVE  /\ Load(j) => Kept(j)
         /\ Ends(j) => Kept(j)
         /\ \A s : session[j].at # "idle" /\ Goes(j, s) => Kept(j)
         /\ \A r, s : session[j].at # "idle" /\ r.graced = session[j].old.graced /\ Sets(j, r, s)
                        => Kept(j)
<1>1. /\ Load(j) => Touched(j)
      /\ Ends(j) => Touched(j)
      /\ \A s : session[j].at # "idle" /\ Goes(j, s) => Touched(j)
      /\ \A r, s : session[j].at # "idle" /\ Sets(j, r, s) => Touched(j)
  BY SessionTouched
<1>2. /\ Load(j) => session'[j].old = sub /\ session'[j].new = sub
      /\ Ends(j) => session'[j] = Idle
      /\ \A s : Goes(j, s) => session'[j].old = session[j].old /\ session'[j].new = session[j].new
      /\ \A r, s : Sets(j, r, s) => session'[j].old = session[j].old /\ session'[j].new = r
  BY SessionAfter
<1>3. Idle.new.graced = Idle.old.graced
  BY DEF Idle
<1>4. QED BY <1>1, <1>2, <1>3 DEF Kept

LEMMA KeptByOthers ==
  ASSUME GraceKept, NEW j \in AllJobs \ {"grace"}, Kept(j), now' = now, sub'.graced = sub.graced
  PROVE  GraceKept'
<1>1. "grace" \in AllJobs
  BY DEF AllJobs
<1>2. session'["grace"] = session["grace"]
  BY <1>1 DEF Kept, Touched
<1>3. \A k \in AllJobs \ {"grace"} : session'[k].new.graced = session'[k].old.graced
  <2>1. \A k \in AllJobs \ {j} : session'[k] = session[k]
    BY DEF Kept, Touched
  <2>2. QED BY <2>1 DEF GraceKept, Kept
<1>4. QED BY <1>2, <1>3 DEF GraceKept, Sweep, GraceEntry, GraceOver

LEMMA RowGraced ==
  ASSUME NEW d \in Nat, NEW row \in RowsUpTo(d)
  PROVE  /\ Renewed(row).graced = row.graced
         /\ Revoked(row).graced = row.graced
         /\ \A st, g : [row EXCEPT !.status = st, !.grace = g].graced = row.graced
         /\ \A x, st, g : [row EXCEPT !.expire = x, !.status = st, !.grace = g].graced = row.graced
<1> HIDE DEF Statuses
<1>1. QED BY DEF Renewed, Revoked, RowsUpTo

LEMMA GraceStep ==
  ASSUME NEW d \in Nat, DatesUpTo(d), Shaped, GraceKept, LifecycleNext
  PROVE  /\ GraceKept'
         /\ sub'.graced # sub.graced =>
               sub'.graced = Sweep.new.graced /\ Sweep.new.graced # Sweep.old.graced
<1> DEFINE Same == sub'.graced = sub.graced
           Goal == /\ GraceKept'
                   /\ Same \/ (sub'.graced = Sweep.new.graced /\ Sweep.new.graced # Sweep.old.graced)
<1> SUFFICES Goal
  OBVIOUS
<1>1. /\ session \in SessionsUpTo(d) /\ sub \in RowsUpTo(d) /\ events \in Seq(EventsUpTo(d))
  BY DEF DatesUpTo
<1>2. \A j \in AllJobs : session[j].old \in RowsUpTo(d) /\ session[j].new \in RowsUpTo(d)
  BY <1>1 DEF SessionsUpTo
<1>3. \A j \in AllJobs : Flushed(j).graced = IF session[j].new.graced # session[j].old.graced
                                             THEN session[j].new.graced ELSE sub.graced
  BY <1>1, FlushedRow
<1>4. \A j \in AllJobs :
         /\ Renewed(session[j].old).graced = session[j].old.graced
         /\ Revoked(session[j].old).graced = session[j].old.graced
         /\ \A st, g : [session[j].old EXCEPT !.status = st, !.grace = g].graced = session[j].old.graced
         /\ \A x, st, g : [session[j].old EXCEPT !.expire = x, !.status = st, !.grace = g].graced
                            = session[j].old.graced
  BY <1>2, RowGraced
<1>5. \A j \in AllJobs \ {"grace"} : session[j].new.graced = session[j].old.graced
  BY DEF GraceKept
<1>6. \A j \in AllJobs \ {"grace"} :
         /\ Load(j) => Kept(j)
         /\ Ends(j) => Kept(j)
         /\ \A s : session[j].at # "idle" /\ Goes(j, s) => Kept(j)
         /\ \A r, s : session[j].at # "idle" /\ r.graced = session[j].old.graced /\ Sets(j, r, s)
                        => Kept(j)
  BY <1>1, <1>5, SessionKept
<1>7. ASSUME NEW j \in AllJobs \ {"grace"}, Kept(j), now' = now, Same PROVE Goal
  BY <1>7, KeptByOthers
<1>8. \A j \in AllJobs \ {"grace"} : Flushed(j).graced = sub.graced
  BY <1>3, <1>5
<1>9. /\ {"pay", "extend", "refund", "guard"} \subseteq AllJobs \ {"grace"}
      /\ {"calendar", "resync", "retry", "backstop", "push"} \subseteq AllJobs \ {"grace"}
      /\ "grace" \in AllJobs
  BY DEF AllJobs
<1> HIDE DEF Goal
<1>10. CASE Tick
  <2>1. Sweep.at = "idle"
    BY <1>9, <1>10 DEF Tick, Open, Sweep, Shaped
  <2>2. UNCHANGED <<sub, session>>
    BY <1>10 DEF Tick
  <2>3. QED BY <2>1, <2>2 DEF GraceKept, Sweep, Goal
<1>11. CASE PanelExpires \/ Order
  <2>1. UNCHANGED <<now, sub, session>>
    BY <1>11 DEF PanelExpires, Order
  <2>2. QED BY <2>1 DEF GraceKept, Sweep, GraceEntry, GraceOver, Goal
<1>12. CASE PanelWebhook
  <2>1. PICK i \in 1..Len(events) : sub' = Mirrored(events[i])
    BY <1>12 DEF PanelWebhook
  <2>2. events[i] \in EventsUpTo(d)
    BY <1>1, <2>1, EventTaken
  <2>3. sub'.graced = sub.graced
    BY <1>1, <2>1, <2>2, MirroredRow
  <2>4. UNCHANGED <<now, session>>
    BY <1>12 DEF PanelWebhook
  <2>5. QED BY <2>3, <2>4 DEF GraceKept, Sweep, GraceEntry, GraceOver, Goal
<1>13. ASSUME NEW j \in {"pay", "extend"}, RenewLoad(j) PROVE Goal
  BY <1>13, <1>6, <1>7, <1>9 DEF RenewLoad
<1>14. ASSUME NEW j \in {"pay", "extend"}, RenewApply(j) PROVE Goal
  <2>1. Kept(j)
    BY <1>14, <1>4, <1>6, <1>9 DEF RenewApply, At
  <2>2. QED BY <1>14, <2>1, <1>7, <1>9 DEF RenewApply
<1>15. ASSUME NEW j \in {"pay", "extend"}, RenewCommit(j) PROVE Goal
  BY <1>15, <1>6, <1>7, <1>8, <1>9 DEF RenewCommit
<1>16. ASSUME NEW j \in {"refund", "guard"}, CutLoad(j) PROVE Goal
  BY <1>16, <1>6, <1>7, <1>9 DEF CutLoad
<1>17. ASSUME NEW j \in {"refund", "guard"}, CutDisable(j) PROVE Goal
  <2>1. Kept(j)
    BY <1>17, <1>4, <1>6, <1>9 DEF CutDisable, At
  <2>2. QED BY <1>17, <2>1, <1>7, <1>9 DEF CutDisable
<1>18. ASSUME NEW j \in {"refund", "guard"}, CutUnanswered(j) PROVE Goal
  <2>1. Kept(j)
    BY <1>18, <1>4, <1>6, <1>9 DEF CutUnanswered, At
  <2>2. QED BY <1>18, <2>1, <1>7, <1>9 DEF CutUnanswered
<1>19. ASSUME NEW j \in {"refund", "guard"}, CutCommit(j) PROVE Goal
  BY <1>19, <1>6, <1>7, <1>8, <1>9 DEF CutCommit
<1>20. CASE CalendarLoad
  BY <1>20, <1>6, <1>7, <1>9 DEF CalendarLoad
<1>21. CASE CalendarApply
  <2>1. PICK date \in {now, now + 1} :
          Sets("calendar", [session["calendar"].old EXCEPT
                      !.expire = date,
                      !.status = IF date > now THEN "ACTIVE" ELSE "EXPIRED",
                      !.grace = IF date > now THEN 0 ELSE @], "commit")
    BY <1>21 DEF CalendarApply
  <2>2. Kept("calendar")
    <3> DEFINE st == IF date > now THEN "ACTIVE" ELSE "EXPIRED"
               g == IF date > now THEN 0 ELSE session["calendar"].old.grace
    <3>1. Sets("calendar", [session["calendar"].old EXCEPT
                               !.expire = date, !.status = st, !.grace = g], "commit")
      BY <2>1
    <3>2. session["calendar"].at # "idle"
      BY <1>21 DEF CalendarApply, At
    <3> HIDE DEF st, g
    <3>3. [session["calendar"].old EXCEPT !.expire = date, !.status = st, !.grace = g].graced
            = session["calendar"].old.graced
      BY <1>4, <1>9
    <3>4. QED BY <3>1, <3>2, <3>3, <1>6, <1>9
  <2>3. QED BY <1>21, <2>2, <1>7, <1>9 DEF CalendarApply
<1>22. CASE CalendarCommit
  BY <1>22, <1>6, <1>7, <1>8, <1>9 DEF CalendarCommit
<1>23. CASE PushLoad \/ PushApply
  BY <1>23, <1>6, <1>7, <1>9 DEF PushLoad, PushApply
<1>24. CASE RetryLoad \/ RetryWrite
  <2>1. Kept("retry") /\ UNCHANGED <<now, sub>>
    BY <1>24, <1>6, <1>9 DEF RetryLoad, RetryWrite, Load
  <2>2. QED BY <2>1, <1>7, <1>9
<1>25. CASE RetryFails
  <2>1. Kept("retry") /\ UNCHANGED <<now, sub>>
    BY <1>25, <1>6, <1>9 DEF RetryFails
  <2>2. QED BY <2>1, <1>7, <1>9
<1>26. CASE BackstopLoad \/ BackstopDisable
  BY <1>26, <1>6, <1>7, <1>9 DEF BackstopLoad, BackstopDisable
<1>27. CASE BackstopFetch
  <2>1. Kept("backstop")
    BY <1>27, <1>1, <1>5, <1>9 DEF BackstopFetch, Kept, Touched, SessionsUpTo, Shaped, At
  <2>2. QED BY <1>27, <2>1, <1>7, <1>9 DEF BackstopFetch
<1>28. CASE ResyncLoad
  BY <1>28, <1>6, <1>7, <1>9 DEF ResyncLoad
<1>29. CASE ResyncFetch
  <2>1. Kept("resync")
    BY <1>29, <1>1, <1>5, <1>6, <1>9 DEF ResyncFetch, Kept, Touched, SessionsUpTo, Shaped, At
  <2>2. QED BY <1>29, <2>1, <1>7, <1>9 DEF ResyncFetch
<1>30. CASE ResyncPush
  <2>1. Kept("resync") /\ UNCHANGED <<now, sub>>
    BY <1>30, <1>6, <1>9 DEF ResyncPush, At
  <2>2. QED BY <2>1, <1>7, <1>9
<1>31. CASE ResyncEnable
  BY <1>31, <1>6, <1>7, <1>9 DEF ResyncEnable
<1>32. CASE ResyncUnanswered
  <2>1. Kept("resync")
    BY <1>32, <1>4, <1>6, <1>9 DEF ResyncUnanswered, At
  <2>2. QED BY <1>32, <2>1, <1>7, <1>9 DEF ResyncUnanswered
<1>33. CASE ResyncCommit
  BY <1>33, <1>6, <1>7, <1>8, <1>9 DEF ResyncCommit
<1>34. ASSUME NEW j \in AllJobs \ {"grace"}, JobFails(j) PROVE Goal
  BY <1>34, <1>6, <1>7 DEF JobFails, RollsBack
(* The sweep itself. *)
<1>35. /\ Touched("grace") => \A j \in AllJobs \ {"grace"} : session'[j] = session[j]
       /\ Load("grace") => Touched("grace")
       /\ Ends("grace") => Touched("grace")
       /\ \A s : session["grace"].at # "idle" /\ Goes("grace", s) => Touched("grace")
       /\ \A r, s : session["grace"].at # "idle" /\ Sets("grace", r, s) => Touched("grace")
  <2>1. Touched("grace") => \A j \in AllJobs \ {"grace"} : session'[j] = session[j]
    BY DEF Touched
  <2>2. QED BY <1>1, <1>9, <2>1, SessionTouched
<1>36. /\ Load("grace") => session'["grace"].at = "loaded" /\ session'["grace"].old = sub
                           /\ session'["grace"].new = sub
       /\ Ends("grace") => session'["grace"] = Idle
       /\ \A s : Goes("grace", s) => /\ session'["grace"].at = s
                                     /\ session'["grace"].old = session["grace"].old
                                     /\ session'["grace"].new = session["grace"].new
       /\ \A r, s : Sets("grace", r, s) => /\ session'["grace"].at = s
                                           /\ session'["grace"].old = session["grace"].old
                                           /\ session'["grace"].new = r
  BY <1>1, <1>9, SessionAfter
<1>37. CASE GraceLoad
  <2>1. /\ Load("grace") /\ (GraceEntry(sub) \/ GraceOver(sub)) /\ UNCHANGED <<now, sub>>
    BY <1>37 DEF GraceLoad
  <2>2. QED BY <1>5, <1>35, <1>36, <2>1 DEF GraceKept, Sweep, GraceEntry, GraceOver, Goal
<1>38. CASE GraceApply
  <2>1. /\ Sweep.at = "loaded" /\ Sweep.old.grace = 0 /\ UNCHANGED <<now, sub>>
        /\ Sets("grace", [Sweep.old EXCEPT !.status = "LIMITED", !.grace = now + Grace, !.graced = now],
                "pushed")
    BY <1>38 DEF GraceApply, At, Sweep
  <2>2. Sweep.old.graced = 0 \/ Sweep.old.graced <= now - Cooldown
    BY <2>1 DEF GraceKept, GraceEntry, GraceOver
  <2>3. [Sweep.old EXCEPT !.status = "LIMITED", !.grace = now + Grace, !.graced = now].graced = now
    BY <1>2, <1>9 DEF RowsUpTo, Sweep
  <2>4. /\ Sweep'.at = "pushed" /\ Sweep'.old = Sweep.old
        /\ Sweep'.new.graced = now /\ Sweep.at # "idle" /\ Touched("grace")
    BY <1>35, <1>36, <2>1, <2>3 DEF Sweep
  <2>5. \A j \in AllJobs \ {"grace"} : session'[j].new.graced = session'[j].old.graced
    BY <1>5, <1>35, <2>4
  <2>6. Sweep.old.graced = sub.graced
    BY <2>1 DEF GraceKept
  <2>7. GraceKept'
    BY <2>1, <2>2, <2>4, <2>5, <2>6 DEF GraceKept
  <2>8. QED BY <2>1, <2>7 DEF Goal
<1>39. CASE GraceEnable
  <2>1. Sweep.at = "pushed" /\ Goes("grace", "commit") /\ UNCHANGED <<now, sub>>
    BY <1>39 DEF GraceEnable, At, Sweep
  <2>2. /\ Sweep'.at = "commit" /\ Sweep'.old = Sweep.old /\ Sweep'.new = Sweep.new
        /\ Sweep.at # "idle" /\ Touched("grace")
    BY <1>35, <1>36, <2>1 DEF Sweep
  <2>3. \A j \in AllJobs \ {"grace"} : session'[j].new.graced = session'[j].old.graced
    BY <1>5, <1>35, <2>2
  <2>4. QED BY <2>1, <2>2, <2>3 DEF GraceKept, Goal
<1>40. CASE GraceEnd \/ GraceEndUnanswered
  <2>1. /\ Sweep.at = "loaded" /\ UNCHANGED <<now, sub>>
        /\ Sets("grace", [Sweep.old EXCEPT !.status = "EXPIRED", !.grace = 0], "commit")
    BY <1>40 DEF GraceEnd, GraceEndUnanswered, At, Sweep
  <2>2. [Sweep.old EXCEPT !.status = "EXPIRED", !.grace = 0].graced = Sweep.old.graced
    BY <1>4, <1>9 DEF Sweep
  <2>3. /\ Sweep'.at = "commit" /\ Sweep'.old = Sweep.old
        /\ Sweep'.new.graced = Sweep.old.graced /\ Sweep.at # "idle" /\ Touched("grace")
    BY <1>35, <1>36, <2>1, <2>2 DEF Sweep
  <2>4. \A j \in AllJobs \ {"grace"} : session'[j].new.graced = session'[j].old.graced
    BY <1>5, <1>35, <2>3
  <2>5. QED BY <2>1, <2>3, <2>4 DEF GraceKept, Goal
<1>41. Idle.at = "idle" /\ Idle.new.graced = Idle.old.graced
  BY DEF Idle
<1>42. CASE GraceCommit
  <2>1. Ends("grace") /\ sub' = Flushed("grace") /\ now' = now
    BY <1>42 DEF GraceCommit
  <2>2. sub'.graced = IF Sweep.new.graced # Sweep.old.graced THEN Sweep.new.graced ELSE sub.graced
    BY <1>3, <1>9, <2>1 DEF Sweep
  <2> HIDE DEF Idle
  <2>3. QED BY <1>5, <1>35, <1>36, <1>41, <2>1, <2>2 DEF GraceKept, Sweep, Goal
<1>43. CASE JobFails("grace")
  <2>1. Ends("grace") /\ UNCHANGED <<now, sub>>
    BY <1>43 DEF JobFails, RollsBack
  <2> HIDE DEF Idle
  <2>2. QED BY <1>5, <1>35, <1>36, <1>41, <2>1 DEF GraceKept, Sweep, Goal
<1>44. QED
  BY <1>10, <1>11, <1>12, <1>13, <1>14, <1>15, <1>16, <1>17, <1>18, <1>19, <1>20, <1>21, <1>22,
     <1>23, <1>24, <1>25, <1>26, <1>27, <1>28, <1>29, <1>30, <1>31, <1>32, <1>33, <1>34, <1>37,
     <1>38, <1>39, <1>40, <1>42, <1>43
     DEF LifecycleNext, RenewStep, CutStep
-----------------------------------------------------------------------------
(* The invariant, step by step. *)

LEMMA HandDated ==
  ASSUME NEW d \in Nat, user \in UsersUpTo(d), CalendarApply
  PROVE  \E date \in {now, now + 1} : user'.expire = date /\ entitled' = Later(entitled, date)
  BY DEF CalendarApply, Becomes, Patched, UsersUpTo

LEMMA LifecycleStep ==
  ASSUME LifecycleInv, LifecycleNext PROVE LifecycleInv'
<1>1. Shaped /\ Counted /\ GraceKept
  BY DEF LifecycleInv
<1>2. /\ Shaped'
      /\ session'["pay"].at # "idle" => due' > 0
      /\ Committed' \in Nat /\ entitled' <= Reach(Committed')
      /\ Spent' \in Nat /\ Spent' >= Spent
      /\ \A j \in {"pay", "extend"} : RenewApply(j) => Spent' >= Spent + 1
  BY <1>1, CountsStep
<1>3. Spent \in Nat
  BY <1>1 DEF Shaped, Counted, Committed, Spent
<1>4. PICK d \in Nat : d = Reach(Spent)
  BY <1>3, ReachStart
<1>5. PICK e \in Nat : e = Reach(Spent')
  BY <1>2, ReachStart
<1>6. DatesUpTo(d)
  BY <1>1, <1>4 DEF Counted
<1>7. GraceKept'
  BY <1>1, <1>6, GraceStep
<1>8. /\ now \in 1..MaxTime /\ MaxTime + Grace + Period <= d
      /\ MaxTime \in Nat \ {0} /\ Grace \in Nat \ {0} /\ Period \in Nat \ {0}
  BY <1>1, <1>3, <1>4, ReachStart, LifecycleAssumption DEF Shaped
<1>9. d <= e
  <2> HIDE DEF Spent
  <2>1. QED BY <1>2, <1>3, <1>4, <1>5, ReachGrows
<1>10. ASSUME NEW j \in {"pay", "extend"}, RenewApply(j) PROVE d + Period <= e /\ now + Period <= e
  <2> HIDE DEF Spent
  <2>1. Spent + 1 <= Spent' /\ Spent + 1 \in Int /\ Spent' \in Int
    BY <1>2, <1>3, <1>10
  <2>2. Reach(Spent + 1) = d + Period /\ Reach(Spent + 1) <= Reach(Spent')
    BY <1>3, <1>4, <2>1, ReachGrows
  <2>3. QED BY <1>5, <1>8, <2>2
<1>11. GraceApply => now + Grace <= e
  BY <1>8, <1>9
<1>12. CalendarApply => user'.expire <= e
  <2>1. user \in UsersUpTo(d)
    BY <1>6 DEF DatesUpTo
  <2>2. QED BY <1>8, <1>9, <2>1, HandDated
<1>13. DatesUpTo(e)'
  <2>1. 1 + Period <= d
    BY <1>8
  <2>2. QED BY <1>1, <1>6, <1>9, <1>10, <1>11, <1>12, <2>1, DatesStep
<1>14. DatesUpTo(Reach(Spent))'
  BY <1>5, <1>13 DEF DatesUpTo
<1>15. Counted'
  BY <1>2, <1>14 DEF Counted
<1>16. QED BY <1>2, <1>7, <1>15 DEF LifecycleInv

LEMMA LifecycleRests ==
  ASSUME LifecycleInv, UNCHANGED lifecycleVars PROVE LifecycleInv'
<1>1. UNCHANGED <<shop, now, sub, user, events, session, due, retry,
                  ordered, cuts, faults, entitled, graces, cut>>
  BY DEF lifecycleVars
<1>2. Shaped'
  BY <1>1 DEF LifecycleInv, Shaped
<1>3. Committed' = Committed /\ Spent' = Spent
  BY <1>1 DEF Committed, Spent
<1>4. DatesUpTo(Reach(Spent))'
  BY <1>1, <1>3 DEF LifecycleInv, Counted, DatesUpTo
<1>5. Counted'
  BY <1>1, <1>3, <1>4 DEF LifecycleInv, Counted
<1>6. GraceKept'
  BY <1>1 DEF LifecycleInv, GraceKept, Sweep, GraceEntry, GraceOver
<1>7. QED BY <1>2, <1>5, <1>6 DEF LifecycleInv

(* In every reachable state the sessions, the row, the panel user and the  *)
(* webhooks in flight are well formed, all their dates are within the      *)
(* renewals that were told the panel, and the sweep's view of when grace   *)
(* began is the row's.                                                     *)
THEOREM LifecycleHolds == LifecycleSpec => []LifecycleInv
<1>1. LifecycleInv /\ [LifecycleNext]_lifecycleVars => LifecycleInv'
  BY LifecycleStep, LifecycleRests
<1>2. QED BY <1>1, InitLifecycle, PTL DEF LifecycleSpec

LEMMA LifecycleTypes == LifecycleInv => LifecycleTypeOK
<1> SUFFICES ASSUME LifecycleInv PROVE LifecycleTypeOK
  OBVIOUS
<1>1. /\ Shaped /\ Counted
      /\ Committed \in Nat /\ Committed <= MaxOrders
      /\ Spent \in Nat /\ Spent <= MaxOrders + MaxFaults
      /\ MaxOrders \in Nat /\ MaxFaults \in Nat /\ MaxTime \in Nat /\ Grace \in Nat /\ Period \in Nat
  <2>1. MaxOrders \in Nat /\ MaxFaults \in Nat /\ MaxTime \in Nat /\ Grace \in Nat /\ Period \in Nat
    BY LifecycleAssumption
  <2>2. Shaped /\ Counted
    BY DEF LifecycleInv
  <2>3. Committed \in Nat /\ Committed <= MaxOrders
    BY <2>1, <2>2 DEF Shaped, Counted, Committed
  <2>4. Spent \in Nat /\ Spent <= MaxOrders + MaxFaults
    BY <2>1, <2>2 DEF Shaped, Counted, Committed, Spent
  <2>5. QED BY <2>1, <2>2, <2>3, <2>4
<1>2. PICK n \in Nat : n = MaxOrders + MaxFaults
  BY <1>1
<1>3. Reach(Committed) <= Reach(n) /\ Reach(Spent) <= Reach(n) /\ Reach(n) \in Nat
  <2> HIDE DEF Committed, Spent
  <2>1. Committed <= n /\ Spent <= n
    BY <1>1, <1>2
  <2>2. QED BY <1>1, <2>1, ReachGrows, ReachStart
<1>4. Reach(n) = MaxTime + (n + 1) * Period + Grace
  BY <1>1 DEF Reach
<1>5. Days = 0..Reach(n)
  BY <1>2, <1>4 DEF Days
<1>6. DatesUpTo(Reach(n))
  BY <1>1, <1>3, UpToGrows, ReachStart DEF Counted
<1>7. RowsUpTo(Reach(n)) \subseteq Rows
  <2>1. MaxTime + Grace <= Reach(n) /\ MaxTime <= Reach(n)
    BY <1>1, ReachStart
  <2>2. 0..(MaxTime + Grace) \subseteq Days /\ 0..MaxTime \subseteq Days
    BY <1>1, <1>3, <1>5, <2>1
  <2>3. QED BY <1>5, <2>2 DEF RowsUpTo, Rows
<1>8. UsersUpTo(Reach(n)) = [status: {"active", "disabled", "expired"}, expire: Days, small: BOOLEAN]
  BY <1>5 DEF UsersUpTo
<1>9. session \in [AllJobs -> [at: Steps, old: Rows, new: Rows, on: BOOLEAN]]
  <2>1. session \in SessionsUpTo(Reach(n))
    BY <1>6 DEF DatesUpTo
  <2>2. QED BY <1>7, <2>1 DEF SessionsUpTo
<1>10. sub \in Rows /\ user \in [status: {"active", "disabled", "expired"}, expire: Days, small: BOOLEAN]
  BY <1>6, <1>7, <1>8 DEF DatesUpTo
<1>11. entitled \in Days
  <2>1. entitled \in Nat /\ entitled <= Reach(Committed)
    BY <1>1 DEF Counted, Shaped
  <2>2. Reach(Committed) \in Nat
    BY <1>1, ReachStart
  <2>3. QED BY <1>3, <1>5, <2>1, <2>2
<1>12. QED BY <1>1, <1>9, <1>10, <1>11 DEF LifecycleTypeOK, Shaped

(* The types of the row, the panel user, the sessions and the counters.    *)
THEOREM LifecycleTyped == LifecycleSpec => []LifecycleTypeOK
  BY LifecycleHolds, LifecycleTypes, PTL

(* Grace is opened once per cooldown: whatever renewals, webhooks and      *)
(* failed panel calls come between the sweep's read and its commit, the    *)
(* row's start of grace only moves by a cooldown or more.                  *)
THEOREM GraceCooled == LifecycleSpec => GraceOncePerCooldown
<1>1. ASSUME LifecycleInv, LifecycleNext, sub'.graced # sub.graced
      PROVE  sub.graced = 0 \/ sub'.graced - sub.graced >= Cooldown
  <2>1. Shaped /\ Counted /\ GraceKept
    BY <1>1 DEF LifecycleInv
  <2>2. PICK d \in Nat : DatesUpTo(d)
    <3>1. Spent \in Nat
      BY <2>1 DEF Shaped, Counted, Committed, Spent
    <3>2. QED BY <2>1, <3>1, ReachStart DEF Counted
  <2>3. sub'.graced = Sweep.new.graced /\ Sweep.new.graced # Sweep.old.graced
    BY <1>1, <2>1, <2>2, GraceStep
  <2>4. /\ Sweep.at # "idle" /\ Sweep.new.graced = now /\ Sweep.old.graced = sub.graced
        /\ Sweep.old.graced = 0 \/ Sweep.old.graced <= now - Cooldown
    BY <2>1, <2>3 DEF GraceKept
  <2>5. now \in Nat /\ sub.graced \in Nat /\ Cooldown \in Nat
    BY <2>1, <2>2, LifecycleAssumption DEF Shaped, DatesUpTo, RowsUpTo
  <2>6. QED BY <2>3, <2>4, <2>5
<1>2. LifecycleInv /\ [LifecycleNext]_lifecycleVars =>
        [sub'.graced # sub.graced =>
           sub.graced = 0 \/ sub'.graced - sub.graced >= Cooldown]_lifecycleVars
  BY <1>1
<1>3. QED BY <1>2, LifecycleHolds, PTL DEF LifecycleSpec, GraceOncePerCooldown
-----------------------------------------------------------------------------
(* What is allowed only grows, and by as much as a step may add.           *)

Window == Lookback - 1 + Grace
GraceDays == Window * graces

LEMMA GraceDaysStep ==
  ASSUME graces \in Nat
  PROVE  /\ Window \in Nat /\ GraceDays \in Nat
         /\ graces' = graces => GraceDays' = GraceDays
         /\ graces' = graces + 1 => GraceDays' = GraceDays + Window
<1>1. Window \in Nat
  BY LifecycleAssumption DEF Window
<1> HIDE DEF Window
<1>2. \A n \in Nat : Window * n \in Nat /\ Window * (n + 1) = Window * n + Window
  BY <1>1
<1>3. QED BY <1>1, <1>2 DEF GraceDays

AllowedBounds ==
    /\ Ahead \in Nat /\ Promised \in Nat /\ GraceDays \in Nat
    /\ entitled <= Promised /\ Promised <= Later(entitled, now) + Ahead
    /\ Allowed = Promised + GraceDays

LEMMA AllowedNow == Shaped => AllowedBounds
<1> SUFFICES ASSUME Shaped PROVE AllowedBounds
  OBVIOUS
<1>1. entitled \in Nat /\ now \in Nat /\ Period \in Nat /\ graces \in Nat
  BY LifecycleAssumption DEF Shaped
<1>2. Ahead \in Nat
  BY <1>1 DEF Ahead
<1>3. Promised \in Nat /\ entitled <= Promised /\ Promised <= Later(entitled, now) + Ahead
  BY <1>1, <1>2 DEF Promised, Later
<1>4. GraceDays \in Nat
  BY <1>1, GraceDaysStep
<1>5. Allowed = Promised + GraceDays
  BY DEF Allowed, GraceDays, Window
<1>6. QED BY <1>2, <1>3, <1>4, <1>5 DEF AllowedBounds

(* A renewal promises its period when the panel is told; the commit only   *)
(* moves it into what is owed.  A failed commit would break the promise,   *)
(* which is why CommitFails is excluded.                                   *)
LEMMA AllowedStep ==
  ASSUME CommitFails = FALSE, NEW d \in Nat, DatesUpTo(d), Shaped, Shaped', LifecycleNext
  PROVE  /\ Promised <= Promised' /\ graces' \in {graces, graces + 1}
         /\ \A j \in {"pay", "extend"} :
               RenewApply(j) => Promised + Period <= Promised' /\ now + Period <= Promised'
         /\ GraceApply => graces' = graces + 1
<1> DEFINE Goal == /\ Promised <= Promised' /\ graces' \in {graces, graces + 1}
                   /\ \A j \in {"pay", "extend"} :
                         RenewApply(j) => Promised + Period <= Promised' /\ now + Period <= Promised'
<1>1. session \in SessionsUpTo(d)
  BY DEF DatesUpTo
<1>2. /\ now \in Nat /\ entitled \in Nat /\ Period \in Nat \ {0} /\ graces \in Nat
      /\ Ahead \in Nat /\ Promised \in Nat /\ Promised <= Later(entitled, now) + Ahead
  BY AllowedNow, LifecycleAssumption DEF Shaped, AllowedBounds
<1>3. /\ {"pay", "extend"} \subseteq AllJobs /\ "calendar" \in AllJobs
  BY DEF AllJobs
<1>4. \A j \in AllJobs :
         /\ Load(j) => Touched(j) /\ session'[j].at = "loaded" /\ session[j].at = "idle"
         /\ Ends(j) => Touched(j) /\ session'[j].at = "idle"
         /\ \A r, s : session[j].at # "idle" /\ Sets(j, r, s) => Touched(j) /\ session'[j].at = s
  <2>1. Idle.at = "idle"
    BY DEF Idle
  <2> HIDE DEF Idle
  <2>2. QED BY <1>1, <2>1, SessionTouched, SessionAfter
<1>5. \A j \in AllJobs : \A k \in AllJobs \ {j} : Touched(j) => session'[k] = session[k]
  BY DEF Touched
<1>6. GraceApply => graces' = graces + 1
  BY DEF GraceApply
<1> HIDE DEF Goal
<1>7. SUFFICES Goal
  BY <1>6 DEF Goal
<1>8. \A j \in {"pay", "extend"} :
          RenewApply(j) => session[j].at = "loaded" /\ session'[j].at = "commit"
  BY <1>3, <1>4 DEF RenewApply, At
<1>9. ASSUME /\ \A j \in {"pay", "extend"} :
                   (session'[j].at = "commit") = (session[j].at = "commit")
             /\ \/ now' = now /\ entitled' >= entitled
                \/ Ahead = 0 /\ entitled' = entitled
             /\ graces' \in {graces, graces + 1}
      PROVE  Goal
  <2>1. Ahead' = Ahead
    BY <1>9 DEF Ahead
  <2>2. entitled' \in Nat
    BY DEF Shaped
  <2>3. Promised <= Promised'
    BY <1>2, <1>9, <2>1, <2>2 DEF Promised, Later
  <2>4. \A j \in {"pay", "extend"} : ~RenewApply(j)
    BY <1>8, <1>9
  <2>5. QED BY <1>9, <2>3, <2>4 DEF Goal
<1>10. CASE Calm
  <2>1. /\ now' = now /\ entitled' = entitled /\ graces' \in {graces, graces + 1}
        /\ session'["pay"] = session["pay"] /\ session'["extend"] = session["extend"]
    BY <1>10 DEF Calm
  <2>2. QED BY <1>2, <1>9, <2>1
<1>11. CASE Tick
  <2>1. /\ Open = {} /\ UNCHANGED <<session, entitled, graces>>
    BY <1>11 DEF Tick
  <2>2. session["pay"].at = "idle" /\ session["extend"].at = "idle"
    BY <1>3, <2>1 DEF Open, Shaped
  <2>3. Ahead = 0
    BY <2>2 DEF Ahead
  <2>4. QED BY <1>9, <2>1, <2>3
<1>12. CASE Order
  <2>1. UNCHANGED <<session, now, entitled, graces>>
    BY <1>12 DEF Order
  <2>2. QED BY <1>2, <1>9, <2>1
<1>13. ASSUME NEW j \in {"pay", "extend"}, RenewLoad(j) PROVE Goal
  <2>1. Load(j) /\ UNCHANGED <<now, entitled, graces>>
    BY <1>13 DEF RenewLoad
  <2>2. \A k \in {"pay", "extend"} : (session'[k].at = "commit") = (session[k].at = "commit")
    BY <1>3, <1>4, <1>5, <2>1
  <2>3. QED BY <1>2, <1>9, <2>1, <2>2
<1>14. ASSUME NEW j \in {"pay", "extend"}, NEW k \in {"pay", "extend"} \ {j}, RenewApply(j) PROVE Goal
  <2>1. /\ session[j].at = "loaded" /\ session'[j].at = "commit" /\ Touched(j)
        /\ UNCHANGED <<now, entitled, graces>>
    BY <1>3, <1>4, <1>8, <1>14 DEF RenewApply
  <2>2. session'[k].at = session[k].at
    BY <1>3, <1>5, <2>1
  <2>3. Ahead' = Ahead + Period
    <3>1. CASE j = "pay" /\ k = "extend"
      <4>1. /\ session["pay"].at = "loaded" /\ session'["pay"].at = "commit"
            /\ session'["extend"].at = session["extend"].at
        BY <2>1, <2>2, <3>1
      <4>2. QED BY <1>2, <4>1 DEF Ahead
    <3>2. CASE j = "extend" /\ k = "pay"
      <4>1. /\ session["extend"].at = "loaded" /\ session'["extend"].at = "commit"
            /\ session'["pay"].at = session["pay"].at
        BY <2>1, <2>2, <3>2
      <4>2. QED BY <1>2, <4>1 DEF Ahead
    <3>3. QED BY <3>1, <3>2
  <2>4. Promised' = Later(entitled, now) + Ahead + Period
    BY <1>2, <2>1, <2>3 DEF Promised, Later
  <2>5. Promised + Period <= Promised' /\ now + Period <= Promised'
    BY <1>2, <2>4 DEF Later
  <2>6. graces' \in {graces, graces + 1}
    BY <2>1
  <2>7. ~RenewApply(k)
    BY <1>8, <2>2
  <2>8. Promised <= Promised'
    <3>1. PICK p \in Nat, q \in Nat : p = Promised /\ q = Promised'
      BY <1>2, <2>3, <2>4 DEF Later
    <3>2. p + Period <= q
      BY <2>5, <3>1
    <3>3. p <= q
      BY <1>2, <3>2
    <3>4. QED BY <3>1, <3>3
  <2>9. QED BY <2>5, <2>6, <2>8 DEF Goal
<1>15. ASSUME NEW j \in {"pay", "extend"}, NEW k \in {"pay", "extend"} \ {j}, RenewCommit(j) PROVE Goal
  <2>1. /\ session[j].at = "commit" /\ session'[j].at = "idle" /\ Touched(j)
        /\ entitled' = Later(entitled, now) + Period
        /\ UNCHANGED <<now, graces>>
    BY <1>3, <1>4, <1>15 DEF RenewCommit, At
  <2>2. session'[k].at = session[k].at
    BY <1>3, <1>5, <2>1
  <2>3. Ahead = Ahead' + Period /\ Ahead' \in Nat
    <3>1. CASE j = "pay" /\ k = "extend"
      <4>1. /\ session["pay"].at = "commit" /\ session'["pay"].at = "idle"
            /\ session'["extend"].at = session["extend"].at
        BY <2>1, <2>2, <3>1
      <4>2. QED BY <1>2, <4>1 DEF Ahead
    <3>2. CASE j = "extend" /\ k = "pay"
      <4>1. /\ session["extend"].at = "commit" /\ session'["extend"].at = "idle"
            /\ session'["pay"].at = session["pay"].at
        BY <2>1, <2>2, <3>2
      <4>2. QED BY <1>2, <4>1 DEF Ahead
    <3>3. QED BY <3>1, <3>2
  <2>4. Promised <= Promised'
    <3>1. PICK p \in Nat, a \in Nat, l \in Nat :
             p = Promised /\ a = Ahead' /\ l = Later(entitled, now)
      BY <1>2, <2>3 DEF Later
    <3>2. p <= l + (a + Period)
      BY <1>2, <2>3, <3>1
    <3>3. entitled' = l + Period /\ Later(entitled', now) = l + Period
      BY <1>2, <2>1, <3>1 DEF Later
    <3>4. Promised' = l + Period + a
      BY <1>2, <2>1, <3>1, <3>3 DEF Promised
    <3>5. QED BY <1>2, <3>1, <3>2, <3>4
  <2>5. \A i \in {"pay", "extend"} : ~RenewApply(i)
    BY <1>8, <2>1, <2>2
  <2>6. QED BY <1>2, <2>1, <2>4, <2>5 DEF Goal
<1>16. CASE CalendarLoad \/ CalendarApply
  <2>1. Touched("calendar")
    BY <1>16, <1>3, <1>4 DEF CalendarLoad, CalendarApply, At
  <2>2. session'["pay"] = session["pay"] /\ session'["extend"] = session["extend"]
    BY <1>3, <1>5, <2>1
  <2>3. /\ now' = now /\ graces' = graces
        /\ entitled' = entitled \/ \E date \in {now, now + 1} : entitled' = Later(entitled, date)
    BY <1>16 DEF CalendarLoad, CalendarApply
  <2>4. entitled' >= entitled
    BY <1>2, <2>3 DEF Later
  <2>5. QED BY <1>2, <1>9, <2>2, <2>3, <2>4
<1>17. ASSUME NEW j \in {"pay", "extend"}, JobFails(j) PROVE Goal
  <2>1. /\ session[j].at # "commit" /\ Ends(j) /\ UNCHANGED <<now, entitled, graces>>
    BY <1>17 DEF JobFails, RollsBack
  <2>2. \A k \in {"pay", "extend"} : (session'[k].at = "commit") = (session[k].at = "commit")
    BY <1>3, <1>4, <1>5, <2>1
  <2>3. QED BY <1>2, <1>9, <2>1, <2>2
<1>18. QED
  <2>1. Calm \/ Loud
    BY CalmSteps
  <2>2. "pay" \in {"pay", "extend"} \ {"extend"} /\ "extend" \in {"pay", "extend"} \ {"pay"}
    OBVIOUS
  <2>3. QED
    BY <1>10, <1>11, <1>12, <1>13, <1>14, <1>15, <1>16, <1>17, <2>1, <2>2 DEF Loud, RenewStep

LEMMA FreeStep ==
  ASSUME CommitFails = FALSE, LifecycleInv, NothingFree, LifecycleNext PROVE NothingFree'
<1>1. Shaped /\ Counted /\ GraceKept /\ Shaped'
  BY LifecycleStep DEF LifecycleInv
<1>2. AllowedBounds /\ AllowedBounds'
  <2>1. (Shaped => AllowedBounds)'
    BY AllowedNow, PTL
  <2>2. QED BY <1>1, <2>1, AllowedNow
<1>3. PICK p \in Nat, g \in Nat : p = Promised /\ g = GraceDays
  BY <1>2 DEF AllowedBounds
<1>4. PICK q \in Nat, h \in Nat : q = Promised' /\ h = GraceDays'
  BY <1>2 DEF AllowedBounds
<1> DEFINE d == p + g
           e == q + h
<1>5. d \in Nat /\ d = Allowed /\ e \in Nat /\ e = Allowed'
  <2>1. Allowed = Promised + GraceDays /\ Allowed' = Promised' + GraceDays'
    BY <1>2 DEF AllowedBounds
  <2>2. p + g = Allowed
    BY <1>3, <2>1
  <2>3. q + h = Allowed'
    BY <1>4, <2>1
  <2>4. QED BY <2>2, <2>3
<1>6. DatesUpTo(d)
  BY <1>5 DEF NothingFree
<1>7. /\ graces \in Nat /\ now \in Nat /\ entitled \in Nat /\ entitled' \in Nat
      /\ 1 + Period <= entitled /\ entitled <= p /\ entitled' <= q
      /\ Period \in Nat /\ Grace \in Nat /\ Lookback \in Nat
  <2>1. /\ graces \in Nat /\ now \in Nat /\ entitled \in Nat /\ entitled' \in Nat
        /\ 1 + Period <= entitled
    BY <1>1 DEF Shaped
  <2>2. entitled <= p /\ entitled' <= q
    BY <1>2, <1>3, <1>4 DEF AllowedBounds
  <2>3. Period \in Nat /\ Grace \in Nat /\ Lookback \in Nat
    BY LifecycleAssumption
  <2>4. QED BY <2>1, <2>2, <2>3
<1>8. /\ p <= q
      /\ \A j \in {"pay", "extend"} : RenewApply(j) => p + Period <= q /\ now + Period <= q
  BY <1>1, <1>3, <1>4, <1>5, <1>6, AllowedStep
<1>9. /\ Window \in Nat /\ h \in {g, g + Window}
      /\ GraceApply => h = g + Window
  <2>1. /\ graces' \in {graces, graces + 1}
        /\ GraceApply => graces' = graces + 1
    BY <1>1, <1>5, <1>6, AllowedStep
  <2>2. QED BY <1>3, <1>4, <1>7, <2>1, GraceDaysStep
<1>10. d <= e /\ 1 + Period <= d
  <2>1. g <= h
    BY <1>9
  <2>2. QED BY <1>7, <1>8, <2>1
<1>11. ASSUME NEW j \in {"pay", "extend"}, RenewApply(j) PROVE d + Period <= e /\ now + Period <= e
  <2>1. p + Period <= q /\ now + Period <= q
    BY <1>8, <1>11
  <2>2. g <= h
    BY <1>9
  <2>3. QED BY <1>7, <2>1, <2>2
<1>12. ASSUME GraceApply PROVE now + Grace <= e
  <2>1. Sweep.at = "loaded" /\ Sweep.old.grace = 0
    BY <1>12 DEF GraceApply, At, Sweep
  <2>2. now - Lookback < Sweep.old.expire
    BY <1>1, <2>1 DEF GraceKept, GraceEntry, GraceOver
  <2>3. Sweep.old.expire \in 0..d
    BY <1>6 DEF DatesUpTo, SessionsUpTo, RowsUpTo, Sweep, AllJobs
  <2>4. d + Window <= e
    BY <1>8, <1>9, <1>12
  <2>5. QED BY <1>7, <2>2, <2>3, <2>4 DEF Window
<1>13. ASSUME CalendarApply PROVE user'.expire <= e
  <2>1. user \in UsersUpTo(d)
    BY <1>6 DEF DatesUpTo
  <2>2. PICK date \in {now, now + 1} : user'.expire = date /\ entitled' = Later(entitled, date)
    BY <1>13, <2>1, HandDated
  <2>3. date <= entitled'
    BY <1>7, <2>2 DEF Later
  <2>4. date <= q
    BY <1>7, <2>2, <2>3
  <2>5. QED BY <1>7, <2>2, <2>4
<1> HIDE DEF d, e
<1>14. PICK x \in Nat : x = e
  BY <1>5
<1>15. DatesUpTo(x)'
  BY <1>1, <1>5, <1>6, <1>10, <1>11, <1>12, <1>13, <1>14, DatesStep
<1>16. QED BY <1>5, <1>14, <1>15 DEF NothingFree, DatesUpTo

LEMMA InitFree == LifecycleInit => NothingFree
<1> SUFFICES ASSUME LifecycleInit PROVE NothingFree
  OBVIOUS
<1>1. Shaped
  BY InitLifecycle DEF LifecycleInv
<1>2. PICK d \in Nat : d = Allowed
  BY <1>1, AllowedNow DEF AllowedBounds
<1>3. 1 + Period <= d /\ Period \in Nat /\ MaxTime \in Nat /\ Grace \in Nat
  <2>1. Period \in Nat /\ MaxTime \in Nat /\ Grace \in Nat
    BY LifecycleAssumption
  <2>2. 1 + Period <= entitled /\ entitled \in Nat
    BY <1>1 DEF Shaped
  <2>3. AllowedBounds
    BY <1>1, AllowedNow
  <2>4. PICK p \in Nat, g \in Nat : p = Promised /\ g = GraceDays
    BY <2>3 DEF AllowedBounds
  <2>5. d = p + g
    BY <1>2, <2>3, <2>4 DEF AllowedBounds
  <2>6. 1 + Period <= p
    BY <2>1, <2>2, <2>3, <2>4 DEF AllowedBounds
  <2>7. 1 + Period <= d
    BY <2>1, <2>5, <2>6
  <2>8. QED BY <2>1, <2>7
<1>4. FirstRow \in RowsUpTo(d)
  BY <1>3 DEF FirstRow, RowsUpTo, Statuses
<1>5. sub \in RowsUpTo(d) /\ user \in UsersUpTo(d) /\ events \in Seq(EventsUpTo(d))
  BY <1>3, <1>4 DEF LifecycleInit, UsersUpTo
<1>6. session \in SessionsUpTo(d)
  <2> HIDE DEF FirstRow
  <2>1. Idle \in [at: Steps, old: RowsUpTo(d), new: RowsUpTo(d), on: BOOLEAN]
    BY <1>4 DEF Idle, Steps
  <2>2. QED BY <2>1 DEF LifecycleInit, SessionsUpTo
<1>7. QED BY <1>2, <1>5, <1>6 DEF NothingFree, DatesUpTo

(* Where no commit fails after the panel was told, no loop of webhooks,    *)
(* resyncs, grace sweeps and renewals makes a day: neither the row's date  *)
(* nor the panel's is past what was paid, given or dated by hand, but for  *)
(* the grace windows.                                                      *)
THEOREM NoDayForFree ==
  ASSUME CommitFails = FALSE PROVE LifecycleSpec => []NoFreeTime
<1>1. LifecycleInv /\ NothingFree /\ [LifecycleNext]_lifecycleVars => NothingFree'
  <2> SUFFICES ASSUME LifecycleInv, NothingFree, [LifecycleNext]_lifecycleVars PROVE NothingFree'
    OBVIOUS
  <2>1. CASE LifecycleNext
    BY <2>1, FreeStep
  <2>2. CASE UNCHANGED lifecycleVars
    <3>1. UNCHANGED <<sub, user, events, session, now, entitled, graces>>
      BY <2>2 DEF lifecycleVars
    <3>2. Allowed' = Allowed
      BY <3>1 DEF Allowed, Promised, Ahead
    <3>3. QED BY <3>1, <3>2 DEF NothingFree, DatesUpTo
  <2>3. QED BY <2>1, <2>2
<1>2. LifecycleInv /\ NothingFree => NoFreeTime
  <2> SUFFICES ASSUME LifecycleInv, NothingFree, Open = {} PROVE
                 \A date \in {sub.expire, user.expire} :
                    date <= entitled + (Lookback - 1 + Grace) * graces
    BY DEF NoFreeTime
  <2>1. Shaped
    BY DEF LifecycleInv
  <2>2. session["pay"].at = "idle" /\ session["extend"].at = "idle"
    BY <2>1 DEF Open, Shaped, AllJobs
  <2>3. Allowed = entitled + (Lookback - 1 + Grace) * graces
    BY <2>2 DEF Allowed, Promised, Ahead
  <2>4. PICK d \in Nat : d = Allowed
    BY <2>1, AllowedNow DEF AllowedBounds
  <2>5. sub.expire \in 0..d /\ user.expire \in 0..d
    BY <2>4 DEF NothingFree, DatesUpTo, RowsUpTo, UsersUpTo
  <2>6. QED BY <2>3, <2>4, <2>5
<1>3. QED BY <1>1, <1>2, InitFree, LifecycleHolds, PTL DEF LifecycleSpec
=============================================================================
