------------------------------ MODULE Arrivals ------------------------------
(***************************************************************************)
(* One person of Telegram arrives: taps of /start under several links,     *)
(* calls of the mini-app, a promo code, Stars payments.  Each update finds *)
(* or creates the account in a transaction of its own (ContextMiddleware,  *)
(* cabinet_user), passes the gates or is dropped, and is handled in        *)
(* another; updates of one person overlap.                                 *)
(*                                                                         *)
(* Both campaigns and the code lead into one promo group.  The person is   *)
(* no administrator.                                                       *)
(***************************************************************************)
EXTENDS Integers, FiniteSets

CONSTANTS
    Contacts,       \* updates of the person, numbered as they come
    Campaigns,      \* start parameters of campaigns
    NoLink,
    MaxGateFlips,   \* bound: blocking, unblocking, maintenance on and off
    MaxLostUpdates  \* bound: handlers that die

ASSUME ArrivalsAssumption == 
    Contacts \cup {MaxGateFlips, MaxLostUpdates} \subseteq Nat /\ NoLink \notin Contacts

VARIABLES
    contact,        \* each update: [what, link, at, new, member]
    hasRow,         \* whether the users row is committed
    inserter,       \* whose INSERT of it is not
    registered,     \* UserRegistered events
    inviter, campaign, member,  \* referred_by_id, campaign_id, user_promo_groups
    rowHolder,      \* who holds the users row
    barred, repairs,   \* UserStatus.BLOCKED, MAINTENANCE_MODE
    approvals,      \* pre-checkouts approved, for charges yet to come
    flips, lostUpdates

arrivalVars == <<contact, hasRow, inserter, registered, inviter, campaign, member,
                 rowHolder, barred, repairs, approvals, flips, lostUpdates>>
person == <<inviter, campaign, member>>
gates == <<barred, repairs, approvals, flips>>

Invitations == {"ref"}        \* ref_<code>, and partner_<code> alike
NoContact == [what |-> "none", link |-> NoLink, at |-> "idle", new |-> FALSE, member |-> FALSE]

ArrivalsInit ==
    /\ contact = [u \in Contacts |-> NoContact]
    /\ hasRow = FALSE /\ inserter = NoLink /\ registered = 0
    /\ inviter = NoLink /\ campaign = NoLink /\ member = FALSE
    /\ rowHolder = NoLink /\ barred = FALSE /\ repairs = FALSE
    /\ approvals = 0 /\ flips = 0 /\ lostUpdates = 0

Stands(u, place) == contact[u].at = place
Reaches(u, place) == contact' = [contact EXCEPT ![u].at = place]

-----------------------------------------------------------------------------
(* An update comes in; Telegram charges only what was approved. *)

ComesIn(u) ==
    /\ Stands(u, "idle") /\ \A v \in Contacts : v < u => ~Stands(v, "idle")
    /\ \E k \in {"start", "app", "promo", "checkout", "charge"} :
         /\ k = "charge" => approvals > 0
         /\ approvals' = IF k = "charge" THEN approvals - 1 ELSE approvals
         /\ \E l \in IF k = "start" THEN Invitations \cup Campaigns ELSE {NoLink} :
              contact' = [contact EXCEPT ![u] =
                            [NoContact EXCEPT !.what = k, !.link = l, !.at = "reading"]]
    /\ UNCHANGED <<hasRow, inserter, registered, person, rowHolder, barred, repairs,
                   flips, lostUpdates>>

(* UserDAO.get_or_create.                                                  *)
FindAccount(u) ==
    /\ Stands(u, "reading")
    /\ Reaches(u, IF hasRow THEN "known" ELSE "inserting")
    /\ UNCHANGED <<hasRow, inserter, registered, person, rowHolder, gates, lostUpdates>>

(* The INSERT waits for another one of the same telegram_id; the loser's   *)
(* violation stays inside its savepoint, and it reads again.               *)
LoserCrashes == "failed"                                        \* mutant
LoserGoesOn == "known"

InsertAccount(u) ==
    /\ Stands(u, "inserting") /\ inserter = NoLink
    /\ IF hasRow
         THEN Reaches(u, LoserGoesOn) /\ UNCHANGED inserter
         ELSE /\ contact' = [contact EXCEPT ![u].at = "inserted", ![u].new = TRUE]
              /\ inserter' = u
    /\ UNCHANGED <<hasRow, registered, person, rowHolder, gates, lostUpdates>>

(* The commit, with the gates as they were read before it. *)
Enters(u, verdict) ==
    /\ contact[u].at \in {"known", "inserted"} /\ Reaches(u, verdict)
    /\ hasRow' = TRUE
    /\ inserter' = IF inserter = u THEN NoLink ELSE inserter
    /\ UNCHANGED <<registered, person, rowHolder, gates, lostUpdates>>

FromApp(u) ==
    /\ contact[u].what = "app"
    /\ Enters(u, IF barred THEN "turned" ELSE "cleared")

(* A payment that has been charged passes every gate.                      *)
NothingPasses(u) == FALSE                                       \* mutant
AlwaysPasses(u) == contact[u].what = "charge"

FromBot(u) ==
    /\ contact[u].what \notin {"app", "none"}
    /\ \E tooFast \in IF contact[u].what \in {"charge", "checkout"} THEN {FALSE} ELSE BOOLEAN :
         Enters(u, IF (barred \/ repairs \/ tooFast) /\ ~AlwaysPasses(u)
                     THEN "turned" ELSE "cleared")

(* The event of a new account goes out after the commit, and before anyone *)
(* is dropped; a process that dies in between takes it along.              *)
Announces(u) ==
    /\ contact[u].at \in {"cleared", "turned"}
    /\ registered' = IF contact[u].new THEN registered + 1 ELSE registered
    /\ Reaches(u, IF Stands(u, "turned") THEN "dropped"
                  ELSE IF contact[u].what = "app" THEN "handled" ELSE "passed")
    /\ UNCHANGED <<hasRow, inserter, person, rowHolder, gates, lostUpdates>>

-----------------------------------------------------------------------------
(* The handlers. *)

Approve(u) ==
    /\ Stands(u, "passed") /\ contact[u].what = "checkout" /\ Reaches(u, "handled")
    /\ approvals' = approvals + 1
    /\ UNCHANGED <<hasRow, inserter, registered, person, rowHolder, barred, repairs,
                   flips, lostUpdates>>

Settle(u) ==
    /\ Stands(u, "passed") /\ contact[u].what = "charge" /\ Reaches(u, "handled")
    /\ UNCHANGED <<hasRow, inserter, registered, person, rowHolder, gates, lostUpdates>>

(* _attribute: an inviter or a partner binds only the account this very    *)
(* update has created (ReferralService.bind).                              *)
AnyComer(u) == inviter = NoLink                                 \* mutant
Newcomer(u) == inviter = NoLink /\ contact[u].new

BindInviter(u) ==
    /\ Stands(u, "passed") /\ contact[u].link \in Invitations /\ Reaches(u, "handled")
    /\ inviter' = IF Newcomer(u) THEN contact[u].link ELSE inviter
    /\ UNCHANGED <<hasRow, inserter, registered, campaign, member, rowHolder, gates,
                   lostUpdates>>

(* A campaign touches first; what follows is done whichever came before it *)
(* in the meantime.                                                        *)
ReadCampaign(u) ==
    /\ Stands(u, "passed") /\ contact[u].link \in Campaigns
    /\ Reaches(u, IF campaign = NoLink THEN "attributing" ELSE "handled")
    /\ UNCHANGED <<hasRow, inserter, registered, person, rowHolder, gates, lostUpdates>>

ReadCode(u) ==
    /\ Stands(u, "passed") /\ contact[u].what = "promo" /\ Reaches(u, "attributing")
    /\ UNCHANGED <<hasRow, inserter, registered, person, rowHolder, gates, lostUpdates>>

RowIgnored == TRUE                                              \* mutant
RowIsFree == rowHolder = NoLink

LockAccount(u) ==
    /\ Stands(u, "attributing") /\ RowIsFree
    /\ rowHolder' = u /\ Reaches(u, "locked")
    /\ UNCHANGED <<hasRow, inserter, registered, person, gates, lostUpdates>>

LookIntoGroup(u) ==
    /\ Stands(u, "locked")
    /\ contact' = [contact EXCEPT ![u].at = "seen", ![u].member = member]
    /\ UNCHANGED <<hasRow, inserter, registered, person, rowHolder, gates, lostUpdates>>

(* A second row of the same user and group breaks the primary key.         *)
JoinGroup(u) ==
    /\ Stands(u, "seen")
    /\ IF member /\ ~contact[u].member
         THEN Reaches(u, "failed") /\ UNCHANGED person
         ELSE /\ Reaches(u, "handled") /\ member' = TRUE
              /\ campaign' = IF contact[u].what = "start" THEN contact[u].link ELSE campaign
              /\ UNCHANGED inviter
    /\ rowHolder' = IF rowHolder = u THEN NoLink ELSE rowHolder
    /\ UNCHANGED <<hasRow, inserter, registered, gates, lostUpdates>>

-----------------------------------------------------------------------------
(* The handler dies, and its transaction rolls back. *)
UpdateLost(u) ==
    /\ contact[u].at \notin {"idle", "dropped", "handled", "failed", "lost"}
    /\ lostUpdates < MaxLostUpdates /\ lostUpdates' = lostUpdates + 1
    /\ contact' = [contact EXCEPT ![u].at = "lost", ![u].new = @ /\ contact[u].at # "inserted"]
    /\ inserter' = IF inserter = u THEN NoLink ELSE inserter
    /\ rowHolder' = IF rowHolder = u THEN NoLink ELSE rowHolder
    /\ UNCHANGED <<hasRow, registered, person, gates>>

(* An administrator bars the person or lets him in again, or the bot goes  *)
(* into maintenance and back.                                              *)
GatesTurn ==
    /\ flips < MaxGateFlips /\ flips' = flips + 1
    /\ \/ barred' = ~barred /\ hasRow /\ UNCHANGED repairs
       \/ repairs' = ~repairs /\ UNCHANGED barred
    /\ UNCHANGED <<contact, hasRow, inserter, registered, person, rowHolder, approvals,
                   lostUpdates>>

ArrivalsNext ==
    \/ \E u \in Contacts :
         \/ ComesIn(u) \/ FindAccount(u) \/ InsertAccount(u) \/ FromApp(u) \/ FromBot(u)
         \/ Announces(u)
         \/ Approve(u) \/ Settle(u) \/ BindInviter(u)
         \/ ReadCampaign(u) \/ ReadCode(u) \/ LockAccount(u) \/ LookIntoGroup(u) \/ JoinGroup(u)
         \/ UpdateLost(u)
    \/ GatesTurn

-----------------------------------------------------------------------------
(* However many first updates come at once, from the bot and the mini-app, *)
(* there is one registration, missing only while, or because, the update    *)
(* that made the account died between its commit and its event              *)
(* (middlewares.py:117-123); and none of them fails: neither on the row of  *)
(* the other (dao/user.py:25-30) nor on a membership (start.py:266-270).    *)
WelcomedOnce ==
    /\ registered <= 1 /\ (registered = 1 => hasRow)
    /\ hasRow /\ registered = 0 =>
          \E u \in Contacts : contact[u].new /\ contact[u].at \in {"cleared", "turned", "lost"}
    /\ \A u \in Contacts : contact[u].at # "failed"

(* An inviter is whoever's link opened the account, never a later one; who  *)
(* came by a campaign is in its group.                                      *)
FirstTouchCounts ==
    /\ inviter # NoLink => \E u \in Contacts : contact[u].new /\ contact[u].link = inviter
    /\ campaign # NoLink => member

(* "an ignored successful_payment = charged stars with no credit": it       *)
(* passes although the person was barred, or maintenance began, after the   *)
(* pre-checkout (middlewares.py:130-137).                                   *)
ChargesPass == \A u \in Contacts : contact[u].at = "dropped" => contact[u].what # "charge"

(* A newcomer is let in once, counts for who came first, and is heard when *)
(* paying.                                                                 *)
NewcomersHold == WelcomedOnce /\ FirstTouchCounts /\ ChargesPass
=============================================================================
