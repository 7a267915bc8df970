---------------------------- MODULE Broadcasts -----------------------------
(***************************************************************************)
(* Broadcasts: an administrator composes one in the cabinet                *)
(* (admin/broadcasts.py) or in the bot's chat (admin/broadcast.py), a job  *)
(* is queued, and the worker's send_broadcast writes to every chat of the  *)
(* audience, saving its counters now and then.  The queue hands a job over *)
(* once: what the worker was doing when it died is not done again.         *)
(*                                                                         *)
(* Text, media, buttons and templates are left out; a broadcast is its     *)
(* audience.  No code cancels a broadcast.                                 *)
(***************************************************************************)
EXTENDS Naturals, FiniteSets

CONSTANTS
    Chats,            \* users with a Telegram account
    Groups,           \* BroadcastAudience; "all" is everyone who is not banned
    Casts,            \* broadcasts
    SendTaps,         \* taps on the bot's confirm button
    BatchSize,        \* 25
    MaxMoves,         \* changes of audiences, and users who stop or come back
    MaxSendFaults       \* crashes, queue failures, flood waits and lost answers

ASSUME ChatsAssumption == IsFiniteSet(Chats)

VARIABLES
    belongs,          \* the groups each chat is in; none for a banned user
    stopped,          \* chats whose user stopped the bot
    returned,         \* users who have come back to it
    blockedAt,        \* users with bot_blocked_at
    draft,            \* the form in the bot: a group, or "none"
    sendTap,          \* each tap: what it read from the form
    cast,             \* rows of broadcasts
    jobs,             \* the queue
    sender,           \* the worker on each broadcast
    aim, heard,       \* chats it set out to write to, and that got the message
    movesLeft, mishapsLeft

castVars == <<belongs, stopped, returned, blockedAt, draft, sendTap, cast, jobs, sender, aim,
              heard, movesLeft, mishapsLeft>>

In(g) == {u \in Chats : g \in belongs[u]}                       \* audience_stmt
NoRowYet == [status |-> "none", to |-> "none", total |-> 0, sent |-> 0, failed |-> 0]
AtRest == [at |-> "rest", todo |-> {}, sent |-> 0, failed |-> 0, refused |-> {}]
NextCast == CHOOSE b \in Casts : cast[b].status = "none"

BroadcastsInit ==
    /\ belongs = [u \in Chats |-> Groups]
    /\ stopped = {} /\ returned = {} /\ blockedAt = {}
    /\ draft = "none" /\ sendTap = [t \in SendTaps |-> "none"]
    /\ cast = [b \in Casts |-> NoRowYet]
    /\ jobs = {} /\ sender = [b \in Casts |-> AtRest]
    /\ aim = [b \in Casts |-> {}] /\ heard = [b \in Casts |-> {}]
    /\ movesLeft = MaxMoves /\ mishapsLeft = MaxSendFaults

RoomForRow == \E b \in Casts : cast[b].status = "none"
Made(g) == [cast EXCEPT ![NextCast] =
               [NoRowYet EXCEPT !.status = "pending", !.to = g, !.total = Cardinality(In(g))]]

-----------------------------------------------------------------------------
(* create_broadcast in the cabinet. *)
Create(g) ==
    /\ RoomForRow /\ In(g) # {}
    /\ cast' = Made(g)
    /\ UNCHANGED <<belongs, stopped, returned, blockedAt, draft, sendTap, jobs,
                   sender, aim, heard, movesLeft, mishapsLeft>>

(* bc_audience and bc_text, then bc_send: a tap reads the form, and clears *)
(* it; another tap may read it in between. *)
Compose(g) ==
    /\ draft = "none" /\ In(g) # {}
    /\ draft' = g
    /\ UNCHANGED <<belongs, stopped, returned, blockedAt, sendTap, cast, jobs,
                   sender, aim, heard, movesLeft, mishapsLeft>>

TapSend(t) ==
    /\ sendTap[t] = "none" /\ draft # "none"
    /\ sendTap' = [sendTap EXCEPT ![t] = draft]
    /\ UNCHANGED <<belongs, stopped, returned, blockedAt, draft, cast, jobs,
                   sender, aim, heard, movesLeft, mishapsLeft>>

SendFromForm(t) ==
    /\ sendTap[t] \notin {"none", "done"} /\ RoomForRow
    /\ draft' = "none"
    /\ sendTap' = [sendTap EXCEPT ![t] = "done"]
    /\ cast' = IF In(sendTap[t]) = {} THEN cast ELSE Made(sendTap[t])
    /\ UNCHANGED <<belongs, stopped, returned, blockedAt, jobs, sender, aim,
                   heard, movesLeft, mishapsLeft>>

(* send_broadcast.kiq, once the row is there; an error leaves it pending.  *)
Kiq(b) ==
    /\ cast[b].status = "pending" /\ b \notin jobs /\ sender[b].at = "rest"
    /\ \/ jobs' = jobs \cup {b} /\ UNCHANGED <<sender, mishapsLeft>>
       \/ /\ mishapsLeft > 0 /\ mishapsLeft' = mishapsLeft - 1
          /\ sender' = [sender EXCEPT ![b].at = "lost"] /\ UNCHANGED jobs
    /\ UNCHANGED <<belongs, stopped, returned, blockedAt, draft, sendTap, cast,
                   aim, heard, movesLeft>>

-----------------------------------------------------------------------------
(* send_broadcast: the audience is read again, in the transaction that     *)
(* says "running". *)
Sendable(b) == cast[b].status \in {"pending", "running"}

StartSending(b) ==
    /\ b \in jobs /\ jobs' = jobs \ {b}
    /\ Sendable(b)
    /\ LET whom == In(cast[b].to) IN
         /\ cast' = [cast EXCEPT ![b].status = "running"]
         /\ aim' = [aim EXCEPT ![b] = whom]
         /\ sender' = [sender EXCEPT ![b] = [AtRest EXCEPT !.todo = whom,
                           !.at = IF whom = {} THEN "marking" ELSE "sending"]]
    /\ UNCHANGED <<belongs, stopped, returned, blockedAt, draft, sendTap, heard,
                   movesLeft, mishapsLeft>>

(* One chat: it gets the message, or its user has stopped the bot, or      *)
(* there is some other error, be it after Telegram has taken the message.  *)
(* Flood control is waited out and the message tried once more.            *)
Sent(v, u) == [v EXCEPT !.todo = @ \ {u}, !.sent = @ + 1]
Failed(v, u) == [v EXCEPT !.todo = @ \ {u}, !.failed = @ + 1]
Stopped(v, u) == [Failed(v, u) EXCEPT !.refused = @ \cup {u}]
FailedTwice(v, u) == [Failed(v, u) EXCEPT !.failed = @ + 1]      \* mutant
GaveUp(v, u) == Failed(v, u)                     \* the second attempt fails otherwise

Saved(v) == LET done == v.sent + v.failed
            IN  [v EXCEPT !.at = IF done % BatchSize = 0 \/ v.todo = {} THEN "saving" ELSE "sending"]
Went(b, w) == sender' = [sender EXCEPT ![b] = Saved(w)]

SendOne(b) ==
    LET v == sender[b] IN
    /\ v.at = "sending"
    /\ \E u \in v.todo :
         \/ /\ u \notin stopped
            /\ Went(b, Sent(v, u))
            /\ heard' = [heard EXCEPT ![b] = @ \cup {u}]
            /\ UNCHANGED mishapsLeft
         \/ /\ u \in stopped
            /\ Went(b, Stopped(v, u)) /\ UNCHANGED <<heard, mishapsLeft>>
         \/ /\ u \notin stopped /\ mishapsLeft > 0 /\ mishapsLeft' = mishapsLeft - 1
            /\ Went(b, GaveUp(v, u))
            /\ \/ heard' = [heard EXCEPT ![b] = @ \cup {u}]
               \/ UNCHANGED heard
    /\ UNCHANGED <<belongs, stopped, returned, blockedAt, draft, sendTap, cast,
                   jobs, aim, movesLeft>>

SaveProgress(b) ==
    LET v == sender[b] IN
    /\ v.at = "saving"
    /\ cast' = [cast EXCEPT ![b].sent = v.sent, ![b].failed = v.failed]
    /\ sender' = [sender EXCEPT ![b].at = IF v.todo # {} THEN "sending" ELSE "marking"]
    /\ UNCHANGED <<belongs, stopped, returned, blockedAt, draft, sendTap, jobs,
                   aim, heard, movesLeft, mishapsLeft>>

(* bot_blocked_at of all who refused, then "done". *)
MarkBlocked(b) ==
    /\ sender[b].at = "marking"
    /\ blockedAt' = blockedAt \cup sender[b].refused
    /\ sender' = [sender EXCEPT ![b].at = "closing"]
    /\ UNCHANGED <<belongs, stopped, returned, draft, sendTap, cast, jobs, aim,
                   heard, movesLeft, mishapsLeft>>

CloseCast(b) ==
    LET v == sender[b] IN
    /\ v.at = "closing"
    /\ cast' = [cast EXCEPT ![b] = [@ EXCEPT !.status = "done", !.sent = v.sent,
                                             !.failed = v.failed]]
    /\ sender' = [sender EXCEPT ![b].at = "over"]
    /\ UNCHANGED <<belongs, stopped, returned, blockedAt, draft, sendTap, jobs,
                   aim, heard, movesLeft, mishapsLeft>>

SenderDies(b) ==
    /\ sender[b].at \in {"sending", "saving", "marking", "closing"} /\ mishapsLeft > 0
    /\ sender' = [sender EXCEPT ![b].at = "lost"]
    /\ mishapsLeft' = mishapsLeft - 1
    /\ UNCHANGED <<belongs, stopped, returned, blockedAt, draft, sendTap, cast,
                   jobs, aim, heard, movesLeft>>

-----------------------------------------------------------------------------
(* Meanwhile subscriptions lapse and users are banned, stop the bot and    *)
(* come back; the middleware clears bot_blocked_at when they do.           *)
MoveGroup(u) ==
    /\ movesLeft > 0 /\ movesLeft' = movesLeft - 1
    /\ \E g \in {{}, {"all"}, Groups} \ {belongs[u]} : belongs' = [belongs EXCEPT ![u] = g]
    /\ UNCHANGED <<stopped, returned, blockedAt, draft, sendTap, cast, jobs,
                   sender, aim, heard, mishapsLeft>>

StopBot(u) ==
    /\ u \notin stopped /\ movesLeft > 0 /\ movesLeft' = movesLeft - 1
    /\ stopped' = stopped \cup {u}
    /\ UNCHANGED <<belongs, returned, blockedAt, draft, sendTap, cast, jobs,
                   sender, aim, heard, mishapsLeft>>

ComeBack(u) ==
    /\ u \in stopped
    /\ stopped' = stopped \ {u} /\ blockedAt' = blockedAt \ {u}
    /\ returned' = returned \cup {u}
    /\ UNCHANGED <<belongs, draft, sendTap, cast, jobs, sender, aim,
                   heard, movesLeft, mishapsLeft>>

BroadcastsNext ==
    \/ \E g \in Groups : Create(g) \/ Compose(g)
    \/ \E t \in SendTaps : TapSend(t) \/ SendFromForm(t)
    \/ \E b \in Casts : \/ Kiq(b) \/ StartSending(b) \/ SendOne(b) \/ SaveProgress(b)
                        \/ MarkBlocked(b) \/ CloseCast(b) \/ SenderDies(b)
    \/ \E u \in Chats : MoveGroup(u) \/ StopBot(u) \/ ComeBack(u)

-----------------------------------------------------------------------------
(* The books of a finished broadcast are right: everybody it set out to    *)
(* reach is counted once, as sent or as failed, nobody else got it, no     *)
(* message counted as sent is missing, and whoever refused it is marked    *)
(* unless they came back (tasks.py, send_broadcast).                 *)
CastAddsUp ==
    \A b \in Casts : cast[b].status = "done" =>
        /\ cast[b].sent + cast[b].failed = Cardinality(aim[b])
        /\ heard[b] \subseteq aim[b] /\ cast[b].sent <= Cardinality(heard[b])
        /\ sender[b].refused \ returned \subseteq blockedAt
=============================================================================
