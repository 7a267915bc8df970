----------------------------- MODULE PanelClient -----------------------------
(***************************************************************************)
(* The client of the Remnawave panel (client.py) and the service over it   *)
(* (remnawave.py), while the panel is upgraded from 2.x, where a user has  *)
(* a uuid, to 3.x, where it has a number and no uuid.  Each process of the *)
(* bot has a client, which asks the panel's version once, finds the number *)
(* of a user it knows by uuid, and repeats a request that was not answered.*)
(*                                                                         *)
(* A panel user, its uuid and its number are all named by the subscription *)
(* it was made for; whether a key is accepted depends on the panel's       *)
(* generation.                                                             *)
(***************************************************************************)
EXTENDS Naturals, FiniteSets

CONSTANTS
    Own,          \* subscriptions the bot creates: user name sub_<short_id>
    Adopted,      \* imported: the panel's shortUuid became the short_id
    Clients,      \* processes of the bot
    Calls,        \* calls under way
    ClientOf,     \* the process that makes a call
    Attempts,     \* PANEL_RETRY_ATTEMPTS
    NoKey,
    MaxCalls,     \* bound: calls begun
    MaxLost       \* bound: requests or answers that are lost

Accounts == Own \cup Adopted
Ops == {"create", "get", "enable", "disable", "revoke", "delete"}

ASSUME PanelClientAssumption ==
    /\ Own \cap Adopted = {} /\ NoKey \notin Accounts
    /\ ClientOf \in [Calls -> Clients]
    /\ Attempts \in Nat \ {0} /\ {MaxCalls, MaxLost} \subseteq Nat

VARIABLES
    generation,   \* of the panel: 2 or 3
    tellsVersion, \* whether the 2.x panel reports its version
    account,      \* the panel's users: state, and whether shortUuid was rotated
    keys,         \* the rows: which keys of the panel user they hold
    mode,         \* each client's _mode, 0 for not yet known
    cache,        \* each client's _id_cache
    call,         \* the calls under way
    mail,         \* webhooks under way: user, and the generation that sent it
    astray,       \* pairs of a subscription meant and another's user reached
    made, lost    \* counters of the bounds

clientVars == <<generation, tellsVersion, account, keys, mode, cache, call, mail, astray, made, lost>>

NoRefs == [uuid |-> NoKey, id |-> NoKey]
Quiet == [at |-> "idle", op |-> "get", for |-> NoKey, refs |-> NoRefs, by |-> "uuid",
          to |-> NoKey, tries |-> 0, did |-> FALSE]

(* What a panel user is called, and what its shortUuid is.                  *)
UserName(a) == IF a \in Own THEN <<"sub_", a>> ELSE <<"legacy", a>>
ShortUuid(a) == IF a \in Adopted /\ ~account[a].rotated THEN <<"short", a>> ELSE <<"panel", a>>

Straight == {<<a, a>> : a \in Accounts}

Present(a) == account[a].state \in {"on", "off"}

ClientInit ==
    /\ generation = 2
    /\ tellsVersion \in BOOLEAN
    /\ \E sold \in SUBSET Own :
          /\ account = [a \in Accounts |->
                          [state |-> IF a \in sold \cup Adopted THEN "on" ELSE "none", rotated |-> FALSE]]
          /\ keys = [a \in Accounts |->
                       IF a \in sold \cup Adopted THEN [uuid |-> a, id |-> NoKey] ELSE NoRefs]
    /\ mode = [p \in Clients |-> 0]
    /\ cache = [p \in Clients |-> [a \in Accounts |-> NoKey]]
    /\ call = [c \in Calls |-> Quiet]
    /\ mail = {} /\ astray = {}
    /\ made = 0 /\ lost = 0

Lost == lost < MaxLost /\ lost' = lost + 1
CallIs(c, new) == call' = [call EXCEPT ![c] = new]
Fails(c) == CallIs(c, [call[c] EXCEPT !.at = "error"])
-----------------------------------------------------------------------------
(* A call begins with the keys of the row as it is then (panel_ref).        *)
Begin(c, s, op) ==
    /\ call[c].at = "idle" /\ made < MaxCalls
    /\ IF op = "create"
       THEN /\ s \in Own /\ account[s].state = "none"
            /\ \A d \in Calls : call[d].at # "idle" => call[d].for # s
       ELSE keys[s] # NoRefs
    /\ made' = made + 1
    /\ CallIs(c, [Quiet EXCEPT !.at = IF op = "create" THEN "send" ELSE "route", !.op = op,
                              !.for = s, !.to = s, !.refs = keys[s]])
    /\ UNCHANGED <<generation, tellsVersion, account, keys, mode, cache, mail, astray, lost>>

Readable == generation = 3 \/ tellsVersion

Pinned(p) == IF Readable THEN mode' = [mode EXCEPT ![p] = generation]
                         ELSE mode' = [mode EXCEPT ![p] = 2]

(* _is_v3 asks the version: /metadata first, then /health, which tells no  *)
(* version on 3.x.  No version to be read means 2.x; an error means that   *)
(* the call fails and the next one asks again.                              *)
AskVersion(c) ==
    LET p == ClientOf[c] IN
    /\ call[c].at = "route" /\ mode[p] = 0
    /\ \/ Pinned(p) /\ UNCHANGED <<call, lost>>
       \/ Lost /\ mode' = [mode EXCEPT ![p] = 2] /\ UNCHANGED call
       \/ Lost /\ Fails(c) /\ UNCHANGED mode
    /\ UNCHANGED <<generation, tellsVersion, account, keys, cache, mail, astray, made>>

(* The watchdog and the health check ask too: a version they read is        *)
(* remembered, an answer without one changes nothing.                       *)
GetVersion(p) ==
    /\ Readable /\ mode[p] # generation
    /\ mode' = [mode EXCEPT ![p] = generation]
    /\ UNCHANGED <<generation, tellsVersion, account, keys, cache, call, mail, astray, made, lost>>

(* Mutants: any number found before, and the shortUuid alone.               *)
AnyNumber(p, s) == IF cache[p][s] # NoKey \/ \A a \in Accounts : cache[p][a] = NoKey
                   THEN cache[p][s]
                   ELSE CHOOSE a \in Accounts : cache[p][a] # NoKey
ByShortUuidOnly(s) == {a \in Accounts : Present(a) /\ ShortUuid(a) = <<"short", s>>}

Number(p, s) == cache[p][s]

(* POST /users/resolve: the user named sub_<short_id>, or else the one      *)
(* whose shortUuid it is.                                                   *)
Resolved(s) ==
    LET named == {a \in Accounts : Present(a) /\ UserName(a) = <<"sub_", s>>}
    IN  IF named # {} THEN named
        ELSE {a \in Accounts : Present(a) /\ ShortUuid(a) = <<"short", s>>}

(* Every user-scoped call: the uuid for 2.x; for 3.x the row's number, the  *)
(* one found before, or the one the panel finds now.                        *)
Route(c) ==
    LET p == ClientOf[c]
        k == call[c]
        goes(by, to) == CallIs(c, [k EXCEPT !.at = "send", !.by = by, !.to = to])
    IN  /\ k.at = "route" /\ mode[p] # 0
        /\ IF mode[p] = 2
           THEN (IF k.refs.uuid = NoKey THEN Fails(c) ELSE goes("uuid", k.refs.uuid)) /\ UNCHANGED cache
           ELSE CASE k.refs.id # NoKey -> goes("id", k.refs.id) /\ UNCHANGED cache
                  [] k.refs.id = NoKey /\ Number(p, k.for) # NoKey ->
                        goes("id", Number(p, k.for)) /\ UNCHANGED cache
                  [] OTHER ->
                        IF Resolved(k.for) = {} THEN Fails(c) /\ UNCHANGED cache
                        ELSE \E a \in Resolved(k.for) :
                                goes("id", a) /\ cache' = [cache EXCEPT ![p][k.for] = a]
        /\ UNCHANGED <<generation, tellsVersion, account, keys, mode, mail, astray, made, lost>>

RouteUnanswered(c) ==
    /\ call[c].at = "route" /\ mode[ClientOf[c]] = 3 /\ call[c].refs.id = NoKey
    /\ Lost /\ Fails(c)
    /\ UNCHANGED <<generation, tellsVersion, account, keys, mode, cache, mail, astray, made>>
-----------------------------------------------------------------------------
(* The panel's side of a request.                                           *)
Knows(k) ==
    IF k.op = "create" THEN account[k.to].state = "none"
    ELSE Present(k.to) /\ (IF k.by = "uuid" THEN generation = 2 ELSE generation = 3)

Already(k) == \/ k.op = "enable" /\ account[k.to].state = "on"
              \/ k.op = "disable" /\ account[k.to].state = "off"

After(k) ==
    CASE k.op \in {"create", "enable"} -> [account[k.to] EXCEPT !.state = "on"]
      [] k.op = "disable" -> [account[k.to] EXCEPT !.state = "off"]
      [] k.op = "delete" -> [account[k.to] EXCEPT !.state = "gone"]
      [] k.op = "revoke" -> [account[k.to] EXCEPT !.rotated = TRUE]
      [] k.op = "get" -> account[k.to]

Takes(c) ==
    LET k == call[c] IN
    /\ account' = [account EXCEPT ![k.to] = After(k)]
    /\ astray' = astray \cup ({<<k.for, k.to>>} \ Straight)
    /\ mail' = IF After(k) # account[k.to] /\ k.op # "delete"
               THEN mail \cup {[user |-> k.to, from |-> generation]} ELSE mail

(* Mutant: every refusal of a toggle is a success.                          *)
AnyRefusal(k) == k.op \in {"enable", "disable"}

(* RemnawaveService.enable and disable: a refused no-op is the state wanted *)
(* (A030).                                                                  *)
AlreadyInState(k) == Knows(k) /\ Already(k)

(* One attempt of _request, answered: done, refused for good, or refused as *)
(* a no-op.                                                                 *)
SendAnswered(c) ==
    LET k == call[c] IN
    /\ k.at = "send"
    /\ IF Knows(k) /\ ~Already(k)
       THEN Takes(c) /\ CallIs(c, [k EXCEPT !.at = "done", !.did = TRUE])
       ELSE /\ UNCHANGED <<account, astray, mail>>
            /\ IF AlreadyInState(k)
               THEN CallIs(c, [k EXCEPT !.at = "done", !.did = @ \/ (Knows(k) /\ Already(k))])
               ELSE Fails(c)
    /\ UNCHANGED <<generation, tellsVersion, keys, mode, cache, made, lost>>

(* One attempt that ends without an answer, or with a 5xx: the panel may    *)
(* have done it.  The request is sent again, a few times.                   *)
SendUnanswered(c) ==
    LET k == call[c]
        goesOn == [k EXCEPT !.tries = @ + 1, !.at = IF k.tries + 1 < Attempts THEN "send" ELSE "error"]
    IN  /\ k.at = "send" /\ Lost
        /\ \/ CallIs(c, goesOn) /\ UNCHANGED <<account, astray, mail>>
           \/ Knows(k) /\ ~Already(k) /\ Takes(c) /\ CallIs(c, [goesOn EXCEPT !.did = TRUE])
        /\ UNCHANGED <<generation, tellsVersion, keys, mode, cache, made>>

(* The caller: a grant stores the keys the panel answered with.             *)
Ends(c) ==
    LET k == call[c] IN
    /\ k.at \in {"done", "error"}
    /\ keys' = IF k.op = "create" /\ k.at = "done"
               THEN [keys EXCEPT ![k.for] = IF generation = 2 THEN [uuid |-> k.to, id |-> NoKey]
                                                              ELSE [uuid |-> NoKey, id |-> k.to]]
               ELSE keys
    /\ CallIs(c, Quiet)
    /\ UNCHANGED <<generation, tellsVersion, account, mode, cache, mail, astray, made, lost>>
-----------------------------------------------------------------------------
(* resolve_subscription: by uuid; without one, by the row's number, then by *)
(* the user name, then by the shortUuid.                                    *)
RowOf(e) ==
    LET known == e.user
        rows == {s \in Accounts : keys[s] # NoRefs}
        numbered == {s \in rows : keys[s].id = known}
        named == {s \in rows : UserName(known) = <<"sub_", s>>}
    IN  CASE e.from = 2 -> {s \in rows : keys[s].uuid = known}
          [] e.from = 3 /\ numbered # {} -> numbered
          [] e.from = 3 /\ numbered = {} /\ named # {} -> named
          [] OTHER -> {s \in rows : ShortUuid(known) = <<"short", s>>}

(* A panel event, in any order: the first one of 3.x gives the row its      *)
(* number.                                                                  *)
Webhook(e) ==
    /\ e \in mail
    /\ mail' = mail \ {e}
    /\ keys' = [s \in Accounts |->
                  IF s \in RowOf(e) /\ e.from = 3 THEN [keys[s] EXCEPT !.id = e.user] ELSE keys[s]]
    /\ astray' = astray \cup ({<<s, e.user>> : s \in RowOf(e)} \ Straight)
    /\ UNCHANGED <<generation, tellsVersion, account, mode, cache, call, made, lost>>

(* The owner upgrades the panel; a process of the bot restarts.             *)
PanelUpgrade ==
    /\ generation = 2
    /\ generation' = 3
    /\ UNCHANGED <<tellsVersion, account, keys, mode, cache, call, mail, astray, made, lost>>

ClientRestart(p) ==
    /\ mode[p] # 0 /\ Lost
    /\ mode' = [mode EXCEPT ![p] = 0]
    /\ cache' = [cache EXCEPT ![p] = [a \in Accounts |-> NoKey]]
    /\ call' = [c \in Calls |-> IF ClientOf[c] = p THEN Quiet ELSE call[c]]
    /\ UNCHANGED <<generation, tellsVersion, account, keys, mail, astray, made>>

CallStep(c) ==
    \/ \E s \in Accounts, op \in Ops : Begin(c, s, op)
    \/ AskVersion(c) \/ Route(c) \/ RouteUnanswered(c)
    \/ SendAnswered(c) \/ SendUnanswered(c) \/ Ends(c)

ClientNext ==
    \/ \E c \in Calls : CallStep(c)
    \/ \E p \in Clients : GetVersion(p) \/ ClientRestart(p)
    \/ \E e \in mail : Webhook(e)
    \/ PanelUpgrade
-----------------------------------------------------------------------------
(* Every request and every webhook meets the subscription it is about, by   *)
(* whatever key, before, during and after the upgrade.                      *)
RightUser == astray = {}

(* A call that returns has done what it says, although its request may have *)
(* been answered with a refusal: the panel user was in the state asked for  *)
(* at some moment of the call (remnawave.py, "that rejection IS the desired *)
(* end state").                                                             *)
DoneMeansDone == \A c \in Calls : call[c].at = "done" => call[c].did

(* A subscription the bot created stays within reach of a client that       *)
(* speaks 3.x, whatever keys its row holds and however its link was rotated *)
(* (client.py, "re-resolves it for uuid-only subscriptions").               *)
OwnStayInReach ==
    \A s \in Own, p \in Clients :
        keys[s] # NoRefs /\ Present(s) /\ mode[p] = 3
            => keys[s].id = s \/ Number(p, s) = s \/ Resolved(s) = {s}

(* Bot and panel mean the same users and the same outcomes.                *)
PanelUnderstood == RightUser /\ DoneMeansDone /\ OwnStayInReach
=============================================================================
