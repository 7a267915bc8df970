-------------------------- MODULE CabinetSessions ---------------------------
(***************************************************************************)
(* Sessions of one user of the web cabinet (cabinet_auth.py).  A login     *)
(* mints a refresh token, each refresh spends it by a guarded UPDATE and   *)
(* mints the next one in a transaction of its own, a logout revokes it.    *)
(* Requests with the same token meet: two tabs refresh at once, a logout   *)
(* crosses a refresh, an answer is lost and the browser tries again.       *)
(* Access tokens are not stored; every request re-reads the user's row.    *)
(***************************************************************************)
EXTENDS Naturals, FiniteSets

CONSTANTS
    Tokens,           \* ids of the rows of cabinet_refresh_tokens there may be
    Browsers,         \* requests in flight
    NoToken,
    MaxBlocks         \* bound: an admin blocks or unblocks the user

ASSUME TokensAssumption == Tokens \subseteq Nat /\ NoToken \notin Tokens

VARIABLES
    token,            \* "unused", "live", "old" (past its 30 days) or "revoked"
    parent,           \* the token a token was minted for
    loggedOut,        \* tokens a logout revoked while they were live
    blocked,
    ask, used,        \* each request: how far it is, and its token
    sawBlocked,       \* the user's status it read
    blocks

sessionVars == <<token, parent, loggedOut, blocked, ask, used,
                 sawBlocked, blocks>>

CabinetInit ==
    /\ token = [t \in Tokens |-> "unused"]
    /\ parent = [t \in Tokens |-> NoToken]
    /\ loggedOut = {}
    /\ blocked = FALSE
    /\ ask = [q \in Browsers |-> "idle"]
    /\ used = [q \in Browsers |-> NoToken]
    /\ sawBlocked = [q \in Browsers |-> FALSE]
    /\ blocks = MaxBlocks

(* The request is answered. *)
Answered(q) ==
    /\ ask' = [ask EXCEPT ![q] = "idle"]
    /\ used' = [used EXCEPT ![q] = NoToken]
    /\ sawBlocked' = [sawBlocked EXCEPT ![q] = FALSE]

(* The kill-switch, the rate limits and a bad proof refuse a request       *)
(* before it starts.  Password, Telegram, OAuth or automatic login:        *)
(* proved, not minted yet.                                                 *)
LogIn(q) ==
    /\ ask[q] = "idle"
    /\ sawBlocked' = [sawBlocked EXCEPT ![q] = blocked]
    /\ ask' = [ask EXCEPT ![q] = "minting"]
    /\ UNCHANGED <<token, parent, loggedOut, blocked, used, blocks>>

(* refresh: the row is read, and found to be live. *)
FindToken(q, t) ==
    /\ ask[q] = "idle"
    /\ token[t] = "live"
    /\ used' = [used EXCEPT ![q] = t]
    /\ ask' = [ask EXCEPT ![q] = "found"]
    /\ UNCHANGED <<token, parent, loggedOut, blocked, sawBlocked, blocks>>

SpendsAny(t) == TRUE                                            \* mutant
Spendable(t) == token[t] \in {"live", "old"}

(* UPDATE ... WHERE revoked_at IS NULL. *)
SpendToken(q) ==
    /\ ask[q] = "found"
    /\ IF Spendable(used[q])
       THEN /\ token' = [token EXCEPT ![used[q]] = "revoked"]
            /\ ask' = [ask EXCEPT ![q] = "minting"]
            /\ sawBlocked' = [sawBlocked EXCEPT ![q] = blocked]
            /\ UNCHANGED used
       ELSE Answered(q) /\ UNCHANGED token
    /\ UNCHANGED <<parent, loggedOut, blocked, blocks>>

MayMint(q) == ~sawBlocked[q]

(* _auth_response refuses a blocked account, then inserts the new row. *)
MintToken(q) ==
    /\ ask[q] = "minting"
    /\ Answered(q)
    /\ IF MayMint(q)
       THEN \E t \in Tokens :
              /\ token[t] = "unused" /\ \A s \in Tokens : token[s] = "unused" => t <= s
              /\ token' = [token EXCEPT ![t] = "live"]
              /\ parent' = [parent EXCEPT ![t] = used[q]]
       ELSE UNCHANGED <<token, parent>>
    /\ UNCHANGED <<loggedOut, blocked, blocks>>

FindForLogout(q, t) ==
    /\ ask[q] = "idle" /\ token[t] \in {"live", "old"}
    /\ used' = [used EXCEPT ![q] = t]
    /\ ask' = [ask EXCEPT ![q] = "leaving"]
    /\ UNCHANGED <<token, parent, loggedOut, blocked, sawBlocked, blocks>>

LogOut(q) ==
    /\ ask[q] = "leaving"
    /\ loggedOut' = IF Spendable(used[q]) THEN loggedOut \cup {used[q]} ELSE loggedOut
    /\ token' = [token EXCEPT ![used[q]] = "revoked"]
    /\ Answered(q)
    /\ UNCHANGED <<parent, blocked, blocks>>

(* The request dies between the spend and the mint: the session is gone.   *)
RequestDies(q) ==
    /\ ask[q] # "idle"
    /\ Answered(q)
    /\ UNCHANGED <<token, parent, loggedOut, blocked, blocks>>

TokenExpires(t) ==
    /\ token[t] = "live" /\ token' = [token EXCEPT ![t] = "old"]
    /\ UNCHANGED <<parent, loggedOut, blocked, ask, used, sawBlocked, blocks>>

AdminBlocks ==
    /\ blocks > 0 /\ blocks' = blocks - 1
    /\ blocked' = ~blocked
    /\ UNCHANGED <<token, parent, loggedOut, ask, used, sawBlocked>>

CabinetNext ==
    \/ \E q \in Browsers :
         \/ LogIn(q) \/ SpendToken(q) \/ MintToken(q) \/ LogOut(q) \/ RequestDies(q)
         \/ \E t \in Tokens : FindToken(q, t) \/ FindForLogout(q, t)
    \/ \E t \in Tokens : TokenExpires(t)
    \/ AdminBlocks

CabinetSpec == CabinetInit /\ [][CabinetNext]_sessionVars

-----------------------------------------------------------------------------
Children(t) == {c \in Tokens : parent[c] = t /\ token[c] # "unused"}

(* A refresh token makes at most one further session however many requests *)
(* carry it, and none once a logout has ended it (cabinet_auth.py:279-289: *)
(* the atomic spend).                                                      *)
SessionsDoNotFork ==
    \A t \in Tokens :
        /\ Cardinality(Children(t)) <= 1
        /\ t \in loggedOut => Children(t) = {}
=============================================================================
