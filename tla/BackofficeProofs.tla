--------------------------- MODULE BackofficeProofs ---------------------------
(***************************************************************************)
(* Machine-checked proofs about what the people behind the counter see to, *)
(* composed as in MCBackoffice: one inductive invariant per component; a   *)
(* step of MCBackoffice is a step of one of them and leaves the others     *)
(* alone.  The wallets have a module of their own (WalletProofs).          *)
(***************************************************************************)
EXTENDS MCBackoffice, Sums, FiniteSetTheorems, TLAPS

-----------------------------------------------------------------------------
(* Cabinet sessions: a token that a request has spent belongs to that      *)
(* request until it has minted the next one, and then to its one child.    *)

TokensTyped ==
    /\ token \in [Tokens -> {"unused", "live", "old", "revoked"}]
    /\ parent \in [Tokens -> Tokens \cup {NoToken}]
    /\ loggedOut \subseteq Tokens
    /\ ask \in [Browsers -> {"idle", "found", "minting", "leaving"}]
    /\ used \in [Browsers -> Tokens \cup {NoToken}]

ChildOf(c, t) == c \in Tokens /\ parent[c] = t /\ token[c] # "unused"
Spends(q, t) == ask[q] = "minting" /\ used[q] = t

TokenHistory(t) ==
    /\ t \in loggedOut => token[t] = "revoked"
    /\ \A c \in Tokens : ChildOf(c, t) => token[t] = "revoked" /\ t \notin loggedOut
    /\ \A c, d \in Tokens : ChildOf(c, t) /\ ChildOf(d, t) => c = d
    /\ \A q \in Browsers : Spends(q, t) =>
         /\ token[t] = "revoked" /\ t \notin loggedOut
         /\ \A c \in Tokens : ~ChildOf(c, t)
         /\ \A r \in Browsers : Spends(r, t) => r = q

TokenInHand(q) ==
    /\ ask[q] = "idle" => used[q] = NoToken
    /\ ask[q] \in {"found", "leaving"} => used[q] \in Tokens /\ token[used[q]] # "unused"

SessionsInv ==
    /\ TokensTyped
    /\ \A t \in Tokens : TokenHistory(t)
    /\ \A q \in Browsers : TokenInHand(q)

LEMMA SessionsStart == CabinetInit => SessionsInv
  BY TokensAssumption DEF CabinetInit, SessionsInv, TokensTyped, TokenHistory, TokenInHand, ChildOf, Spends

LEMMA SessionsStep == SessionsInv /\ [CabinetNext]_sessionVars => SessionsInv'
<1> SUFFICES ASSUME SessionsInv, [CabinetNext]_sessionVars PROVE SessionsInv'
  OBVIOUS
<1> USE TokensAssumption DEF SessionsInv, TokensTyped, TokenHistory, TokenInHand, ChildOf, Spends
<1>1. ASSUME NEW q \in Browsers, LogIn(q) PROVE SessionsInv'
  BY <1>1 DEF LogIn
<1>2. ASSUME NEW q \in Browsers, NEW t \in Tokens, FindToken(q, t) PROVE SessionsInv'
  BY <1>2 DEF FindToken
<1>3. ASSUME NEW q \in Browsers, SpendToken(q) PROVE SessionsInv'
  <2>1. CASE Spendable(used[q])
    <3> DEFINE t == used[q]
    <3>1. /\ t \in Tokens /\ token[t] \in {"live", "old"} /\ t \notin loggedOut
          /\ token' = [token EXCEPT ![t] = "revoked"]
          /\ ask' = [ask EXCEPT ![q] = "minting"]
          /\ UNCHANGED <<used, parent, loggedOut>>
      BY <1>3, <2>1 DEF SpendToken, Spendable
    <3>2. \A s, c : ChildOf(c, s)' <=> ChildOf(c, s)
      BY <3>1
    <3>3. \A r \in Browsers, s \in Tokens : Spends(r, s)' <=> (Spends(r, s) \/ (r = q /\ s = t))
      BY <3>1
    <3>4. (\A c \in Tokens : ~ChildOf(c, t)) /\ (\A r \in Browsers : ~Spends(r, t))
      <4>1. TokenHistory(t) /\ token[t] # "revoked"
        BY <3>1
      <4>2. QED BY <4>1
    <3>5. TokensTyped'
      BY <3>1
    <3>6. \A r \in Browsers : TokenInHand(r)'
      BY <3>1
    <3> HIDE DEF t, ChildOf, Spends
    <3>7. ASSUME NEW s \in Tokens PROVE TokenHistory(s)'
      BY <3>1, <3>2, <3>3, <3>4
    <3>8. QED BY <3>5, <3>6, <3>7
  <2>2. CASE ~Spendable(used[q])
    BY <1>3, <2>2 DEF SpendToken, Spendable, Answered
  <2>3. QED BY <2>1, <2>2
<1>4. ASSUME NEW q \in Browsers, MintToken(q) PROVE SessionsInv'
  <2>1. CASE MayMint(q)
    <3> DEFINE s == used[q]
    <3>1. PICK n \in Tokens : /\ token[n] = "unused"
                              /\ token' = [token EXCEPT ![n] = "live"]
                              /\ parent' = [parent EXCEPT ![n] = s]
      BY <1>4, <2>1 DEF MintToken
    <3>2. /\ ask[q] = "minting" /\ ask' = [ask EXCEPT ![q] = "idle"]
          /\ used' = [used EXCEPT ![q] = NoToken]
          /\ loggedOut' = loggedOut
      BY <1>4 DEF MintToken, Answered
    <3>3. \A t, c : ChildOf(c, t)' <=> (ChildOf(c, t) \/ (c = n /\ t = s))
      BY <3>1
    <3>4. \A r \in Browsers, t \in Tokens : Spends(r, t)' <=> (Spends(r, t) /\ r # q)
      BY <3>2
    <3>5. /\ n # s \/ s \notin Tokens
          /\ \A t : ~ChildOf(n, t)
          /\ \A c : ~ChildOf(c, n)
          /\ \A r \in Browsers : ~Spends(r, n)
          /\ n \notin loggedOut
          /\ s \in Tokens => Spends(q, s)
      BY <3>1, <3>2
    <3>6. TokensTyped'
      BY <3>1, <3>2
    <3>7. \A r \in Browsers : TokenInHand(r)'
      BY <3>1, <3>2
    <3> HIDE DEF s, ChildOf, Spends
    <3>8. ASSUME NEW t \in Tokens PROVE TokenHistory(t)'
      BY <3>1, <3>2, <3>3, <3>4, <3>5
    <3>9. QED BY <3>6, <3>7, <3>8
  <2>2. CASE ~MayMint(q)
    BY <1>4, <2>2 DEF MintToken, Answered
  <2>3. QED BY <2>1, <2>2
<1>5. ASSUME NEW q \in Browsers, NEW t \in Tokens, FindForLogout(q, t) PROVE SessionsInv'
  BY <1>5 DEF FindForLogout
<1>6. ASSUME NEW q \in Browsers, LogOut(q) PROVE SessionsInv'
  <2>1. CASE Spendable(used[q])
    <3> DEFINE t == used[q]
    <3>1. /\ t \in Tokens /\ token[t] \in {"live", "old"} /\ ask[q] = "leaving"
          /\ token' = [token EXCEPT ![t] = "revoked"]
          /\ loggedOut' = loggedOut \cup {t}
          /\ ask' = [ask EXCEPT ![q] = "idle"] /\ used' = [used EXCEPT ![q] = NoToken]
          /\ parent' = parent
      BY <1>6, <2>1 DEF LogOut, Spendable, Answered
    <3>2. \A s, c : ChildOf(c, s)' <=> ChildOf(c, s)
      BY <3>1
    <3>3. \A r \in Browsers, s \in Tokens : Spends(r, s)' <=> Spends(r, s)
      BY <3>1
    <3>4. (\A c \in Tokens : ~ChildOf(c, t)) /\ (\A r \in Browsers : ~Spends(r, t))
      BY <3>1
    <3>5. TokensTyped'
      BY <3>1
    <3>6. \A r \in Browsers : TokenInHand(r)'
      BY <3>1
    <3> HIDE DEF t, ChildOf, Spends
    <3>7. ASSUME NEW s \in Tokens PROVE TokenHistory(s)'
      BY <3>1, <3>2, <3>3, <3>4
    <3>8. QED BY <3>5, <3>6, <3>7
  <2>2. CASE ~Spendable(used[q])
    BY <1>6, <2>2 DEF LogOut, Spendable, Answered
  <2>3. QED BY <2>1, <2>2
<1>7. ASSUME NEW q \in Browsers, RequestDies(q) PROVE SessionsInv'
  BY <1>7 DEF RequestDies, Answered
<1>8. ASSUME NEW t \in Tokens, TokenExpires(t) PROVE SessionsInv'
  BY <1>8 DEF TokenExpires
<1>9. CASE AdminBlocks
  BY <1>9 DEF AdminBlocks
<1>10. CASE UNCHANGED sessionVars
  BY <1>10 DEF sessionVars
<1>11. QED
  BY <1>1, <1>2, <1>3, <1>4, <1>5, <1>6, <1>7, <1>8, <1>9, <1>10 DEF CabinetNext

LEMMA SessionsHold == SessionsInv => SessionsDoNotFork
<1> SUFFICES ASSUME SessionsInv, NEW t \in Tokens
             PROVE  Cardinality(Children(t)) <= 1 /\ (t \in loggedOut => Children(t) = {})
  BY DEF SessionsDoNotFork
<1>1. \A c : c \in Children(t) <=> c \in Tokens /\ ChildOf(c, t)
  BY DEF Children, ChildOf
<1>2. t \in loggedOut => Children(t) = {}
  BY <1>1 DEF SessionsInv, TokenHistory
<1>3. Cardinality(Children(t)) <= 1
  <2>1. CASE Children(t) = {}
    BY <2>1, FS_EmptySet
  <2>2. CASE Children(t) # {}
    <3>1. PICK c : c \in Children(t)
      BY <2>2
    <3>2. Children(t) = {c}
      BY <1>1, <3>1 DEF SessionsInv, TokenHistory
    <3>3. Cardinality({c}) = 1
      BY FS_Singleton
    <3>4. QED BY <3>2, <3>3
  <2>3. QED BY <2>1, <2>2
<1>4. QED BY <1>2, <1>3

-----------------------------------------------------------------------------
(* Arrivals: whose INSERT is not committed, who holds the row, and whose   *)
(* link opened the account.                                                *)

Purposes == {"none", "start", "app", "promo", "checkout", "charge"}
Places == {"idle", "reading", "known", "inserting", "inserted", "passed", "dropped",
           "handled", "attributing", "locked", "seen", "lost", "cleared", "turned"}

ContactShape == [what : Purposes, at : Places, new : BOOLEAN, member : BOOLEAN,
                 link : {NoLink} \cup Invitations \cup Campaigns]
ContactsTyped ==
    /\ contact \in [Contacts -> ContactShape]
    /\ hasRow \in BOOLEAN /\ member \in BOOLEAN

(* One update made the account, and the event is out unless that one is    *)
(* between its commit and the event, or died there.                        *)
Announced ==
    /\ registered \in {0, 1} /\ (registered = 1 => hasRow)
    /\ hasRow /\ registered = 0 =>
          \E u \in Contacts : contact[u].new /\ contact[u].at \in {"cleared", "turned", "lost"}
    /\ \A u \in Contacts : contact[u].new =>
          /\ Stands(u, "inserted") \/ hasRow
          /\ contact[u].at \in {"cleared", "turned"} => registered = 0
    /\ \A u, v \in Contacts : contact[u].new /\ contact[v].new => u = v

Inserts ==
    /\ \A u \in Contacts : Stands(u, "inserted") <=> inserter = u
    /\ inserter # NoLink => inserter \in Contacts /\ ~hasRow

Fares(u) ==
    /\ contact[u].new => contact[u].at \notin {"idle", "reading", "known", "inserting"}
    /\ Stands(u, "inserted") => contact[u].new
    /\ Stands(u, "known") => hasRow
    /\ contact[u].at \in {"dropped", "turned"} => contact[u].what # "charge"
    /\ contact[u].at \in {"locked", "seen"} => rowHolder = u
    /\ Stands(u, "seen") => contact[u].member = member

Opened(u) == contact[u].new /\ contact[u].link = inviter /\ Stands(u, "handled")

ContactsFare ==
    /\ ContactsTyped
    /\ Inserts
    /\ \A u \in Contacts : Fares(u)
    /\ inviter # NoLink => \E u \in Contacts : Opened(u)
    /\ campaign # NoLink => member

ArrivalsInv == ContactsFare /\ Announced

LEMMA ArrivalsStart == ArrivalsInit => ArrivalsInv
<1> SUFFICES ASSUME ArrivalsInit PROVE ArrivalsInv
  OBVIOUS
<1>1. \A u \in Contacts : contact[u] = NoContact
  BY DEF ArrivalsInit
<1>2. ContactsTyped
  BY <1>1 DEF ArrivalsInit, ContactsTyped, ContactShape, NoContact, Purposes, Places
<1>3. Inserts
  BY <1>1, ArrivalsAssumption DEF ArrivalsInit, Inserts, Stands, NoContact
<1>4. \A u \in Contacts : Fares(u)
  BY <1>1 DEF Fares, Stands, NoContact
<1>5. Announced
  BY <1>1 DEF ArrivalsInit, Announced, Stands, NoContact
<1>6. QED BY <1>2, <1>3, <1>4, <1>5 DEF ArrivalsInit, ArrivalsInv, ContactsFare

LEMMA ContactsStep == ContactsFare /\ [ArrivalsNext]_arrivalVars => ContactsFare'
<1> SUFFICES ASSUME ContactsFare, [ArrivalsNext]_arrivalVars PROVE ContactsFare'
  OBVIOUS
<1> USE ArrivalsAssumption DEF ContactsFare, ContactsTyped, Inserts, Fares, Opened, Stands, Reaches,
        Purposes, Places, ContactShape
<1>1. ASSUME NEW u \in Contacts, ComesIn(u) PROVE ContactsFare'
  <2>1. ContactsTyped'
    <3>1. PICK k \in Purposes, l \in {NoLink} \cup Invitations \cup Campaigns :
            contact' = [contact EXCEPT ![u] = [NoContact EXCEPT !.what = k, !.link = l,
                                                                !.at = "reading"]]
      <4>1. PICK k \in {"start", "app", "promo", "checkout", "charge"} :
              \E l \in IF k = "start" THEN Invitations \cup Campaigns ELSE {NoLink} :
                contact' = [contact EXCEPT ![u] = [NoContact EXCEPT !.what = k, !.link = l,
                                                                    !.at = "reading"]]
        BY <1>1 DEF ComesIn
      <4>2. k \in Purposes
        BY <4>1
      <4>3. (IF k = "start" THEN Invitations \cup Campaigns ELSE {NoLink})
              \subseteq {NoLink} \cup Invitations \cup Campaigns
        OBVIOUS
      <4>4. QED BY <4>1, <4>2, <4>3
    <3>2. [NoContact EXCEPT !.what = k, !.link = l, !.at = "reading"] \in ContactShape
      BY DEF NoContact
    <3>3. contact' \in [Contacts -> ContactShape]
      BY <3>1, <3>2
    <3>4. QED BY <3>3, <1>1 DEF ComesIn, person
  <2>2. Inserts'
    BY <1>1 DEF ComesIn, NoContact, person
  <2>3. ASSUME NEW v \in Contacts PROVE Fares(v)'
    BY <1>1 DEF ComesIn, NoContact, person
  <2>4. inviter' # NoLink => \E v \in Contacts : Opened(v)'
    BY <1>1 DEF ComesIn, NoContact, person
  <2>5. campaign' # NoLink => member'
    BY <1>1 DEF ComesIn, NoContact, person
  <2>6. QED BY <2>1, <2>2, <2>3, <2>4, <2>5
<1>2. ASSUME NEW u \in Contacts, FindAccount(u) PROVE ContactsFare'
  BY <1>2 DEF FindAccount, person
<1>3. ASSUME NEW u \in Contacts, InsertAccount(u) PROVE ContactsFare'
  BY <1>3 DEF InsertAccount, LoserGoesOn, person
<1>4. ASSUME NEW u \in Contacts, FromApp(u) PROVE ContactsFare'
  <2>1. ContactsTyped'
    BY <1>4 DEF FromApp, Enters, person
  <2>2. Inserts'
    BY <1>4 DEF FromApp, Enters, person
  <2>3. ASSUME NEW v \in Contacts PROVE Fares(v)'
    BY <1>4 DEF FromApp, Enters, person
  <2>4. inviter' # NoLink => \E v \in Contacts : Opened(v)'
    BY <1>4 DEF FromApp, Enters, person
  <2>5. campaign' # NoLink => member'
    BY <1>4 DEF FromApp, Enters, person
  <2>6. QED BY <2>1, <2>2, <2>3, <2>4, <2>5
<1>5. ASSUME NEW u \in Contacts, FromBot(u) PROVE ContactsFare'
  BY <1>5 DEF FromBot, Enters, AlwaysPasses, person
<1>6. ASSUME NEW u \in Contacts, Approve(u) PROVE ContactsFare'
  BY <1>6 DEF Approve, person
<1>7. ASSUME NEW u \in Contacts, Settle(u) PROVE ContactsFare'
  BY <1>7 DEF Settle, person
<1>8. ASSUME NEW u \in Contacts, BindInviter(u) PROVE ContactsFare'
  BY <1>8 DEF BindInviter, Newcomer
<1>9. ASSUME NEW u \in Contacts, ReadCampaign(u) PROVE ContactsFare'
  BY <1>9 DEF ReadCampaign, person
<1>10. ASSUME NEW u \in Contacts, ReadCode(u) PROVE ContactsFare'
  BY <1>10 DEF ReadCode, person
<1>11. ASSUME NEW u \in Contacts, LockAccount(u) PROVE ContactsFare'
  <2>1. ContactsTyped'
    BY <1>11 DEF LockAccount, RowIsFree, person
  <2>2. Inserts'
    BY <1>11 DEF LockAccount, RowIsFree, person
  <2>3. ASSUME NEW v \in Contacts PROVE Fares(v)'
    BY <1>11 DEF LockAccount, RowIsFree, person
  <2>4. inviter' # NoLink => \E v \in Contacts : Opened(v)'
    BY <1>11 DEF LockAccount, RowIsFree, person
  <2>5. campaign' # NoLink => member'
    BY <1>11 DEF LockAccount, RowIsFree, person
  <2>6. QED BY <2>1, <2>2, <2>3, <2>4, <2>5
<1>12. ASSUME NEW u \in Contacts, LookIntoGroup(u) PROVE ContactsFare'
  <2>1. ContactsTyped'
    <3>1. contact[u] \in ContactShape /\ member \in BOOLEAN
      OBVIOUS
    <3>2. [contact[u] EXCEPT !.at = "seen", !.member = member] \in ContactShape
      BY <3>1
    <3>3. contact' = [contact EXCEPT ![u] = [contact[u] EXCEPT !.at = "seen", !.member = member]]
      BY <1>12 DEF LookIntoGroup
    <3>4. contact' \in [Contacts -> ContactShape]
      BY <3>2, <3>3
    <3>5. QED BY <3>4, <1>12 DEF LookIntoGroup, person
  <2>2. Inserts'
    BY <1>12 DEF LookIntoGroup, person
  <2>3. ASSUME NEW v \in Contacts PROVE Fares(v)'
    BY <1>12 DEF LookIntoGroup, person
  <2>4. inviter' # NoLink => \E v \in Contacts : Opened(v)'
    BY <1>12 DEF LookIntoGroup, person
  <2>5. campaign' # NoLink => member'
    BY <1>12 DEF LookIntoGroup, person
  <2>6. QED BY <2>1, <2>2, <2>3, <2>4, <2>5
<1>13. ASSUME NEW u \in Contacts, JoinGroup(u) PROVE ContactsFare'
  <2>1. ContactsTyped'
    <3>1. contact[u].at = "seen" /\ contact[u].member = member
      BY <1>13 DEF JoinGroup
    <3>2. contact' = [contact EXCEPT ![u].at = "handled"] /\ member' = TRUE
      BY <1>13, <3>1 DEF JoinGroup
    <3>3. contact' \in [Contacts -> ContactShape]
      BY <3>2
    <3>4. QED BY <3>2, <3>3, <1>13 DEF JoinGroup
  <2>2. Inserts'
    BY <1>13 DEF JoinGroup, person
  <2>3. ASSUME NEW v \in Contacts PROVE Fares(v)'
    BY <1>13 DEF JoinGroup, person
  <2>4. inviter' # NoLink => \E v \in Contacts : Opened(v)'
    BY <1>13 DEF JoinGroup, person
  <2>5. campaign' # NoLink => member'
    BY <1>13 DEF JoinGroup, person
  <2>6. QED BY <2>1, <2>2, <2>3, <2>4, <2>5
<1>14. ASSUME NEW u \in Contacts, UpdateLost(u) PROVE ContactsFare'
  <2>1. ContactsTyped'
    <3> DEFINE isNew == contact[u].new /\ contact[u].at # "inserted"
    <3>1. contact[u] \in ContactShape /\ isNew \in BOOLEAN
      OBVIOUS
    <3>2. contact' = [contact EXCEPT ![u] = [contact[u] EXCEPT !.at = "lost", !.new = isNew]]
      BY <1>14 DEF UpdateLost
    <3> HIDE DEF isNew
    <3>3. [contact[u] EXCEPT !.at = "lost", !.new = isNew] \in ContactShape
      BY <3>1
    <3>4. contact' \in [Contacts -> ContactShape]
      BY <3>2, <3>3
    <3>5. QED BY <3>4, <1>14 DEF UpdateLost, person
  <2>2. Inserts'
    BY <1>14 DEF UpdateLost, person
  <2>3. ASSUME NEW v \in Contacts PROVE Fares(v)'
    BY <1>14 DEF UpdateLost, person
  <2>4. inviter' # NoLink => \E v \in Contacts : Opened(v)'
    BY <1>14 DEF UpdateLost, person
  <2>5. campaign' # NoLink => member'
    BY <1>14 DEF UpdateLost, person
  <2>6. QED BY <2>1, <2>2, <2>3, <2>4, <2>5
<1>18. ASSUME NEW u \in Contacts, Announces(u) PROVE ContactsFare'
  <2>1. ContactsTyped'
    BY <1>18 DEF Announces, person
  <2>2. Inserts'
    BY <1>18 DEF Announces, person
  <2>3. ASSUME NEW v \in Contacts PROVE Fares(v)'
    BY <1>18 DEF Announces, person
  <2>4. inviter' # NoLink => \E v \in Contacts : Opened(v)'
    BY <1>18 DEF Announces, person
  <2>5. campaign' # NoLink => member'
    BY <1>18 DEF Announces, person
  <2>6. QED BY <2>1, <2>2, <2>3, <2>4, <2>5
<1>15. CASE GatesTurn
  BY <1>15 DEF GatesTurn, person
<1>16. CASE UNCHANGED arrivalVars
  BY <1>16 DEF arrivalVars
<1>17. QED
  BY <1>1, <1>2, <1>3, <1>4, <1>5, <1>6, <1>7, <1>8, <1>9, <1>10, <1>11, <1>12, <1>13, <1>14,
     <1>15, <1>16, <1>18 DEF ArrivalsNext

(* Steps that open no account and send no event. *)
LEMMA NothingAnnounced ==
  ASSUME ArrivalsInv, hasRow' = hasRow, registered' = registered,
         \A v \in Contacts : contact'[v].new =>
             /\ contact[v].new
             /\ contact'[v].at \in {"cleared", "turned"} => contact[v].at \in {"cleared", "turned"}
             /\ contact[v].at = "inserted" => contact'[v].at = "inserted",
         \A v \in Contacts : contact[v].new /\ contact[v].at \in {"cleared", "turned", "lost"} =>
             contact'[v].new /\ contact'[v].at \in {"cleared", "turned", "lost"}
  PROVE  Announced'
BY DEF ArrivalsInv, Announced, Stands

LEMMA AnnouncedStep == ArrivalsInv /\ [ArrivalsNext]_arrivalVars => Announced'
<1> SUFFICES ASSUME ArrivalsInv, [ArrivalsNext]_arrivalVars PROVE Announced'
  OBVIOUS
<1>0. /\ contact \in [Contacts -> ContactShape]
      /\ \A v \in Contacts : Stands(v, "inserted") <=> inserter = v
      /\ inserter # NoLink => inserter \in Contacts /\ ~hasRow
      /\ NoLink \notin Contacts
      /\ \A v \in Contacts : Fares(v)
  BY ArrivalsAssumption DEF ArrivalsInv, ContactsFare, ContactsTyped, Inserts
<1> DEFINE Same(v) == contact'[v] = contact[v]
<1>1. ASSUME NEW u \in Contacts, hasRow' = hasRow, registered' = registered,
             \A v \in Contacts \ {u} : Same(v),
             contact[u].at \notin {"inserted", "cleared", "turned", "lost"},
             contact'[u].new = contact[u].new, contact'[u].at \notin {"cleared", "turned"}
      PROVE  Announced'
  BY <1>1, NothingAnnounced
<1>2. ASSUME NEW u \in Contacts, ComesIn(u) PROVE Announced'
  <2>1. PICK k, l : contact' = [contact EXCEPT ![u] = [NoContact EXCEPT !.what = k, !.link = l,
                                                                    !.at = "reading"]]
    BY <1>2 DEF ComesIn
  <2>2. contact'[u].new = FALSE /\ contact'[u].at = "reading" /\ \A v \in Contacts \ {u} : Same(v)
    BY <1>0, <2>1 DEF NoContact
  <2>3. contact[u].at = "idle" /\ contact[u].new = FALSE
    BY <1>0, <1>2 DEF ComesIn, Stands, Fares, ContactShape
  <2>4. QED BY <1>1, <1>2, <2>2, <2>3 DEF ComesIn
<1>3. ASSUME NEW u \in Contacts,
             FindAccount(u) \/ Approve(u) \/ Settle(u) \/ BindInviter(u) \/ ReadCampaign(u)
                \/ ReadCode(u) \/ LockAccount(u)
      PROVE  Announced'
  <2>1. contact[u].at \in {"reading", "passed", "attributing"}
        /\ hasRow' = hasRow /\ registered' = registered
    BY <1>3 DEF FindAccount, Approve, Settle, BindInviter, ReadCampaign, ReadCode, LockAccount, Stands
  <2>2. PICK place \in {"known", "inserting", "handled", "attributing", "locked"} : Reaches(u, place)
    BY <1>3 DEF FindAccount, Approve, Settle, BindInviter, ReadCampaign, ReadCode, LockAccount
  <2>3. /\ contact'[u].new = contact[u].new /\ contact'[u].at = place
        /\ \A v \in Contacts \ {u} : Same(v)
    BY <1>0, <2>2 DEF Reaches, ContactShape
  <2>4. QED BY <1>1, <2>1, <2>2, <2>3
<1>4. ASSUME NEW u \in Contacts, LookIntoGroup(u) PROVE Announced'
  <2>1. contact[u].at = "locked" /\ hasRow' = hasRow /\ registered' = registered
    BY <1>4 DEF LookIntoGroup, Stands
  <2>2. /\ contact'[u].new = contact[u].new /\ contact'[u].at = "seen"
        /\ \A v \in Contacts \ {u} : Same(v)
    BY <1>0, <1>4 DEF LookIntoGroup, ContactShape
  <2>3. QED BY <1>1, <2>1, <2>2
<1>5. ASSUME NEW u \in Contacts, JoinGroup(u) PROVE Announced'
  <2>1. contact[u].at = "seen" /\ hasRow' = hasRow /\ registered' = registered
    BY <1>5 DEF JoinGroup, Stands
  <2>2. PICK place \in {"failed", "handled"} : Reaches(u, place)
    BY <1>5 DEF JoinGroup
  <2>3. /\ contact'[u].new = contact[u].new /\ contact'[u].at = place
        /\ \A v \in Contacts \ {u} : Same(v)
    BY <1>0, <2>2 DEF Reaches, ContactShape
  <2>4. QED BY <1>1, <2>1, <2>2, <2>3
<1>6. ASSUME NEW u \in Contacts, UpdateLost(u) PROVE Announced'
  <2>1. hasRow' = hasRow /\ registered' = registered
    BY <1>6 DEF UpdateLost
  <2>2. /\ contact'[u].at = "lost"
        /\ contact'[u].new <=> contact[u].new /\ contact[u].at # "inserted"
        /\ \A v \in Contacts \ {u} : Same(v)
    BY <1>0, <1>6 DEF UpdateLost, ContactShape
  <2>3. QED BY <2>1, <2>2, NothingAnnounced
<1>7. ASSUME NEW u \in Contacts, InsertAccount(u) PROVE Announced'
  <2>1. contact[u].at = "inserting" /\ inserter = NoLink /\ hasRow' = hasRow /\ registered' = registered
    BY <1>7 DEF InsertAccount, Stands
  <2>2. CASE hasRow
    <3>1. /\ contact'[u].new = contact[u].new /\ contact'[u].at = "known"
          /\ \A v \in Contacts \ {u} : Same(v)
      BY <1>0, <1>7, <2>2 DEF InsertAccount, Reaches, LoserGoesOn, ContactShape
    <3>2. QED BY <1>1, <2>1, <3>1
  <2>3. CASE ~hasRow
    <3>1. \A v \in Contacts : ~contact[v].new
      BY <1>0, <2>1, <2>3 DEF ArrivalsInv, Announced
    <3>2. /\ contact'[u].new = TRUE /\ contact'[u].at = "inserted"
          /\ \A v \in Contacts \ {u} : Same(v)
      BY <1>0, <1>7, <2>3 DEF InsertAccount, ContactShape
    <3>3. QED BY <2>1, <2>3, <3>1, <3>2 DEF ArrivalsInv, Announced, Stands
  <2>4. QED BY <2>2, <2>3
<1>8. ASSUME NEW u \in Contacts, FromApp(u) \/ FromBot(u) PROVE Announced'
  <2>1. PICK verdict \in {"cleared", "turned"} : Enters(u, verdict)
    BY <1>8 DEF FromApp, FromBot
  <2>2. /\ contact'[u].new = contact[u].new /\ contact'[u].at = verdict
        /\ \A v \in Contacts \ {u} : Same(v)
    BY <1>0, <2>1 DEF Enters, Reaches, ContactShape
  <2>3. contact[u].at \in {"known", "inserted"} /\ hasRow' = TRUE /\ registered' = registered
    BY <2>1 DEF Enters
  <2>4. CASE contact[u].at = "known"
    <3>1. hasRow /\ ~contact[u].new
      BY <1>0, <2>4 DEF Fares, Stands
    <3>2. QED BY <2>2, <2>3, <2>4, <3>1 DEF ArrivalsInv, Announced, Stands
  <2>5. CASE contact[u].at = "inserted"
    <3>1. ~hasRow /\ contact[u].new
      BY <1>0, <2>5 DEF Fares, Stands
    <3>2. registered = 0
      BY <3>1 DEF ArrivalsInv, Announced
    <3>3. QED BY <2>1, <2>2, <2>3, <2>5, <3>1, <3>2 DEF ArrivalsInv, Announced, Stands
  <2>6. QED BY <2>3, <2>4, <2>5
<1>9. ASSUME NEW u \in Contacts, Announces(u) PROVE Announced'
  <2>1. PICK place \in {"dropped", "handled", "passed"} : Reaches(u, place)
    BY <1>9 DEF Announces
  <2>2. /\ contact'[u].new = contact[u].new /\ contact'[u].at = place
        /\ \A v \in Contacts \ {u} : Same(v)
    BY <1>0, <2>1 DEF Reaches, ContactShape
  <2>3. /\ contact[u].at \in {"cleared", "turned"} /\ hasRow' = hasRow
        /\ registered' = IF contact[u].new THEN registered + 1 ELSE registered
    BY <1>9 DEF Announces
  <2>4. CASE contact[u].new
    <3>1. registered = 0 /\ hasRow
      BY <2>3, <2>4 DEF ArrivalsInv, Announced, Stands
    <3>2. registered' = 1
      BY <2>3, <2>4, <3>1
    <3>3. QED BY <2>1, <2>2, <2>3, <2>4, <3>1, <3>2 DEF ArrivalsInv, Announced, Stands
  <2>5. CASE ~contact[u].new
    <3>1. registered' = registered
      BY <2>3, <2>5
    <3>2. QED BY <2>1, <2>2, <2>3, <2>5, <3>1, NothingAnnounced
  <2>6. QED BY <2>4, <2>5
<1>10. CASE GatesTurn \/ UNCHANGED arrivalVars
  BY <1>10, NothingAnnounced DEF GatesTurn, arrivalVars
<1>11. QED
  BY <1>2, <1>3, <1>4, <1>5, <1>6, <1>7, <1>8, <1>9, <1>10 DEF ArrivalsNext

LEMMA ArrivalsStep == ArrivalsInv /\ [ArrivalsNext]_arrivalVars => ArrivalsInv'
  BY ContactsStep, AnnouncedStep DEF ArrivalsInv

LEMMA ArrivalsHold == ArrivalsInv => NewcomersHold
<1> SUFFICES ASSUME ArrivalsInv PROVE NewcomersHold
  OBVIOUS
<1>1. \A u \in Contacts : contact[u].at \in Places
  BY DEF ArrivalsInv, ContactsFare, ContactsTyped, ContactShape
<1>2. WelcomedOnce
  BY <1>1 DEF ArrivalsInv, Announced, Places, WelcomedOnce
<1>3. FirstTouchCounts
  BY DEF ArrivalsInv, ContactsFare, Opened, FirstTouchCounts
<1>4. ChargesPass
  BY DEF ArrivalsInv, ContactsFare, Fares, Stands, ChargesPass
<1>5. QED BY <1>2, <1>3, <1>4 DEF NewcomersHold

-----------------------------------------------------------------------------
(* Web login: what each request under way may rely on of what it read.     *)

Addresses == Mails \cup {NoMail}
AccountShape == [there : BOOLEAN, mail : Addresses, verified : BOOLEAN, secret : BOOLEAN,
                 telegram : BOOLEAN, verifyToken : BOOLEAN]
VisitShape == [at : {"away", "register", "guest", "newcomer", "attach", "link", "unlink",
                     "confirm", "guess", "spend"},
               who : UserRows \cup {NoRowId}, mail : Addresses,
               by : Identities \cup {NoMail}, guesses : Nat]

DoorsTyped ==
    /\ account \in [UserRows -> AccountShape]
    /\ holder \in [Identities -> UserRows \cup {NoRowId}]
    /\ mailCode \in [UserRows -> [mail : Addresses, guesses : Nat]]
    /\ visit \in [Visits -> VisitShape]
    /\ inside \subseteq UserRows

OneAddressOneAccount ==
    \A x, y \in UserRows : account[x].mail = account[y].mail => x = y \/ account[x].mail = NoMail
ConfirmedIsProved ==
    VerifyMail => \A x \in UserRows : account[x].verified => <<x, account[x].mail>> \in proved

Exists(x) == x \in UserRows /\ account[x].there
NobodyInNowhere ==
    /\ \A x \in UserRows : ~account[x].there => account[x] = Absent
    /\ \A i \in Identities : holder[i] # NoRowId => Exists(holder[i])
    /\ \A x \in inside : Exists(x)

Keeps(x, i) ==
    \/ x \in crossed \/ OthersRemain(x, i)
    \/ account[x].verified \/ account[x].telegram \/ account[x].mail # NoMail
VisitInOrder(q) ==
    LET v == visit[q] IN
    /\ v.at \in {"register", "guest"} => v.mail \in Mails
    /\ v.at \in {"newcomer", "attach", "link", "unlink"} => v.by \in Identities
    /\ v.at \in {"attach", "link", "unlink", "confirm", "guess", "spend"} => Exists(v.who)
    /\ v.at = "unlink" => Keeps(v.who, v.by)

Reachable(x) == WayIn(x) \/ account[x].mail # NoMail \/ x \in crossed

DoorsInv ==
    /\ DoorsTyped
    /\ OneAddressOneAccount
    /\ ConfirmedIsProved
    /\ NobodyInNowhere
    /\ \A q \in Visits : VisitInOrder(q)
    /\ \A x \in UserRows : account[x].there => Reachable(x)

LEMMA DoorsStart == WebLoginInit => DoorsInv
<1> SUFFICES ASSUME WebLoginInit PROVE DoorsInv
  OBVIOUS
<1>1. \A x \in UserRows :
        /\ account[x].mail = NoMail /\ account[x].verified = FALSE
        /\ account[x].there => account[x].telegram
        /\ ~account[x].there => account[x] = Absent
  BY DEF WebLoginInit, Absent
<1>2. account \in [UserRows -> AccountShape]
  BY DEF WebLoginInit, Absent, AccountShape, Addresses
<1>3. DoorsTyped
  BY <1>2 DEF WebLoginInit, DoorsTyped, VisitShape, Away, NoCode, Addresses
<1>4. OneAddressOneAccount /\ ConfirmedIsProved
  BY <1>1 DEF OneAddressOneAccount, ConfirmedIsProved
<1>5. NobodyInNowhere
  BY <1>1 DEF WebLoginInit, NobodyInNowhere
<1>6. \A q \in Visits : VisitInOrder(q)
  BY DEF WebLoginInit, VisitInOrder, Away
<1>7. \A x \in UserRows : account[x].there => Reachable(x)
  BY <1>1 DEF Reachable, WayIn
<1>8. QED BY <1>3, <1>4, <1>5, <1>6, <1>7 DEF DoorsInv

(* Steps that leave the accounts, their holders and the marks alone.       *)
Unmoved == UNCHANGED <<account, holder, crossed>>

LEMMA UnmovedKeeps ==
  ASSUME DoorsInv, Unmoved, proved \subseteq proved',
         DoorsTyped', \A x \in inside' : Exists(x),
         \A r \in Visits : visit'[r] = visit[r] \/ VisitInOrder(r)'
  PROVE  DoorsInv'
<1>1. OneAddressOneAccount' /\ ConfirmedIsProved'
  BY DEF DoorsInv, Unmoved, OneAddressOneAccount, ConfirmedIsProved
<1>2. NobodyInNowhere'
  BY DEF DoorsInv, Unmoved, NobodyInNowhere, Exists
<1>3. \A r \in Visits : VisitInOrder(r)'
  BY DEF DoorsInv, Unmoved, VisitInOrder, Exists, Keeps, OthersRemain
<1>4. \A x \in UserRows : account'[x].there => Reachable(x)'
  BY DEF DoorsInv, Unmoved, Reachable, WayIn
<1>5. QED BY <1>1, <1>2, <1>3, <1>4 DEF DoorsInv

LEMMA ArriveTyped ==
  ASSUME DoorsInv, NEW q \in Visits, NEW r \in VisitShape, Arrive(q, r)
  PROVE  /\ visit' \in [Visits -> VisitShape]
         /\ visit'[q] = r
         /\ \A s \in Visits \ {q} : visit'[s] = visit[s]
  BY DEF DoorsInv, DoorsTyped, Arrive

LEMMA DepartTyped ==
  ASSUME DoorsInv, NEW q \in Visits, Depart(q)
  PROVE  /\ visit' \in [Visits -> VisitShape]
         /\ visit'[q] = Away
         /\ \A s \in Visits \ {q} : visit'[s] = visit[s]
<1>1. Away \in VisitShape
  BY DEF Away, VisitShape, Addresses
<1>2. QED BY <1>1 DEF DoorsInv, DoorsTyped, Depart

LEMMA AwayInOrder == ASSUME NEW q, visit'[q] = Away PROVE VisitInOrder(q)'
  BY DEF VisitInOrder, Away

(* Nobody gets another account's address.                                  *)
LEMMA RefusedKeeps ==
  ASSUME DoorsInv, NEW q \in Visits, Refused(q)
  PROVE  DoorsInv'
<1>1. /\ visit' \in [Visits -> VisitShape] /\ visit'[q] = Away
      /\ \A s \in Visits \ {q} : visit'[s] = visit[s]
  BY DepartTyped DEF Refused
<1>2. VisitInOrder(q)'
  BY <1>1, AwayInOrder
<1>3. DoorsTyped' /\ (\A x \in inside' : Exists(x))
  BY <1>1 DEF Refused, DoorsInv, DoorsTyped, NobodyInNowhere
<1>4. Unmoved /\ proved \subseteq proved'
  BY DEF Refused, Unmoved
<1>5. QED BY <1>1, <1>2, <1>3, <1>4, UnmovedKeeps

LEMMA QuietSteps ==
  ASSUME DoorsInv, NEW x \in UserRows,
         \/ PasswordLogin(x) \/ AutomaticLogin(x) \/ TelegramLogin(x)
         \/ (\E e \in Mails : AskMailCode(x, e)) \/ TooManyGuesses(x)
         \/ (\E i \in Identities : KnownIdentity(i)) \/ CodeExpires
  PROVE  DoorsInv'
<1>1. Unmoved /\ visit' = visit /\ proved' = proved
  BY DEF PasswordLogin, AutomaticLogin, TelegramLogin, AskMailCode, TooManyGuesses, KnownIdentity,
     CodeExpires, Unmoved
<1>2. \A y \in inside' : Exists(y)
  BY DEF DoorsInv, DoorsTyped, NobodyInNowhere, Absent, Exists, PasswordLogin, AutomaticLogin,
     TelegramLogin, TapInBot, AskMailCode, TooManyGuesses, KnownIdentity, CodeExpires
<1>3. mailCode' \in [UserRows -> [mail : Addresses, guesses : Nat]]
  <2>1. NoCode \in [mail : Addresses, guesses : Nat]
    BY DEF NoCode, Addresses
  <2>2. \A e \in Mails : [mail |-> e, guesses |-> 0] \in [mail : Addresses, guesses : Nat]
    BY DEF Addresses
  <2> DEFINE C == [mail : Addresses, guesses : Nat]
  <2>3. mailCode \in [UserRows -> C]
    BY DEF DoorsInv, DoorsTyped
  <2> HIDE DEF C
  <2>4. \/ mailCode' = mailCode
        \/ \E y \in UserRows, c \in C : mailCode' = [mailCode EXCEPT ![y] = c]
    BY <2>1, <2>2 DEF C, PasswordLogin, AutomaticLogin, TelegramLogin, AskMailCode, TooManyGuesses,
       KnownIdentity, CodeExpires
  <2>5. mailCode' \in [UserRows -> C]
    BY <2>3, <2>4
  <2>6. QED BY <2>5 DEF C
<1>4. DoorsTyped'
  BY <1>1, <1>2, <1>3 DEF DoorsInv, DoorsTyped, Unmoved, Exists
<1>5. QED BY <1>1, <1>2, <1>4, UnmovedKeeps

(* A request arrives, having read what it may rely on.                     *)
LEMMA ArriveKeeps ==
  ASSUME DoorsInv, NEW q \in Visits, NEW r \in VisitShape, Arrive(q, r), Unmoved,
         mailCode' = mailCode, inside' = inside, proved' = proved,
         visit'[q] = r => VisitInOrder(q)'
  PROVE  DoorsInv'
<1>1. /\ visit' \in [Visits -> VisitShape] /\ visit'[q] = r
      /\ \A s \in Visits \ {q} : visit'[s] = visit[s]
  BY ArriveTyped
<1>2. DoorsTyped' /\ (\A x \in inside' : Exists(x))
  BY <1>1 DEF DoorsInv, DoorsTyped, NobodyInNowhere, Unmoved
<1>3. QED BY <1>1, <1>2, UnmovedKeeps

LEMMA AskByMailStep ==
  ASSUME DoorsInv, NEW q \in Visits, NEW e \in Mails, AskByMail(q, e)
  PROVE  DoorsInv'
<1>1. PICK kind \in {"register", "guest"} : Arrive(q, [Away EXCEPT !.at = kind, !.mail = e])
  BY DEF AskByMail
<1> DEFINE r == [Away EXCEPT !.at = kind, !.mail = e]
<1>2. r \in VisitShape /\ r.at = kind /\ r.mail = e
  BY DEF Away, VisitShape, Addresses
<1> HIDE DEF r
<1>3. visit'[q] = r => VisitInOrder(q)'
  BY <1>2 DEF VisitInOrder
<1>4. Arrive(q, r)
  BY <1>1 DEF r
<1>5. QED BY <1>2, <1>3, <1>4, ArriveKeeps DEF AskByMail, Unmoved

LEMMA LookUpStep ==
  ASSUME DoorsInv, NEW q \in Visits, NEW i \in Identities, LookUpIdentity(q, i)
  PROVE  DoorsInv'
<1>1. Vouched[i] \in Addresses
  BY UserRowsAssumption DEF Addresses
<1>2. CASE Arrive(q, [Away EXCEPT !.at = "newcomer", !.mail = Vouched[i], !.by = i])
  <2> DEFINE r == [Away EXCEPT !.at = "newcomer", !.mail = Vouched[i], !.by = i]
  <2>1. r \in VisitShape /\ r.at = "newcomer" /\ r.by = i
    BY <1>1 DEF Away, VisitShape, Addresses
  <2> HIDE DEF r
  <2>2. visit'[q] = r => VisitInOrder(q)'
    BY <2>1 DEF VisitInOrder
  <2>3. Arrive(q, r)
    BY <1>2 DEF r
  <2>4. QED BY <2>1, <2>2, <2>3, ArriveKeeps DEF LookUpIdentity, Unmoved
<1>3. ASSUME NEW x \in UserRows, Vouched[i] # NoMail, account[x].mail = Vouched[i],
             Arrive(q, [Away EXCEPT !.at = "attach", !.who = x, !.by = i])
      PROVE  DoorsInv'
  <2> DEFINE r == [Away EXCEPT !.at = "attach", !.who = x, !.by = i]
  <2>1. r \in VisitShape /\ r.at = "attach" /\ r.by = i /\ r.who = x
    BY DEF Away, VisitShape, Addresses
  <2>2. account[x].there
    BY <1>3 DEF DoorsInv, NobodyInNowhere, Absent, DoorsTyped, AccountShape
  <2> HIDE DEF r
  <2>3. visit'[q] = r => VisitInOrder(q)'
    BY <2>1, <2>2 DEF VisitInOrder, Exists, LookUpIdentity
  <2>4. Arrive(q, r)
    BY <1>3 DEF r
  <2>5. QED BY <2>1, <2>3, <2>4, ArriveKeeps DEF LookUpIdentity, Unmoved
<1>4. QED BY <1>2, <1>3 DEF LookUpIdentity

LEMMA AskToLinkStep ==
  ASSUME DoorsInv, NEW q \in Visits, NEW x \in UserRows, NEW i \in Identities, AskToLink(q, x, i)
  PROVE  DoorsInv'
<1>1. Vouched[i] \in Addresses /\ NoMail \in Addresses
  BY UserRowsAssumption DEF Addresses
<1> DEFINE e == IF account[x].mail = NoMail /\ ~Taken(Vouched[i]) THEN Vouched[i] ELSE NoMail
<1> DEFINE r == [Away EXCEPT !.at = "link", !.who = x, !.by = i, !.mail = e]
<1>2. e \in Addresses
  BY <1>1
<1>3. Arrive(q, r)
  BY DEF AskToLink
<1> HIDE DEF e
<1>4. r \in VisitShape /\ r.at = "link" /\ r.by = i /\ r.who = x
  BY <1>2 DEF Away, VisitShape, Addresses
<1> HIDE DEF r
<1>5. account[x].there
  BY DEF DoorsInv, NobodyInNowhere, AskToLink, Exists
<1>6. visit'[q] = r => VisitInOrder(q)'
  BY <1>4, <1>5 DEF VisitInOrder, Exists, AskToLink
<1>7. QED BY <1>3, <1>4, <1>6, ArriveKeeps DEF AskToLink, Unmoved

(* Whoever may unlink an identity has another way in, for the moment.      *)
LEMMA AskToUnlinkStep ==
  ASSUME DoorsInv, NEW q \in Visits, NEW x \in UserRows, NEW i \in Identities, AskToUnlink(q, x, i)
  PROVE  DoorsInv'
<1> DEFINE r == [Away EXCEPT !.at = "unlink", !.who = x, !.by = i]
<1>1. r \in VisitShape /\ r.at = "unlink" /\ r.by = i /\ r.who = x
  BY DEF Away, VisitShape, Addresses
<1>2. Arrive(q, r)
  BY DEF AskToUnlink
<1> HIDE DEF r
<1>3. account[x].there
  BY DEF DoorsInv, NobodyInNowhere, AskToUnlink, Exists
<1>4. Keeps(x, i)
  BY DEF AskToUnlink, MayUnlink, Keeps
<1>5. Exists(x)' /\ Keeps(x, i)'
  BY <1>3, <1>4 DEF AskToUnlink, Exists, Keeps, OthersRemain
<1>6. visit'[q] = r => VisitInOrder(q)'
  BY <1>1, <1>5 DEF VisitInOrder
<1>7. QED BY <1>1, <1>2, <1>6, ArriveKeeps DEF AskToUnlink, Unmoved

LEMMA ReadMailCodeStep ==
  ASSUME DoorsInv, NEW q \in Visits, NEW x \in UserRows, ReadMailCode(q, x)
  PROVE  DoorsInv'
<1>1. mailCode[x] \in [mail : Addresses, guesses : Nat]
  BY DEF DoorsInv, DoorsTyped
<1>2. PICK at \in {"confirm", "guess"} :
        Arrive(q, [Away EXCEPT !.at = at, !.who = x, !.mail = mailCode[x].mail,
                               !.guesses = mailCode[x].guesses])
  BY DEF ReadMailCode
<1> DEFINE r == [Away EXCEPT !.at = at, !.who = x, !.mail = mailCode[x].mail,
                             !.guesses = mailCode[x].guesses]
<1>3. r \in VisitShape /\ r.at = at /\ r.who = x
  BY <1>1 DEF Away, VisitShape, Addresses
<1>4. Arrive(q, r)
  BY <1>2
<1> HIDE DEF r
<1>5. account[x].there
  BY DEF DoorsInv, NobodyInNowhere, ReadMailCode, Exists
<1>6. visit'[q] = r => VisitInOrder(q)'
  BY <1>3, <1>5 DEF VisitInOrder, Exists, ReadMailCode
<1>7. QED BY <1>3, <1>4, <1>6, ArriveKeeps DEF ReadMailCode, Unmoved

(* A code is written back or deleted.                                      *)
LEMMA CodeSteps ==
  ASSUME DoorsInv, NEW q \in Visits, WrongCode(q) \/ SpendCode(q)
  PROVE  DoorsInv'
<1> DEFINE C == [mail : Addresses, guesses : Nat]
<1>1. visit[q] \in VisitShape
  BY DEF DoorsInv, DoorsTyped
<1>2. NoCode \in C /\ [mail |-> visit[q].mail, guesses |-> visit[q].guesses + 1] \in C
  BY <1>1 DEF NoCode, Addresses, VisitShape
<1>3. mailCode \in [UserRows -> C]
  BY DEF DoorsInv, DoorsTyped
<1> HIDE DEF C
<1>4. \E x : \E c \in C : mailCode' = [mailCode EXCEPT ![x] = c]
  <2>1. CASE WrongCode(q)
    <3>1. mailCode' = [mailCode EXCEPT ![visit[q].who] =
                         [mail |-> visit[q].mail, guesses |-> visit[q].guesses + 1]]
      BY <2>1 DEF WrongCode
    <3>2. QED BY <1>2, <3>1
  <2>2. CASE SpendCode(q)
    <3>1. mailCode' = [mailCode EXCEPT ![visit[q].who] = NoCode]
      BY <2>2 DEF SpendCode
    <3>2. QED BY <1>2, <3>1
  <2>3. QED BY <2>1, <2>2
<1>5. mailCode' \in [UserRows -> C]
  BY <1>3, <1>4
<1>6. /\ visit' \in [Visits -> VisitShape] /\ visit'[q] = Away
      /\ \A s \in Visits \ {q} : visit'[s] = visit[s]
  BY DepartTyped DEF WrongCode, SpendCode
<1>7. VisitInOrder(q)'
  BY <1>6, AwayInOrder
<1>8. Unmoved /\ proved' = proved /\ inside' = inside
  BY DEF WrongCode, SpendCode, Unmoved
<1>9. DoorsTyped' /\ (\A x \in inside' : Exists(x))
  BY <1>5, <1>6, <1>8 DEF DoorsInv, DoorsTyped, NobodyInNowhere, Unmoved, C
<1>10. QED BY <1>6, <1>7, <1>8, <1>9, UnmovedKeeps

(* One account is opened or gains an address, a confirmation or an         *)
(* identity that nobody had.                                               *)
Grows(x, r) ==
    /\ account' = [account EXCEPT ![x] = r] /\ r.there
    /\ account[x].there =>
         /\ account[x].verified => r.verified
         /\ account[x].telegram => r.telegram
         /\ account[x].mail # NoMail => r.mail # NoMail \/ r.verified
    /\ r.mail = NoMail \/ ~TakenByOther(r.mail, x)
    /\ VerifyMail /\ r.verified => <<x, r.mail>> \in proved'
    /\ proved \subseteq proved'
    /\ \A j \in Identities : holder'[j] = holder[j] \/ (holder[j] = NoRowId /\ holder'[j] = x)
    /\ inside' \subseteq inside \cup {x}
    /\ UNCHANGED <<mailCode, crossed>>

LEMMA GrowsKeeps ==
  ASSUME DoorsInv, NEW x \in UserRows, NEW r \in AccountShape, Grows(x, r),
         holder' \in [Identities -> UserRows \cup {NoRowId}],
         visit' \in [Visits -> VisitShape],
         \A q \in Visits : visit'[q] = visit[q] \/ VisitInOrder(q)',
         Reachable(x)'
  PROVE  DoorsInv'
<1>1. /\ account'[x] = r /\ r.there
      /\ \A y \in UserRows \ {x} : account'[y] = account[y]
      /\ \A y : Exists(y) => Exists(y)'
      /\ Exists(x)'
  BY DEF Grows, DoorsInv, DoorsTyped, Exists
<1>2. DoorsTyped'
  BY DEF Grows, DoorsInv, DoorsTyped
<1>3. OneAddressOneAccount'
  BY <1>1 DEF Grows, DoorsInv, OneAddressOneAccount, TakenByOther
<1>4. ConfirmedIsProved'
  BY <1>1 DEF Grows, DoorsInv, ConfirmedIsProved
<1>5. NobodyInNowhere'
  <2>1. \A y \in UserRows : ~account'[y].there => account'[y] = Absent
    BY <1>1 DEF DoorsInv, NobodyInNowhere
  <2>2. \A i \in Identities : holder'[i] # NoRowId => Exists(holder[i])'
    BY <1>1 DEF Grows, DoorsInv, NobodyInNowhere, Exists
  <2>3. \A y \in inside' : Exists(y)'
    BY <1>1 DEF Grows, DoorsInv, NobodyInNowhere
  <2>4. QED BY <2>1, <2>2, <2>3 DEF NobodyInNowhere
<1>6. ASSUME NEW y, NEW i, Exists(y), Keeps(y, i) PROVE Keeps(y, i)'
  <2>1. OthersRemain(y, i) => OthersRemain(y, i)'
    BY <1>6, UserRowsAssumption DEF Grows, OthersRemain, Exists
  <2>2. account[y].verified => account'[y].verified
    BY <1>1, <1>6 DEF Grows, Exists
  <2>3. account[y].telegram => account'[y].telegram
    BY <1>1, <1>6 DEF Grows, Exists
  <2>4. account[y].mail # NoMail => account'[y].mail # NoMail \/ account'[y].verified
    BY <1>1, <1>6 DEF Grows, Exists
  <2>5. QED BY <1>6, <2>1, <2>2, <2>3, <2>4 DEF Keeps, Grows
<1>7. ASSUME NEW q \in Visits PROVE VisitInOrder(q)'
  <2>1. CASE visit'[q] = visit[q]
    <3>1. VisitInOrder(q)
      BY DEF DoorsInv
    <3>2. QED BY <1>1, <1>6, <2>1, <3>1 DEF VisitInOrder
  <2>2. QED BY <2>1
<1>8. ASSUME NEW y \in UserRows, account'[y].there PROVE Reachable(y)'
  <2>1. CASE y # x
    <3>1. account'[y] = account[y] /\ Reachable(y)
      BY <1>1, <1>8, <2>1 DEF DoorsInv
    <3>2. \A i \in Identities : holder[i] = y => holder'[i] = y
      BY UserRowsAssumption DEF Grows
    <3>3. crossed' = crossed
      BY DEF Grows
    <3>4. QED BY <3>1, <3>2, <3>3 DEF Reachable, WayIn
  <2>2. QED BY <2>1
<1>9. QED BY <1>2, <1>3, <1>4, <1>5, <1>7, <1>8 DEF DoorsInv

LEMMA CreateByMailStep ==
  ASSUME DoorsInv, NEW q \in Visits, CreateByMail(q)
  PROVE  DoorsInv'
<1> DEFINE v == visit[q]
<1>1. v \in VisitShape /\ v.mail \in Mails
  BY DEF CreateByMail, DoorsInv, DoorsTyped, VisitInOrder
<1>2. PICK x \in UserRows :
        /\ FreeRow(x)
        /\ account' = [account EXCEPT ![x] =
               [Absent EXCEPT !.there = TRUE, !.mail = v.mail,
                  !.verified = BornVerified(v.at), !.secret = v.at = "register",
                  !.verifyToken = VerifyMail /\ v.at = "register"]]
        /\ inside' \subseteq inside \cup {x}
  BY DEF CreateByMail
<1> DEFINE born == BornVerified(v.at)
           asks == v.at = "register"
           waits == VerifyMail /\ v.at = "register"
           r == [Absent EXCEPT !.there = TRUE, !.mail = v.mail, !.verified = born,
                               !.secret = asks, !.verifyToken = waits]
<1>3. born \in BOOLEAN /\ asks \in BOOLEAN /\ waits \in BOOLEAN /\ (VerifyMail => ~born)
  BY DEF BornVerified
<1>4. account' = [account EXCEPT ![x] = r]
  BY <1>2
<1> HIDE DEF born, asks, waits
<1>5. r \in AccountShape /\ r.there /\ r.mail = v.mail /\ r.verified = born
  BY <1>1, <1>3 DEF Absent, AccountShape, Addresses
<1> HIDE DEF r
<1>6. ~account[x].there
  BY <1>2 DEF FreeRow
<1>7. r.mail = NoMail \/ ~TakenByOther(r.mail, x)
  BY <1>5 DEF CreateByMail, Taken, TakenByOther
<1>8. Grows(x, r)
  BY <1>2, <1>3, <1>4, <1>5, <1>6, <1>7 DEF CreateByMail, Grows
<1>9. /\ visit' \in [Visits -> VisitShape] /\ VisitInOrder(q)'
      /\ \A s \in Visits \ {q} : visit'[s] = visit[s]
  BY DepartTyped, AwayInOrder DEF CreateByMail
<1>10. Reachable(x)'
  <2>1. account'[x].mail # NoMail
    BY <1>1, <1>4, <1>5, UserRowsAssumption DEF DoorsInv, DoorsTyped
  <2>2. QED BY <2>1 DEF Reachable
<1>11. holder' \in [Identities -> UserRows \cup {NoRowId}]
  BY DEF CreateByMail, DoorsInv, DoorsTyped
<1>12. QED BY <1>5, <1>8, <1>9, <1>10, <1>11, GrowsKeeps

LEMMA ClickVerifyStep ==
  ASSUME DoorsInv, NEW x \in UserRows, ClickVerify(x)
  PROVE  DoorsInv'
<1> DEFINE r == [account[x] EXCEPT !.verified = TRUE, !.verifyToken = FALSE]
<1>1. account[x] \in AccountShape /\ account[x].there
  BY DEF ClickVerify, DoorsInv, DoorsTyped, NobodyInNowhere, Absent
<1>2. account' = [account EXCEPT ![x] = r]
  BY DEF ClickVerify
<1>3. /\ r \in AccountShape /\ r.there /\ r.mail = account[x].mail /\ r.verified
      /\ r.telegram = account[x].telegram
  BY <1>1 DEF AccountShape
<1> HIDE DEF r
<1>4. r.mail = NoMail \/ ~TakenByOther(r.mail, x)
  BY <1>3 DEF DoorsInv, OneAddressOneAccount, TakenByOther
<1>5. Grows(x, r)
  BY <1>2, <1>3, <1>4 DEF ClickVerify, Grows
<1>6. Reachable(x)'
  BY <1>2, <1>3 DEF Reachable, WayIn, DoorsInv, DoorsTyped
<1>7. visit' = visit /\ visit \in [Visits -> VisitShape]
      /\ holder' \in [Identities -> UserRows \cup {NoRowId}]
  BY DEF ClickVerify, DoorsInv, DoorsTyped
<1>8. QED BY <1>3, <1>5, <1>6, <1>7, GrowsKeeps

(* An identity that nobody had comes to an account.                        *)
LEMMA AttachedTakes ==
  ASSUME DoorsInv, NEW q \in Visits, NEW x \in UserRows, visit[q].by \in Identities, Attached(q, x)
  PROVE  /\ holder' \in [Identities -> UserRows \cup {NoRowId}]
         /\ \A j \in Identities :
              holder'[j] = holder[j] \/ (holder[j] = NoRowId /\ holder'[j] = x)
         /\ \E j \in Identities : holder'[j] = x
         /\ visit' \in [Visits -> VisitShape] /\ VisitInOrder(q)'
         /\ \A s \in Visits \ {q} : visit'[s] = visit[s]
<1>1. Depart(q) /\ holder' = [holder EXCEPT ![visit[q].by] = x] /\ holder[visit[q].by] = NoRowId
  BY DEF Attached
<1>2. /\ visit' \in [Visits -> VisitShape] /\ VisitInOrder(q)'
      /\ \A s \in Visits \ {q} : visit'[s] = visit[s]
  BY <1>1, DepartTyped, AwayInOrder
<1>3. QED BY <1>1, <1>2 DEF DoorsInv, DoorsTyped

LEMMA CreateByIdentityStep ==
  ASSUME DoorsInv, NEW q \in Visits, CreateByIdentity(q)
  PROVE  DoorsInv'
<1> DEFINE v == visit[q]
<1>1. v \in VisitShape /\ v.by \in Identities
  BY DEF CreateByIdentity, DoorsInv, DoorsTyped, VisitInOrder
<1> DEFINE known == v.mail # NoMail
           r == [Absent EXCEPT !.there = TRUE, !.mail = v.mail, !.verified = known]
<1>2. PICK x \in UserRows : FreeRow(x) /\ Attached(q, x) /\ account' = [account EXCEPT ![x] = r]
  BY DEF CreateByIdentity
<1>3. known \in BOOLEAN
  OBVIOUS
<1>4. r.verified = known /\ r \in AccountShape /\ r.there /\ r.mail = v.mail
  <2> HIDE DEF known
  <2>1. QED BY <1>1, <1>3 DEF Absent, AccountShape, VisitShape
<1> HIDE DEF r
<1>5. ~account[x].there
  BY <1>2 DEF FreeRow
<1>6. r.mail = NoMail \/ ~TakenByOther(r.mail, x)
  BY <1>2, <1>4 DEF Attached
<1>7. r.verified => <<x, r.mail>> \in proved'
  BY <1>2, <1>4 DEF Attached
<1>8. proved \subseteq proved' /\ inside' \subseteq inside \cup {x} /\ UNCHANGED <<mailCode, crossed>>
  BY <1>2 DEF Attached
<1>9. /\ holder' \in [Identities -> UserRows \cup {NoRowId}]
      /\ \A j \in Identities :
           holder'[j] = holder[j] \/ (holder[j] = NoRowId /\ holder'[j] = x)
      /\ \E j \in Identities : holder'[j] = x
      /\ visit' \in [Visits -> VisitShape] /\ VisitInOrder(q)'
      /\ \A s \in Visits \ {q} : visit'[s] = visit[s]
  BY <1>1, <1>2, AttachedTakes
<1>10. Grows(x, r)
  BY <1>2, <1>4, <1>5, <1>6, <1>7, <1>8, <1>9 DEF Grows
<1>11. Reachable(x)'
  BY <1>9 DEF Reachable, WayIn
<1>12. QED BY <1>4, <1>9, <1>10, <1>11, GrowsKeeps

LEMMA CommitLinkStep ==
  ASSUME DoorsInv, NEW q \in Visits, CommitLink(q)
  PROVE  DoorsInv'
<1> DEFINE v == visit[q]
<1>a. PICK x \in UserRows : x = v.who
  BY DEF CommitLink, DoorsInv, DoorsTyped, VisitInOrder, Exists
<1> DEFINE r == IF v.mail = NoMail THEN account[x]
                ELSE [account[x] EXCEPT !.mail = v.mail, !.verified = TRUE]
<1>1. v \in VisitShape /\ v.by \in Identities /\ account[x].there /\ account[x] \in AccountShape
  BY <1>a DEF CommitLink, DoorsInv, DoorsTyped, VisitInOrder, Exists
<1>2. Attached(q, x)
  BY <1>a DEF CommitLink
<1>3. account' = [account EXCEPT ![x] = r]
  <2>1. CASE v.mail = NoMail
    <3>1. account' = account /\ r = account[x] /\ account \in [UserRows -> AccountShape]
      BY <2>1, <1>a DEF CommitLink, DoorsInv, DoorsTyped
    <3>2. QED BY <3>1, <1>1
  <2>2. CASE v.mail # NoMail
    BY <2>2, <1>a DEF CommitLink
  <2>3. QED BY <2>1, <2>2
<1>4. /\ r \in AccountShape /\ r.there
      /\ v.mail = NoMail => r = account[x]
      /\ v.mail # NoMail => r.mail = v.mail /\ r.verified
      /\ r.telegram = account[x].telegram
  BY <1>1 DEF AccountShape, VisitShape
<1> HIDE DEF r
<1>5. r.mail = NoMail \/ ~TakenByOther(r.mail, x)
  <2>1. CASE v.mail = NoMail
    BY <1>1, <1>4, <2>1 DEF DoorsInv, OneAddressOneAccount, TakenByOther
  <2>2. CASE v.mail # NoMail
    BY <1>2, <1>4, <2>2 DEF Attached
  <2>3. QED BY <2>1, <2>2
<1>6. VerifyMail /\ r.verified => <<x, r.mail>> \in proved'
  <2>1. CASE v.mail = NoMail
    BY <1>1, <1>2, <1>4, <2>1 DEF DoorsInv, ConfirmedIsProved, Attached
  <2>2. CASE v.mail # NoMail
    BY <1>2, <1>4, <2>2 DEF Attached
  <2>3. QED BY <2>1, <2>2
<1>7. proved \subseteq proved' /\ inside' \subseteq inside \cup {x} /\ UNCHANGED <<mailCode, crossed>>
  BY <1>2 DEF Attached
<1>8. /\ holder' \in [Identities -> UserRows \cup {NoRowId}]
      /\ \A j \in Identities :
           holder'[j] = holder[j] \/ (holder[j] = NoRowId /\ holder'[j] = x)
      /\ \E j \in Identities : holder'[j] = x
      /\ visit' \in [Visits -> VisitShape] /\ VisitInOrder(q)'
      /\ \A s \in Visits \ {q} : visit'[s] = visit[s]
  BY <1>1, <1>2, AttachedTakes
<1>9. Grows(x, r)
  <2>1. /\ account[x].verified => r.verified
        /\ account[x].mail # NoMail => r.mail # NoMail \/ r.verified
    BY <1>4
  <2>2. QED BY <1>3, <1>4, <1>5, <1>6, <1>7, <1>8, <2>1 DEF Grows
<1>10. Reachable(x)'
  BY <1>8 DEF Reachable, WayIn
<1>11. QED BY <1>1, <1>4, <1>8, <1>9, <1>10, GrowsKeeps

LEMMA ConfirmMailStep ==
  ASSUME DoorsInv, NEW q \in Visits, ConfirmMail(q)
  PROVE  DoorsInv'
<1> DEFINE v == visit[q]
<1>a. PICK x \in UserRows : x = v.who
  BY DEF ConfirmMail, DoorsInv, DoorsTyped, VisitInOrder, Exists
<1> DEFINE r == [account[x] EXCEPT !.mail = v.mail, !.verified = TRUE, !.secret = TRUE]
<1>1. v \in VisitShape /\ v.at = "confirm" /\ account[x].there
      /\ account[x] \in AccountShape /\ ~TakenByOther(v.mail, x)
  BY <1>a DEF ConfirmMail, DoorsInv, DoorsTyped, VisitInOrder, Exists
<1>2. account' = [account EXCEPT ![x] = r]
  BY <1>a DEF ConfirmMail
<1>3. /\ r \in AccountShape /\ r.there /\ r.mail = v.mail /\ r.verified
      /\ r.telegram = account[x].telegram
  BY <1>1 DEF AccountShape, VisitShape
<1> HIDE DEF r
<1>4. Grows(x, r)
  BY <1>1, <1>2, <1>3, <1>a DEF ConfirmMail, Grows
<1>5. Reachable(x)'
  <2>1. account'[x] = r
    BY <1>1, <1>2 DEF DoorsInv, DoorsTyped
  <2>2. account'[x].verified
    BY <1>3, <2>1
  <2>3. QED BY <2>2 DEF Reachable, WayIn
<1>6. holder' \in [Identities -> UserRows \cup {NoRowId}]
  BY DEF ConfirmMail, DoorsInv, DoorsTyped
<1>7. /\ visit' = [visit EXCEPT ![q].at = "spend"] /\ visit \in [Visits -> VisitShape]
      /\ visit' \in [Visits -> VisitShape]
  BY <1>1 DEF ConfirmMail, DoorsInv, DoorsTyped, VisitShape
<1>8. visit'[q].at = "spend" /\ visit'[q].who = x /\ (\A s \in Visits \ {q} : visit'[s] = visit[s])
  BY <1>7, <1>a
<1>9. VisitInOrder(q)'
  BY <1>1, <1>2, <1>3, <1>8 DEF VisitInOrder, Exists, DoorsInv, DoorsTyped
<1>10. QED BY <1>1, <1>3, <1>4, <1>5, <1>6, <1>7, <1>8, <1>9, GrowsKeeps

(* An identity leaves: whoever was about to let another one go is marked,  *)
(* and every other account keeps what it had.                              *)
LEMMA CommitUnlinkStep ==
  ASSUME DoorsInv, NEW q \in Visits, CommitUnlink(q)
  PROVE  DoorsInv'
<1>1. PICK x \in UserRows, i \in Identities : x = visit[q].who /\ i = visit[q].by
  BY DEF CommitUnlink, DoorsInv, DoorsTyped, VisitInOrder, Exists
<1>2. visit[q].at = "unlink" /\ Keeps(x, i) /\ Exists(x)
  BY <1>1 DEF CommitUnlink, DoorsInv, VisitInOrder
<1>3. /\ holder' \in [Identities -> UserRows \cup {NoRowId}]
      /\ \A j \in Identities : holder'[j] = holder[j] \/ (j = i /\ holder[j] = x /\ holder'[j] = NoRowId)
  BY <1>1 DEF CommitUnlink, DoorsInv, DoorsTyped
<1>4. /\ visit' \in [Visits -> VisitShape] /\ VisitInOrder(q)'
      /\ \A s \in Visits \ {q} : visit'[s] = visit[s]
  BY DepartTyped, AwayInOrder DEF CommitUnlink
<1>5. /\ UNCHANGED <<account, mailCode, inside, proved>>
      /\ crossed \subseteq crossed'
      /\ (\E r \in Visits \ {q} : visit[r].at = "unlink" /\ visit[r].who = x) => x \in crossed'
  BY <1>1 DEF CommitUnlink
<1>6. DoorsTyped' /\ OneAddressOneAccount' /\ ConfirmedIsProved'
  BY <1>3, <1>4, <1>5 DEF DoorsInv, DoorsTyped, OneAddressOneAccount, ConfirmedIsProved
<1>7. NobodyInNowhere'
  BY <1>3, <1>5, UserRowsAssumption DEF DoorsInv, NobodyInNowhere, Exists
<1>8. ASSUME NEW r \in Visits \ {q} PROVE VisitInOrder(r)'
  <2> DEFINE v == visit[r]
  <2>1. VisitInOrder(r) /\ visit'[r] = visit[r]
    BY <1>4 DEF DoorsInv
  <2>2. ASSUME v.at = "unlink" PROVE Keeps(v.who, v.by)'
    <3>1. PICK y, j : y = v.who /\ j = v.by /\ Keeps(y, j)
      BY <2>1, <2>2 DEF VisitInOrder
    <3>2. CASE y = x
      BY <1>5, <2>1, <2>2, <3>1, <3>2 DEF Keeps
    <3>3. CASE y # x
      <4>1. OthersRemain(y, j) => OthersRemain(y, j)'
        BY <1>3, <3>3 DEF OthersRemain
      <4>2. Keeps(y, j)'
        BY <1>5, <3>1, <4>1 DEF Keeps
      <4>3. QED BY <2>1, <3>1, <4>2
    <3>4. QED BY <3>2, <3>3
  <2>3. QED BY <1>5, <2>1, <2>2 DEF VisitInOrder, Exists
<1>9. ASSUME NEW y \in UserRows, account'[y].there PROVE Reachable(y)'
  <2>1. Reachable(y)
    BY <1>5, <1>9 DEF DoorsInv
  <2>2. CASE y # x
    BY <1>3, <1>5, <2>1, <2>2 DEF Reachable, WayIn
  <2>3. CASE y = x
    <3>1. OthersRemain(x, i) => WayIn(x)'
      BY <1>3 DEF OthersRemain, WayIn
    <3>2. QED BY <1>2, <1>5, <2>3, <3>1 DEF Keeps, Reachable, WayIn
  <2>4. QED BY <2>2, <2>3
<1>10. QED BY <1>4, <1>6, <1>7, <1>8, <1>9 DEF DoorsInv

LEMMA DoorsStep == DoorsInv /\ [WebLoginNext]_loginVars => DoorsInv'
<1> SUFFICES ASSUME DoorsInv, [WebLoginNext]_loginVars PROVE DoorsInv'
  OBVIOUS
<1>1. CASE UNCHANGED loginVars
  <2>1. Unmoved /\ visit' = visit /\ proved' = proved /\ mailCode' = mailCode /\ inside' = inside
    BY <1>1 DEF loginVars, Unmoved
  <2>2. DoorsTyped' /\ (\A x \in inside' : Exists(x))
    BY <2>1 DEF DoorsInv, DoorsTyped, NobodyInNowhere, Unmoved
  <2>3. QED BY <2>1, <2>2, UnmovedKeeps
<1>2. ASSUME NEW q \in Visits, MailRefused(q) \/ IdentityTaken(q) \/ ConfirmTooLate(q)
      PROVE  DoorsInv'
  BY <1>2, RefusedKeeps DEF MailRefused, IdentityTaken, ConfirmTooLate
<1>3. ASSUME NEW x \in UserRows, NEW i \in Identities, NEW q \in Visits,
             AskToLink(q, x, i) \/ AskToUnlink(q, x, i)
      PROVE  DoorsInv'
  BY <1>3, AskToLinkStep, AskToUnlinkStep
<1>4. ASSUME NEW q \in Visits,
             \/ CreateByMail(q) \/ MailRefused(q) \/ CreateByIdentity(q) \/ IdentityTaken(q)
             \/ CommitLink(q) \/ CommitUnlink(q) \/ WrongCode(q) \/ ConfirmMail(q)
             \/ ConfirmTooLate(q) \/ SpendCode(q)
             \/ \E e \in Mails : AskByMail(q, e)
             \/ \E i \in Identities : LookUpIdentity(q, i)
             \/ \E x \in UserRows : ReadMailCode(q, x)
             \/ \E x \in UserRows, i \in Identities : AskToLink(q, x, i) \/ AskToUnlink(q, x, i)
      PROVE  DoorsInv'
  BY <1>2, <1>3, <1>4, CreateByMailStep, CreateByIdentityStep, CommitLinkStep, CommitUnlinkStep,
     ConfirmMailStep, CodeSteps, AskByMailStep, LookUpStep, ReadMailCodeStep
<1>5. ASSUME NEW x \in UserRows,
             \/ ClickVerify(x) \/ PasswordLogin(x) \/ AutomaticLogin(x)
             \/ TooManyGuesses(x) \/ TelegramLogin(x)
             \/ \E e \in Mails : AskMailCode(x, e)
      PROVE  DoorsInv'
  BY <1>5, ClickVerifyStep, QuietSteps
<1>6. ASSUME NEW i \in Identities, KnownIdentity(i) PROVE DoorsInv'
  <2>1. \E x : x \in UserRows
    BY <1>6 DEF KnownIdentity, DoorsInv, DoorsTyped
  <2>2. QED BY <1>6, <2>1, QuietSteps
<1>7. CASE CodeExpires
  <2>1. \E x : x \in UserRows
    BY <1>7 DEF CodeExpires
  <2>2. QED BY <1>7, <2>1, QuietSteps
<1>8. QED BY <1>1, <1>4, <1>5, <1>6, <1>7 DEF WebLoginNext

LEMMA DoorsHold == DoorsInv => DoorsLeadHome
  BY DEF DoorsInv, OneAddressOneAccount, ConfirmedIsProved, Reachable, DoorsLeadHome

-----------------------------------------------------------------------------
(* Hot-reload parameters: what the database means is what was last saved,  *)
(* and what a process still remembers was meant no longer ago than it      *)
(* remembers it.                                                           *)

Switches == {"on", "off"}
Secrets == Words \cup {Empty, Mask}
Settings == [switch : Switches, secret : Words \cup {Empty}]
EditShape == [at : {"idle", "saving", "updating", "inserting", "written"},
              by : Processes \cup {NoEdit.by}, key : {"switch", "secret"},
              raw : Switches \cup Words \cup {Mask, "reset"}]

ConfigTyped ==
    /\ wanted \in Settings
    /\ ago \in [switch : [Switches -> Nat], secret : [Secrets -> Nat]]
    /\ boxKey \in {1, 2}
    /\ edit \in [Handlers -> EditShape]
    /\ DOMAIN memo = Processes

EditInOrder(h) ==
    LET v == edit[h] IN
    v.at # "idle" =>
        /\ v.key = "switch" => v.raw \in Switches \cup {"reset"}
        /\ v.key = "secret" => v.raw \in Words \cup {Mask, "reset"}
        /\ v.at # "saving" => v.raw # Mask

StoredIsWanted ==
    /\ override \in [switch : Switches \cup {"reset"},
                     secret : [box : {0, 1, 2}, word : Words \cup {Empty}]]
    /\ override.secret.box <= boxKey
    /\ Merged = wanted

WantedIsNow == ago.switch[wanted.switch] = 0 /\ ago.secret[wanted.secret] = 0

NoOlder(values, age) == ago.switch[values.switch] <= age /\ ago.secret[values.secret] <= age

CacheShape == [there : BOOLEAN, age : Nat, values : Settings]
Remembered(p) ==
    /\ memo[p] \in CacheShape
    /\ Fresh(p) => NoOlder(memo[p].values, memo[p].age)

ConfigInv ==
    /\ ConfigTyped
    /\ \A h \in Handlers : EditInOrder(h)
    /\ StoredIsWanted
    /\ WantedIsNow
    /\ \A p \in Processes : Remembered(p)

LEMMA ParamsAre ==
    /\ Params = {"switch", "secret"}
    /\ ValuesOf["switch"] = Switches /\ ValuesOf["secret"] = Secrets
    /\ Defaults.switch = "off" /\ Defaults.secret = Empty /\ Defaults \in Settings
  BY DEF Params, ValuesOf, Defaults, Switches, Secrets, Settings

LEMMA NoEditShape == NoEdit \in EditShape /\ NoEdit.at = "idle"
  BY DEF NoEdit, EditShape, Switches

LEMMA ConfigStart == BotConfigInit => ConfigInv
<1> SUFFICES ASSUME BotConfigInit PROVE ConfigInv
  OBVIOUS
<1>1. /\ ago = [k \in {"switch", "secret"} |->
                  [v \in ValuesOf[k] |-> IF v = Defaults[k] THEN 0 ELSE Ttl + 1]]
      /\ wanted = Defaults
  BY ParamsAre DEF BotConfigInit
<1>2. /\ ago.switch = [v \in Switches |-> IF v = "off" THEN 0 ELSE Ttl + 1]
      /\ ago.secret = [v \in Secrets |-> IF v = Empty THEN 0 ELSE Ttl + 1]
      /\ DOMAIN ago = {"switch", "secret"}
  BY <1>1, ParamsAre
<1>3. Ttl \in Nat /\ Ttl + 1 \in Nat
  <2>1. Ttl \in Nat
    BY BotConfigAssumption, Zenon
  <2>2. QED BY <2>1
<1>4. ago.switch \in [Switches -> Nat] /\ ago.secret \in [Secrets -> Nat]
  <2> DEFINE long == Ttl + 1
  <2>1. /\ ago.switch = [v \in Switches |-> IF v = "off" THEN 0 ELSE long]
        /\ ago.secret = [v \in Secrets |-> IF v = Empty THEN 0 ELSE long]
    BY <1>2
  <2>2. long \in Nat
    BY <1>3
  <2> HIDE DEF long
  <2> DEFINE first(v) == IF v = "off" THEN 0 ELSE long
             after(v) == IF v = Empty THEN 0 ELSE long
  <2>3. \A v : first(v) \in Nat /\ after(v) \in Nat
    BY <2>2
  <2>4. ago.switch = [v \in Switches |-> first(v)] /\ ago.secret = [v \in Secrets |-> after(v)]
    BY <2>1
  <2> HIDE DEF first, after
  <2>5. QED BY <2>3, <2>4
<1>5. ago \in [switch : [Switches -> Nat], secret : [Secrets -> Nat]]
  BY <1>1, <1>4
<1>6. ConfigTyped
  BY <1>1, <1>5, ParamsAre, NoEditShape DEF BotConfigInit, ConfigTyped
<1>7. \A h \in Handlers : EditInOrder(h)
  BY NoEditShape DEF BotConfigInit, EditInOrder
<1>8. StoredIsWanted
  <2>1. override.switch = "reset" /\ override.secret = [box |-> 0, word |-> Empty] /\ boxKey = 1
    BY DEF BotConfigInit, Unset
  <2>2. Merged = [switch |-> "off", secret |-> Empty]
    <3>1. override.secret.box # boxKey
      BY <2>1
    <3>2. QED BY <2>1, <3>1, ParamsAre, Zenon DEF Merged
  <2>3. override \in [switch : Switches \cup {"reset"},
                     secret : [box : {0, 1, 2}, word : Words \cup {Empty}]]
    BY DEF BotConfigInit, Unset
  <2>4. QED BY <1>1, <2>1, <2>2, <2>3 DEF StoredIsWanted, Defaults
<1>9. WantedIsNow
  BY <1>1, <1>2, ParamsAre DEF WantedIsNow, Switches, Secrets
<1>10. \A p \in Processes : Remembered(p)
  BY ParamsAre DEF BotConfigInit, Remembered, NoCache, CacheShape, Fresh
<1>11. QED BY <1>6, <1>7, <1>8, <1>9, <1>10 DEF ConfigInv

(* What a handler of a process reads. *)
LEMMA EffectiveIsRecent ==
  ASSUME ConfigInv, NEW p \in Processes
  PROVE  /\ Effective(p) \in Settings
         /\ Fresh(p) => memo[p].age \in Nat /\ memo[p].age <= Ttl
                        /\ NoOlder(Effective(p), memo[p].age)
         /\ ~Fresh(p) => NoOlder(Effective(p), 0)
<1>1. CASE Fresh(p)
  BY <1>1 DEF Effective, Fresh, ConfigInv, Remembered, CacheShape
<1>2. CASE ~Fresh(p)
  <2>1. Effective(p) = wanted
    BY <1>2 DEF Effective, ConfigInv, StoredIsWanted
  <2>2. wanted \in Settings /\ NoOlder(wanted, 0)
    BY DEF ConfigInv, ConfigTyped, WantedIsNow, NoOlder
  <2>3. QED BY <1>2, <2>1, <2>2
<1>3. QED BY <1>1, <1>2

(* A process fills or drops its cache. *)
MemoMoves ==
    /\ DOMAIN memo' = Processes
    /\ \A p \in Processes : memo'[p] = memo[p] \/ memo'[p] = NoCache \/ memo'[p] = Filled(p)

LEMMA MemoKeeps ==
  ASSUME ConfigInv, MemoMoves, NEW p \in Processes, UNCHANGED ago
  PROVE  Remembered(p)'
<1>1. NoOlder(Effective(p), 0) => NoOlder(Effective(p), 0)
  OBVIOUS
<1>2. CASE memo'[p] = memo[p]
  BY <1>2 DEF ConfigInv, Remembered, NoOlder, Fresh
<1>3. CASE memo'[p] = NoCache
  BY <1>3, ParamsAre DEF NoCache, Remembered, CacheShape, Fresh
<1>4. CASE memo'[p] = Filled(p)
  <2>1. /\ memo'[p].values = Effective(p)
        /\ memo'[p].age = IF Fresh(p) THEN memo[p].age ELSE 0
        /\ memo'[p] \in CacheShape
    BY <1>4, EffectiveIsRecent DEF Filled, CacheShape
  <2>2. CASE Fresh(p)
    BY <2>1, <2>2, EffectiveIsRecent DEF Remembered, NoOlder
  <2>3. CASE ~Fresh(p)
    BY <2>1, <2>3, EffectiveIsRecent DEF Remembered, NoOlder
  <2>4. QED BY <2>2, <2>3
<1>5. QED BY <1>2, <1>3, <1>4 DEF MemoMoves

(* Steps that change no row. *)
LEMMA SameRows ==
  ASSUME ConfigInv, MemoMoves, UNCHANGED <<override, boxKey, wanted, ago>>,
         edit' \in [Handlers -> EditShape],
         \A h \in Handlers : edit'[h] = edit[h] \/ EditInOrder(h)'
  PROVE  ConfigInv'
<1>1. ConfigTyped'
  BY DEF ConfigInv, ConfigTyped, MemoMoves
<1>2. \A h \in Handlers : EditInOrder(h)'
  BY DEF ConfigInv, EditInOrder
<1>3. StoredIsWanted' /\ WantedIsNow'
  BY DEF ConfigInv, StoredIsWanted, WantedIsNow, Merged
<1>4. \A p \in Processes : Remembered(p)'
  BY MemoKeeps
<1>5. QED BY <1>1, <1>2, <1>3, <1>4 DEF ConfigInv

(* A handler begins, goes on or gives up. *)
LEMMA EditMoves ==
  ASSUME ConfigInv, NEW h \in Handlers, NEW v \in EditShape, edit' = [edit EXCEPT ![h] = v],
         v.at # "idle" =>
            /\ v.key = "switch" => v.raw \in Switches \cup {"reset"}
            /\ v.key = "secret" => v.raw \in Words \cup {Mask, "reset"}
            /\ v.at # "saving" => v.raw # Mask
  PROVE  /\ edit' \in [Handlers -> EditShape]
         /\ \A g \in Handlers : edit'[g] = edit[g] \/ EditInOrder(g)'
<1>1. edit' \in [Handlers -> EditShape] /\ edit'[h] = v /\ \A g \in Handlers \ {h} : edit'[g] = edit[g]
  BY DEF ConfigInv, ConfigTyped
<1>2. EditInOrder(h)'
  BY <1>1 DEF EditInOrder
<1>3. QED BY <1>1, <1>2

LEMMA GivesUp ==
  ASSUME ConfigInv, NEW h \in Handlers, Abandoned(h)
  PROVE  /\ edit' \in [Handlers -> EditShape]
         /\ \A g \in Handlers : edit'[g] = edit[g] \/ EditInOrder(g)'
  BY EditMoves, NoEditShape DEF Abandoned

LEMMA ReadStep == ASSUME ConfigInv, NEW p \in Processes, Read(p) PROVE ConfigInv'
<1>1. MemoMoves
  BY DEF Read, MemoMoves, ConfigInv, ConfigTyped
<1>2. QED BY <1>1, SameRows DEF Read, ConfigInv, ConfigTyped

LEMMA SaveValueStep ==
  ASSUME ConfigInv, NEW h \in Handlers, NEW p \in Processes, NEW k \in Params,
         NEW raw \in (ValuesOf[k] \ {Empty}) \cup {"reset"}, SaveValue(h, p, k, raw)
  PROVE  ConfigInv'
<1> DEFINE v == [at |-> "saving", by |-> p, key |-> k, raw |-> raw]
<1>1. v \in EditShape /\ v.at = "saving"
      /\ (v.key = "switch" => v.raw \in Switches \cup {"reset"})
      /\ (v.key = "secret" => v.raw \in Words \cup {Mask, "reset"})
  <2>1. CASE k = "switch"
    BY <2>1, ParamsAre DEF EditShape
  <2>2. CASE k = "secret"
    BY <2>2, ParamsAre DEF EditShape, Secrets
  <2>3. QED BY <2>1, <2>2, ParamsAre
<1>2. edit' = [edit EXCEPT ![h] = v]
  BY DEF SaveValue
<1> HIDE DEF v
<1>3. /\ edit' \in [Handlers -> EditShape]
      /\ \A g \in Handlers : edit'[g] = edit[g] \/ EditInOrder(g)'
  BY <1>1, <1>2, EditMoves
<1>4. MemoMoves
  BY DEF SaveValue, MemoMoves, ConfigInv, ConfigTyped
<1>5. QED BY <1>3, <1>4, SameRows DEF SaveValue

LEMMA ToggleStep ==
  ASSUME ConfigInv, NEW h \in Handlers, NEW p \in Processes, Toggle(h, p)
  PROVE  ConfigInv'
<1> DEFINE raw == Turned(Effective(p).switch)
           v == [at |-> "saving", by |-> p, key |-> "switch", raw |-> raw]
<1>1. raw \in Switches
  BY DEF Turned, Switches
<1>2. edit' = [edit EXCEPT ![h] = v]
  BY DEF Toggle
<1> HIDE DEF raw
<1>3. v \in EditShape /\ v.at = "saving" /\ v.raw \in Switches /\ v.key = "switch"
  BY <1>1 DEF EditShape
<1> HIDE DEF v
<1>4. /\ edit' \in [Handlers -> EditShape]
      /\ \A g \in Handlers : edit'[g] = edit[g] \/ EditInOrder(g)'
  BY <1>2, <1>3, EditMoves
<1>5. MemoMoves
  BY DEF Toggle, MemoMoves, ConfigInv, ConfigTyped
<1>6. QED BY <1>4, <1>5, SameRows DEF Toggle

LEMMA FindRowStep == ASSUME ConfigInv, NEW h \in Handlers, FindRow(h) PROVE ConfigInv'
<1>1. MemoMoves
  BY DEF FindRow, MemoMoves, ConfigInv, ConfigTyped
<1>2. UNCHANGED <<override, boxKey, wanted, ago>>
  BY DEF FindRow
<1>3. CASE Abandoned(h)
  BY <1>1, <1>2, <1>3, GivesUp, SameRows
<1>4. CASE ~Abandoned(h)
  <2>1. PICK at \in {"updating", "inserting"} :
          edit[h].raw # Mask /\ edit' = [edit EXCEPT ![h] = [edit[h] EXCEPT !.at = at]]
    BY <1>4 DEF FindRow, Unchanged
  <2> DEFINE v == [edit[h] EXCEPT !.at = at]
  <2>2. edit[h] \in EditShape /\ EditInOrder(h) /\ edit[h].at = "saving"
    BY DEF ConfigInv, ConfigTyped, FindRow
  <2>3. v \in EditShape /\ v.key = edit[h].key /\ v.raw = edit[h].raw
    BY <2>2 DEF EditShape
  <2>4. edit' = [edit EXCEPT ![h] = v]
    BY <2>1
  <2> HIDE DEF v
  <2>5. /\ edit' \in [Handlers -> EditShape]
        /\ \A g \in Handlers : edit'[g] = edit[g] \/ EditInOrder(g)'
    BY <2>1, <2>2, <2>3, <2>4, EditMoves DEF EditInOrder
  <2>6. QED BY <1>1, <1>2, <2>5, SameRows
<1>5. QED BY <1>3, <1>4

LEMMA WriteRowStep == ASSUME ConfigInv, NEW h \in Handlers, WriteRow(h) PROVE ConfigInv'
<1>1. MemoMoves
  BY DEF WriteRow, MemoMoves, ConfigInv, ConfigTyped
<1>2. UNCHANGED <<override, boxKey, wanted, ago>>
  BY DEF WriteRow
<1>3. CASE Abandoned(h)
  BY <1>1, <1>2, <1>3, GivesUp, SameRows
<1>4. CASE ~Abandoned(h)
  <2> DEFINE v == [edit[h] EXCEPT !.at = "written"]
  <2>1. edit' = [edit EXCEPT ![h] = v]
    BY <1>4 DEF WriteRow
  <2>2. edit[h] \in EditShape /\ EditInOrder(h) /\ edit[h].at \in {"updating", "inserting"}
    BY DEF ConfigInv, ConfigTyped, WriteRow
  <2>3. v \in EditShape /\ v.key = edit[h].key /\ v.raw = edit[h].raw
    BY <2>2 DEF EditShape
  <2> HIDE DEF v
  <2>4. /\ edit' \in [Handlers -> EditShape]
        /\ \A g \in Handlers : edit'[g] = edit[g] \/ EditInOrder(g)'
    BY <2>1, <2>2, <2>3, EditMoves DEF EditInOrder
  <2>5. QED BY <1>1, <1>2, <2>4, SameRows
<1>5. QED BY <1>3, <1>4

LEMMA EditFailsStep == ASSUME ConfigInv, NEW h \in Handlers, EditFails(h) PROVE ConfigInv'
<1>1. MemoMoves
  BY DEF EditFails, MemoMoves, ConfigInv, ConfigTyped
<1>2. QED BY <1>1, GivesUp, SameRows DEF EditFails

(* A restart forgets, in memory. *)
LEMMA RestartedMoves ==
  ASSUME ConfigInv, NEW ps, Restarted(ps)
  PROVE  /\ DOMAIN memo' = Processes
         /\ \A p \in Processes : memo'[p] = IF p \in ps THEN NoCache ELSE memo[p]
         /\ edit' \in [Handlers -> EditShape]
         /\ \A h \in Handlers : edit'[h] = edit[h] \/ EditInOrder(h)'
<1>1. /\ DOMAIN memo' = Processes
      /\ \A p \in Processes : memo'[p] = IF p \in ps THEN NoCache ELSE memo[p]
  BY DEF Restarted
<1>2. \A h \in Handlers : edit'[h] = edit[h] \/ edit'[h] = NoEdit
  BY DEF Restarted
<1>3. edit' \in [Handlers -> EditShape]
  BY NoEditShape DEF Restarted, ConfigInv, ConfigTyped
<1>4. QED BY <1>1, <1>2, <1>3, NoEditShape DEF EditInOrder

LEMMA ProcessRestartsStep ==
  ASSUME ConfigInv, NEW p \in Processes, ProcessRestarts(p)
  PROVE  ConfigInv'
<1>1. MemoMoves
  BY RestartedMoves DEF ProcessRestarts, MemoMoves
<1>2. QED BY <1>1, RestartedMoves, SameRows DEF ProcessRestarts

(* The key is another: no secret opens, and none is wanted. *)
LEMMA KeyIsRotatedStep == ASSUME ConfigInv, KeyIsRotated PROVE ConfigInv'
<1>1. /\ \A p \in Processes : memo'[p] = NoCache
      /\ DOMAIN memo' = Processes
      /\ edit' \in [Handlers -> EditShape]
      /\ \A h \in Handlers : edit'[h] = edit[h] \/ EditInOrder(h)'
  BY RestartedMoves DEF KeyIsRotated
<1>2. /\ wanted' = [wanted EXCEPT !.secret = Empty] /\ ago' = [ago EXCEPT !.secret[Empty] = 0]
      /\ boxKey = 1 /\ boxKey' = 2 /\ override' = override
  BY DEF KeyIsRotated
<1>3. /\ wanted' \in Settings /\ wanted'.switch = wanted.switch /\ wanted'.secret = Empty
      /\ ago' \in [switch : [Switches -> Nat], secret : [Secrets -> Nat]]
      /\ ago'.switch = ago.switch /\ ago'.secret = [ago.secret EXCEPT ![Empty] = 0]
  BY <1>2 DEF ConfigInv, ConfigTyped, Settings
<1>4. ConfigTyped'
  BY <1>1, <1>2, <1>3 DEF ConfigTyped
<1>5. \A h \in Handlers : EditInOrder(h)'
  BY <1>1 DEF ConfigInv, EditInOrder
<1>6. StoredIsWanted'
  <2>1. Merged'.switch = Merged.switch /\ Merged'.secret = Empty
    <3>1. override.secret.box # 2
      BY <1>2 DEF ConfigInv, StoredIsWanted
    <3>2. /\ override'.secret.box # boxKey' /\ override' = override
          /\ Defaults.secret = Empty
      BY <1>2, <3>1, ParamsAre
    <3>3. Merged'.secret = Empty
      BY <3>2 DEF Merged
    <3>4. Merged'.switch = Merged.switch
      BY <3>2 DEF Merged
    <3>5. QED BY <3>3, <3>4
  <2>2. Merged' = wanted'
    BY <1>3, <2>1 DEF ConfigInv, StoredIsWanted, Merged, Settings
  <2>3. QED BY <1>2, <2>2 DEF ConfigInv, StoredIsWanted
<1>7. WantedIsNow'
  BY <1>3 DEF ConfigInv, ConfigTyped, WantedIsNow, Secrets, Settings
<1>8. \A p \in Processes : Remembered(p)'
  <2>1. NoCache \in CacheShape /\ ~NoCache.there
    BY ParamsAre DEF NoCache, CacheShape
  <2>2. QED BY <1>1, <2>1 DEF Remembered, Fresh
<1>9. QED BY <1>4, <1>5, <1>6, <1>7, <1>8 DEF ConfigInv

(* The row is committed: what it means from now on is what is wanted.      *)
LEMMA CommitEditStep == ASSUME ConfigInv, NEW h \in Handlers, CommitEdit(h) PROVE ConfigInv'
<1> DEFINE raw == edit[h].raw
<1>1. edit[h] \in EditShape /\ edit[h].at = "written" /\ EditInOrder(h)
  BY DEF CommitEdit, ConfigInv, ConfigTyped
<1>2. raw # Mask
  BY <1>1 DEF EditInOrder
<1>3. /\ override' = [override EXCEPT ![edit[h].key] = RowFor(edit[h].key, raw)]
      /\ wanted' = [wanted EXCEPT ![edit[h].key] = Means(edit[h].key, raw)]
      /\ ago' = [ago EXCEPT ![edit[h].key][Means(edit[h].key, raw)] = 0]
      /\ memo' = memo /\ boxKey' = boxKey
  BY <1>2 DEF CommitEdit
<1>4. /\ edit' \in [Handlers -> EditShape]
      /\ \A g \in Handlers : edit'[g] = edit[g] \/ EditInOrder(g)'
  BY GivesUp DEF CommitEdit
<1>5. /\ override \in [switch : Switches \cup {"reset"},
                       secret : [box : {0, 1, 2}, word : Words \cup {Empty}]]
      /\ override.secret.box <= boxKey /\ boxKey \in {1, 2} /\ Merged = wanted
      /\ wanted \in Settings /\ ago.switch \in [Switches -> Nat] /\ ago.secret \in [Secrets -> Nat]
      /\ ago \in [switch : [Switches -> Nat], secret : [Secrets -> Nat]]
  BY DEF ConfigInv, StoredIsWanted, ConfigTyped
<1>6. /\ wanted' \in Settings /\ StoredIsWanted' /\ WantedIsNow'
      /\ ago' \in [switch : [Switches -> Nat], secret : [Secrets -> Nat]]
      /\ \A v \in Settings, n \in Nat : NoOlder(v, n) => NoOlder(v, n)'
  <2>1. CASE edit[h].key = "switch"
    <3> DEFINE now == Means("switch", raw)
    <3>1. raw \in Switches \cup {"reset"} /\ now \in Switches
          /\ now = (IF raw = "reset" THEN "off" ELSE raw)
      BY <1>1, <2>1, ParamsAre DEF EditInOrder, Means, Switches
    <3>2. /\ override' = [override EXCEPT !.switch = raw] /\ wanted' = [wanted EXCEPT !.switch = now]
          /\ ago' = [ago EXCEPT !.switch[now] = 0]
      BY <1>3, <2>1 DEF RowFor
    <3> HIDE DEF now, raw
    <3>3. /\ override'.switch = raw /\ override'.secret = override.secret
          /\ wanted'.switch = now /\ wanted'.secret = wanted.secret
          /\ ago'.switch = [ago.switch EXCEPT ![now] = 0] /\ ago'.secret = ago.secret
          /\ ago' \in [switch : [Switches -> Nat], secret : [Secrets -> Nat]]
          /\ wanted' \in Settings
          /\ override' \in [switch : Switches \cup {"reset"},
                            secret : [box : {0, 1, 2}, word : Words \cup {Empty}]]
      BY <1>5, <3>1, <3>2 DEF Settings
    <3>4. Merged' = wanted'
      <4>1. Merged'.switch = now /\ Merged'.secret = Merged.secret
        BY <1>3, <3>1, <3>3, ParamsAre DEF Merged
      <4>2. Merged'.switch = wanted'.switch /\ Merged'.secret = wanted'.secret
        BY <1>5, <3>3, <4>1
      <4>3. QED BY <3>3, <4>2 DEF Merged, Settings
    <3>5. WantedIsNow'
      BY <1>5, <3>1, <3>3 DEF ConfigInv, WantedIsNow, Settings
    <3>6. \A v \in Settings, n \in Nat : NoOlder(v, n) => NoOlder(v, n)'
      BY <1>5, <3>1, <3>3 DEF NoOlder, Settings
    <3>7. StoredIsWanted'
      BY <1>3, <1>5, <3>3, <3>4 DEF StoredIsWanted
    <3>8. QED BY <3>3, <3>5, <3>6, <3>7
  <2>2. CASE edit[h].key = "secret"
    <3> DEFINE now == Means("secret", raw)
               row == RowFor("secret", raw)
    <3>1. raw \in Words \cup {"reset"} /\ now \in Words \cup {Empty}
          /\ now = (IF raw = "reset" THEN Empty ELSE raw)
      BY <1>1, <1>2, <2>2, ParamsAre DEF EditInOrder, Means
    <3>2. row = IF raw \in {Empty, "reset"} THEN [box |-> 0, word |-> Empty]
                ELSE [box |-> boxKey, word |-> raw]
      BY DEF RowFor, Unset
    <3>3. /\ row \in [box : {0, 1, 2}, word : Words \cup {Empty}] /\ row.box <= boxKey
          /\ (IF row.box = boxKey THEN row.word ELSE Empty) = now
      <4>1. CASE raw \in {Empty, "reset"}
        BY <1>5, <3>1, <3>2, <4>1
      <4>2. CASE raw \notin {Empty, "reset"}
        BY <1>5, <3>1, <3>2, <4>2
      <4>3. QED BY <4>1, <4>2
    <3>4. /\ override' = [override EXCEPT !.secret = row] /\ wanted' = [wanted EXCEPT !.secret = now]
          /\ ago' = [ago EXCEPT !.secret[now] = 0]
      BY <1>3, <2>2
    <3> HIDE DEF now, raw, row
    <3>5. /\ override'.secret = row /\ override'.switch = override.switch
          /\ wanted'.secret = now /\ wanted'.switch = wanted.switch
          /\ ago'.secret = [ago.secret EXCEPT ![now] = 0] /\ ago'.switch = ago.switch
          /\ ago' \in [switch : [Switches -> Nat], secret : [Secrets -> Nat]]
          /\ wanted' \in Settings
          /\ override' \in [switch : Switches \cup {"reset"},
                            secret : [box : {0, 1, 2}, word : Words \cup {Empty}]]
      BY <1>5, <3>1, <3>3, <3>4 DEF Settings
    <3>6. Merged' = wanted'
      <4>1. Merged'.secret = now /\ Merged'.switch = Merged.switch
        BY <1>3, <3>3, <3>5, ParamsAre DEF Merged
      <4>2. Merged'.switch = wanted'.switch /\ Merged'.secret = wanted'.secret
        BY <1>5, <3>5, <4>1
      <4>3. QED BY <3>5, <4>2 DEF Merged, Settings
    <3>7. now \in Secrets
      BY <3>1 DEF Secrets
    <3>8. WantedIsNow'
      BY <1>5, <3>5, <3>7 DEF ConfigInv, WantedIsNow, Settings
    <3>9. \A v \in Settings, n \in Nat : NoOlder(v, n) => NoOlder(v, n)'
      BY <1>5, <3>5, <3>7 DEF NoOlder, Settings, Secrets
    <3>10. StoredIsWanted'
      BY <1>3, <1>5, <3>3, <3>5, <3>6 DEF StoredIsWanted
    <3>11. QED BY <3>5, <3>8, <3>9, <3>10
  <2>3. QED BY <1>1, <2>1, <2>2 DEF EditShape
<1>7. ConfigTyped'
  BY <1>3, <1>4, <1>6 DEF ConfigInv, ConfigTyped
<1>8. \A g \in Handlers : EditInOrder(g)'
  BY <1>4 DEF ConfigInv, EditInOrder
<1>9. \A p \in Processes : Remembered(p)'
  BY <1>3, <1>6 DEF ConfigInv, Remembered, CacheShape, Fresh
<1>10. QED BY <1>6, <1>7, <1>8, <1>9 DEF ConfigInv

(* A tick later everything is older by a tick, except what is wanted.      *)
LEMMA TickStep == ASSUME ConfigInv, Tick PROVE ConfigInv'
<1> DEFINE later(k, v) == IF v = wanted[k] THEN 0
                          ELSE IF ago[k][v] > Ttl THEN Ttl + 1 ELSE ago[k][v] + 1
<1>1. /\ ago' = [k \in {"switch", "secret"} |-> [v \in ValuesOf[k] |-> later(k, v)]]
      /\ UNCHANGED <<override, boxKey, edit, wanted>>
  BY ParamsAre DEF Tick
<1>2. /\ wanted \in Settings /\ ago.switch \in [Switches -> Nat] /\ ago.secret \in [Secrets -> Nat]
      /\ Ttl \in Nat
  <2>1. Ttl \in Nat
    BY BotConfigAssumption, Zenon
  <2>2. QED BY <2>1 DEF ConfigInv, ConfigTyped
<1>3. /\ \A v \in Switches : later("switch", v) \in Nat
      /\ \A v \in Secrets : later("secret", v) \in Nat
      /\ later("switch", wanted.switch) = 0 /\ later("secret", wanted.secret) = 0
  BY <1>2
<1>4. /\ \A v \in Switches : ago.switch[v] <= Ttl => later("switch", v) <= ago.switch[v] + 1
      /\ \A v \in Secrets : ago.secret[v] <= Ttl => later("secret", v) <= ago.secret[v] + 1
  BY <1>2
<1> HIDE DEF later
<1>5. /\ ago'.switch = [v \in Switches |-> later("switch", v)]
      /\ ago'.secret = [v \in Secrets |-> later("secret", v)]
      /\ DOMAIN ago' = {"switch", "secret"}
  BY <1>1, ParamsAre
<1>6. ago' \in [switch : [Switches -> Nat], secret : [Secrets -> Nat]]
  BY <1>1, <1>3, <1>5
<1>7. ConfigTyped' /\ StoredIsWanted' /\ WantedIsNow'
  <2>1. DOMAIN memo' = Processes
    BY DEF Tick
  <2>2. ConfigTyped'
    BY <1>1, <1>6, <2>1 DEF ConfigInv, ConfigTyped
  <2>3. StoredIsWanted'
    BY <1>1 DEF ConfigInv, StoredIsWanted, Merged
  <2>4. WantedIsNow'
    BY <1>1, <1>2, <1>3, <1>5 DEF WantedIsNow, Settings, Secrets
  <2>5. QED BY <2>2, <2>3, <2>4
<1>8. \A h \in Handlers : EditInOrder(h)'
  BY <1>1 DEF ConfigInv, EditInOrder
<1>9. ASSUME NEW p \in Processes PROVE Remembered(p)'
  <2>1. CASE Fresh(p)
    <3>1. memo'[p] = [memo[p] EXCEPT !.age = @ + 1]
      BY <2>1 DEF Tick
    <3>2. PICK vals \in Settings, age \in Nat :
            /\ vals = memo[p].values /\ age = memo[p].age /\ age <= Ttl /\ NoOlder(vals, age)
            /\ memo[p] \in CacheShape
      BY <2>1 DEF ConfigInv, Remembered, Fresh, CacheShape
    <3>3. memo'[p] \in CacheShape /\ memo'[p].values = vals /\ memo'[p].age = age + 1
      BY <3>1, <3>2 DEF CacheShape
    <3>4. NoOlder(vals, age + 1)'
      BY <1>2, <1>3, <1>4, <1>5, <3>2 DEF NoOlder, Settings, Secrets
    <3>5. QED BY <3>3, <3>4 DEF Remembered
  <2>2. CASE ~Fresh(p)
    <3>1. memo'[p] = memo[p]
      BY <2>2 DEF Tick
    <3>2. QED BY <2>2, <3>1 DEF ConfigInv, Remembered, Fresh
  <2>3. QED BY <2>1, <2>2
<1>10. QED BY <1>7, <1>8, <1>9 DEF ConfigInv

LEMMA ConfigStep == ConfigInv /\ [BotConfigNext]_configVars => ConfigInv'
<1> SUFFICES ASSUME ConfigInv, [BotConfigNext]_configVars PROVE ConfigInv'
  OBVIOUS
<1>1. CASE UNCHANGED configVars
  <2>1. MemoMoves /\ edit' = edit /\ UNCHANGED <<override, boxKey, wanted, ago>>
    BY <1>1 DEF configVars, MemoMoves, ConfigInv, ConfigTyped
  <2>2. QED BY <2>1, SameRows DEF ConfigInv, ConfigTyped
<1>2. QED
  BY <1>1, ReadStep, ProcessRestartsStep, SaveValueStep, ToggleStep, FindRowStep, WriteRowStep,
     CommitEditStep, EditFailsStep, KeyIsRotatedStep, TickStep DEF BotConfigNext

LEMMA ConfigHolds == ConfigInv => ConfigIsRecent
<1> SUFFICES ASSUME ConfigInv, NEW p \in Processes, NEW k \in Params
             PROVE  ago[k][Effective(p)[k]] <= Ttl
  BY DEF ConfigIsRecent
<1>1. Ttl \in Nat
  BY BotConfigAssumption, Zenon
<1>2. /\ Effective(p) \in Settings
      /\ ago.switch \in [Switches -> Nat] /\ ago.secret \in [Secrets -> Nat]
  BY EffectiveIsRecent DEF ConfigInv, ConfigTyped
<1>3. ago.switch[Effective(p).switch] \in Nat /\ ago.secret[Effective(p).secret] \in Nat
  BY <1>2 DEF Settings, Secrets
<1>4. \/ NoOlder(Effective(p), 0)
      \/ memo[p].age \in Nat /\ memo[p].age <= Ttl /\ NoOlder(Effective(p), memo[p].age)
  BY EffectiveIsRecent
<1>5. ago.switch[Effective(p).switch] <= Ttl /\ ago.secret[Effective(p).secret] <= Ttl
  BY <1>1, <1>3, <1>4 DEF NoOlder
<1>6. QED BY <1>5, ParamsAre

-----------------------------------------------------------------------------
(* Broadcasts: while a worker is at one, every chat it set out to write to *)
(* is on its list or in its books.                                         *)

RowShape == [status : {"none", "pending", "running", "done"}, to : Groups \cup {"none"},
             total : Nat, sent : Nat, failed : Nat]
SenderShape == [at : {"rest", "sending", "saving", "marking", "closing", "over", "lost"},
                todo : SUBSET Chats, sent : Nat, failed : Nat, refused : SUBSET Chats]

CastsTyped ==
    /\ cast \in [Casts -> RowShape]
    /\ sender \in [Casts -> SenderShape]
    /\ aim \in [Casts -> SUBSET Chats] /\ heard \in [Casts -> SUBSET Chats]
    /\ draft \in Groups \cup {"none"}
    /\ sendTap \in [SendTaps -> Groups \cup {"none", "done"}]

AtWork(v) == v.at \in {"sending", "saving", "marking", "closing"}

BooksAddUp(v, whom, got) ==
    /\ v.sent + v.failed + Cardinality(v.todo) = Cardinality(whom)
    /\ v.todo \subseteq whom /\ got \subseteq whom /\ got \cap v.todo = {}
    /\ v.sent <= Cardinality(got)

CastInOrder(c) ==
    /\ cast[c].status = "none" => sender[c].at = "rest"
    /\ c \in jobs => sender[c].at = "rest" /\ cast[c].status = "pending"
    /\ sender[c].at = "rest" => cast[c].status \in {"none", "pending"} /\ heard[c] = {}
    /\ AtWork(sender[c]) => cast[c].status = "running" /\ BooksAddUp(sender[c], aim[c], heard[c])
    /\ sender[c].at \in {"marking", "closing", "over"} => sender[c].todo = {}
    /\ sender[c].at \in {"closing", "over"} => sender[c].refused \ returned \subseteq blockedAt
    /\ cast[c].status = "done" =>
         /\ sender[c].at = "over"
         /\ BooksAddUp(sender[c], aim[c], heard[c])
         /\ cast[c].sent = sender[c].sent /\ cast[c].failed = sender[c].failed

CastsInv == CastsTyped /\ \A c \in Casts : CastInOrder(c)

LEMMA ChatsFinite ==
  ASSUME NEW S \in SUBSET Chats
  PROVE  IsFiniteSet(S) /\ Cardinality(S) \in Nat
<1>1. IsFiniteSet(S)
  BY ChatsAssumption, FS_Subset
<1>2. Cardinality(S) \in Nat
  BY <1>1, FS_CardinalityType, Zenon
<1>3. QED BY <1>1, <1>2

LEMMA NobodyIsZero == Cardinality({}) = 0
  BY FS_EmptySet

LEMMA RestShape == AtRest \in SenderShape /\ AtRest.at = "rest"
  BY DEF AtRest, SenderShape

LEMMA CastsStart == BroadcastsInit => CastsInv
<1> SUFFICES ASSUME BroadcastsInit PROVE CastsInv
  OBVIOUS
<1>1. NoRowYet \in RowShape /\ NoRowYet.status = "none"
  BY DEF NoRowYet, RowShape
<1>2. CastsTyped
  BY <1>1, RestShape DEF BroadcastsInit, CastsTyped
<1>3. ASSUME NEW c \in Casts PROVE CastInOrder(c)
  BY <1>1, RestShape DEF BroadcastsInit, CastInOrder, AtWork
<1>4. QED BY <1>2, <1>3 DEF CastsInv

(* Only one broadcast moves at a time, and who comes back stays marked as  *)
(* such.                                                                   *)
OthersStay(c) ==
    \A o \in Casts \ {c} :
        /\ cast'[o] = cast[o] /\ sender'[o] = sender[o] /\ aim'[o] = aim[o] /\ heard'[o] = heard[o]
        /\ o \in jobs' => o \in jobs

LEMMA OthersInOrder ==
  ASSUME CastsInv, NEW c \in Casts, OthersStay(c), CastsTyped', CastInOrder(c)',
         returned' = returned, blockedAt \subseteq blockedAt'
  PROVE  CastsInv'
<1>1. ASSUME NEW o \in Casts \ {c} PROVE CastInOrder(o)'
  <2>1. CastInOrder(o)
    BY DEF CastsInv
  <2>2. /\ cast'[o] = cast[o] /\ sender'[o] = sender[o] /\ aim'[o] = aim[o] /\ heard'[o] = heard[o]
        /\ o \in jobs' => o \in jobs
    BY DEF OthersStay
  <2>3. QED BY <2>1, <2>2 DEF CastInOrder
<1>2. QED BY <1>1 DEF CastsInv

LEMMA NobodyMoves ==
  ASSUME CastsInv, UNCHANGED <<cast, sender, aim, heard, jobs>>,
         draft' \in Groups \cup {"none"}, sendTap' \in [SendTaps -> Groups \cup {"none", "done"}],
         \A u : u \in returned => u \in returned',
         \A u : u \in blockedAt => u \in blockedAt' \/ u \in returned'
  PROVE  CastsInv'
<1>1. CastsTyped'
  BY DEF CastsInv, CastsTyped
<1>2. ASSUME NEW o \in Casts PROVE CastInOrder(o)'
  BY DEF CastsInv, CastInOrder
<1>3. QED BY <1>1, <1>2 DEF CastsInv

(* A row is made. *)
LEMMA MadeKeeps ==
  ASSUME CastsInv, NEW g \in Groups, RoomForRow, cast' = Made(g),
         UNCHANGED <<sender, aim, heard, jobs, returned, blockedAt>>,
         draft' \in Groups \cup {"none"}, sendTap' \in [SendTaps -> Groups \cup {"none", "done"}]
  PROVE  CastsInv'
<1> DEFINE size == Cardinality(In(g))
           r == [NoRowYet EXCEPT !.status = "pending", !.to = g, !.total = size]
<1>1. size \in Nat
  BY ChatsFinite DEF In
<1>2. PICK c \in Casts : c = NextCast /\ cast[c].status = "none"
  BY DEF RoomForRow, NextCast
<1>3. cast' = [cast EXCEPT ![c] = r]
  BY <1>2 DEF Made
<1> HIDE DEF size
<1>4. r \in RowShape /\ r.status = "pending"
  BY <1>1 DEF NoRowYet, RowShape
<1> HIDE DEF r
<1>5. CastsTyped' /\ cast'[c] = r /\ \A o \in Casts \ {c} : cast'[o] = cast[o]
  BY <1>3, <1>4 DEF CastsInv, CastsTyped
<1>6. CastInOrder(c)'
  BY <1>2, <1>4, <1>5 DEF CastsInv, CastInOrder, AtWork
<1>7. OthersStay(c)
  BY <1>5 DEF OthersStay
<1>8. QED BY <1>5, <1>6, <1>7, OthersInOrder

LEMMA KiqStep == ASSUME CastsInv, NEW c \in Casts, Kiq(c) PROVE CastsInv'
<1>1. cast[c].status = "pending" /\ sender[c].at = "rest" /\ sender[c] \in SenderShape
  BY DEF Kiq, CastsInv, CastsTyped
<1>2. CASE jobs' = jobs \cup {c} /\ sender' = sender
  <2>1. CastsTyped' /\ CastInOrder(c)' /\ OthersStay(c) /\ returned' = returned
        /\ blockedAt' = blockedAt
    BY <1>1, <1>2 DEF Kiq, CastsInv, CastsTyped, CastInOrder, OthersStay, AtWork
  <2>2. QED BY <2>1, OthersInOrder
<1>3. CASE jobs' = jobs /\ sender' = [sender EXCEPT ![c].at = "lost"]
  <2>1. CastsTyped'
    BY <1>1, <1>3 DEF Kiq, CastsInv, CastsTyped, SenderShape
  <2>2. sender'[c].at = "lost" /\ \A o \in Casts \ {c} : sender'[o] = sender[o]
    BY <1>1, <1>3 DEF CastsInv, CastsTyped, SenderShape
  <2>3. CastInOrder(c)' /\ OthersStay(c) /\ returned' = returned /\ blockedAt' = blockedAt
    BY <1>1, <1>3, <2>2 DEF Kiq, CastsInv, CastInOrder, OthersStay, AtWork
  <2>4. QED BY <2>1, <2>3, OthersInOrder
<1>4. QED BY <1>2, <1>3 DEF Kiq

LEMMA StartSendingStep == ASSUME CastsInv, NEW c \in Casts, StartSending(c) PROVE CastsInv'
<1> DEFINE whom == In(cast[c].to)
           at == IF whom = {} THEN "marking" ELSE "sending"
           v == [AtRest EXCEPT !.todo = whom, !.at = at]
<1>1. whom \in SUBSET Chats
  BY DEF In
<1>2. /\ c \in jobs /\ jobs' = jobs \ {c}
      /\ cast' = [cast EXCEPT ![c].status = "running"]
      /\ aim' = [aim EXCEPT ![c] = whom]
      /\ sender' = [sender EXCEPT ![c] = v]
      /\ UNCHANGED <<returned, blockedAt, draft, sendTap, heard>>
  BY DEF StartSending
<1>3. at \in {"marking", "sending"} /\ (at = "marking" => whom = {})
  OBVIOUS
<1> HIDE DEF whom, at
<1>4. v \in SenderShape /\ v.at = at /\ v.todo = whom /\ v.sent = 0 /\ v.failed = 0
  BY <1>1, <1>3 DEF AtRest, SenderShape
<1> HIDE DEF v
<1>5. /\ cast[c] \in RowShape /\ cast' \in [Casts -> RowShape]
      /\ cast'[c].status = "running"
      /\ sender' \in [Casts -> SenderShape] /\ aim' \in [Casts -> SUBSET Chats]
      /\ sender'[c] = v /\ aim'[c] = whom
  BY <1>1, <1>2, <1>4 DEF CastsInv, CastsTyped, RowShape
<1>6. heard'[c] = {}
  BY <1>2 DEF CastsInv, CastInOrder
<1>7. BooksAddUp(v, whom, {})
  <2>1. Cardinality(whom) \in Nat /\ Cardinality({}) = 0
    BY <1>1, ChatsFinite, NobodyIsZero
  <2>2. QED BY <1>4, <2>1 DEF BooksAddUp
<1>8. CastsTyped'
  BY <1>2, <1>5 DEF CastsInv, CastsTyped
<1>9. OthersStay(c)
  BY <1>2 DEF OthersStay, CastsInv, CastsTyped
<1>10. CastInOrder(c)'
  BY <1>2, <1>3, <1>4, <1>5, <1>6, <1>7 DEF CastInOrder, AtWork
<1>11. QED BY <1>2, <1>8, <1>9, <1>10, OthersInOrder

(* One chat less to write to, one more in the books.                       *)
LEMMA OneChatLess ==
  ASSUME NEW v \in SenderShape, NEW w \in SenderShape, NEW whom \in SUBSET Chats,
         NEW got \in SUBSET Chats, NEW now \in SUBSET Chats,
         BooksAddUp(v, whom, got), NEW u \in v.todo, w.todo = v.todo \ {u},
         \/ w.sent = v.sent + 1 /\ w.failed = v.failed /\ now = got \cup {u}
         \/ w.sent = v.sent /\ w.failed = v.failed + 1 /\ now \in {got, got \cup {u}}
  PROVE  BooksAddUp(w, whom, now)
<1>1. v.todo \in SUBSET Chats /\ w.todo \in SUBSET Chats /\ u \notin got
  BY DEF SenderShape, BooksAddUp
<1>2. IsFiniteSet(v.todo) /\ IsFiniteSet(got)
  BY <1>1, ChatsFinite
<1>3. Cardinality(w.todo) = Cardinality(v.todo) - 1
  <2>1. Cardinality(v.todo \ {u}) = Cardinality(v.todo) - 1
    BY <1>2, FS_RemoveElement
  <2>2. QED BY <2>1
<1>4. Cardinality(got \cup {u}) = Cardinality(got) + 1
  BY <1>1, <1>2, FS_AddElement
<1>5. PICK m, n, k \in Nat : m = Cardinality(v.todo) /\ n = Cardinality(got) /\ k = Cardinality(whom)
  BY <1>1, ChatsFinite
<1>6. v.sent \in Nat /\ v.failed \in Nat
  BY DEF SenderShape
<1>7. w.sent + w.failed + Cardinality(w.todo) = Cardinality(whom) /\ w.sent <= Cardinality(now)
  <2>1. Cardinality(w.todo) = m - 1
    BY <1>3, <1>5
  <2>2. Cardinality(got \cup {u}) = n + 1
    BY <1>4, <1>5
  <2>3. v.sent + v.failed + m = k /\ v.sent <= n
    BY <1>5 DEF BooksAddUp
  <2>4. CASE w.sent = v.sent + 1 /\ w.failed = v.failed /\ now = got \cup {u}
    BY <1>5, <1>6, <2>1, <2>2, <2>3, <2>4
  <2>5. CASE w.sent = v.sent /\ w.failed = v.failed + 1 /\ now \in {got, got \cup {u}}
    <3>1. Cardinality(now) \in {n, n + 1}
      BY <1>5, <2>2, <2>5
    <3>2. QED BY <1>5, <1>6, <2>1, <2>3, <2>5, <3>1
  <2>6. QED BY <2>4, <2>5
<1>8. QED BY <1>1, <1>7 DEF BooksAddUp

LEMMA WentShape ==
  ASSUME CastsInv, NEW c \in Casts, NEW u \in Chats, NEW w,
         w \in {Sent(sender[c], u), Failed(sender[c], u), Stopped(sender[c], u)}, Went(c, w)
  PROVE  /\ sender' \in [Casts -> SenderShape]
         /\ \A o \in Casts \ {c} : sender'[o] = sender[o]
         /\ sender'[c].at \in {"saving", "sending"}
         /\ sender'[c].todo = sender[c].todo \ {u}
         /\ w = Sent(sender[c], u) =>
               sender'[c].sent = sender[c].sent + 1 /\ sender'[c].failed = sender[c].failed
         /\ w # Sent(sender[c], u) =>
               sender'[c].sent = sender[c].sent /\ sender'[c].failed = sender[c].failed + 1
<1> DEFINE v == sender[c]
<1>1. v \in SenderShape
  BY DEF CastsInv, CastsTyped
<1>2. /\ w \in SenderShape /\ w.todo = v.todo \ {u}
      /\ w = Sent(v, u) => w.sent = v.sent + 1 /\ w.failed = v.failed
      /\ w # Sent(v, u) => w.sent = v.sent /\ w.failed = v.failed + 1
  <2>1. v.sent \in Nat /\ v.sent + 1 \in Nat /\ v.failed + 1 \in Nat /\ v.sent # v.sent + 1
    BY <1>1 DEF SenderShape
  <2> DEFINE more == v.sent + 1
             worse == v.failed + 1
             left == v.todo \ {u}
             those == v.refused \cup {u}
  <2>2. left \in SUBSET Chats /\ those \in SUBSET Chats
    BY <1>1 DEF SenderShape
  <2>3. /\ Sent(v, u) = [v EXCEPT !.todo = left, !.sent = more]
        /\ Failed(v, u) = [v EXCEPT !.todo = left, !.failed = worse]
    BY DEF Sent, Failed
  <2>4. Stopped(v, u) = [[v EXCEPT !.todo = left, !.failed = worse] EXCEPT !.refused = those]
    BY <1>1 DEF Stopped, Failed, SenderShape
  <2>5. more \in Nat /\ worse \in Nat /\ v.sent # more
    BY <2>1
  <2> HIDE DEF more, worse, left, those
  <2>6. /\ Sent(v, u) \in SenderShape /\ Sent(v, u).todo = left /\ Sent(v, u).sent = more
        /\ Sent(v, u).failed = v.failed
    BY <1>1, <2>2, <2>3, <2>5 DEF SenderShape
  <2>7. /\ Failed(v, u) \in SenderShape /\ Failed(v, u).todo = left /\ Failed(v, u).sent = v.sent
        /\ Failed(v, u).failed = worse
    BY <1>1, <2>2, <2>3, <2>5 DEF SenderShape
  <2>8. /\ Stopped(v, u) \in SenderShape /\ Stopped(v, u).todo = left
        /\ Stopped(v, u).sent = v.sent /\ Stopped(v, u).failed = worse
    BY <1>1, <2>2, <2>4, <2>5 DEF SenderShape
  <2>9. Sent(v, u) # Failed(v, u) /\ Sent(v, u) # Stopped(v, u)
    BY <2>5, <2>6, <2>7, <2>8
  <2>10. QED BY <2>6, <2>7, <2>8, <2>9 DEF left, more, worse
<1> DEFINE at == IF (w.sent + w.failed) % BatchSize = 0 \/ w.todo = {} THEN "saving" ELSE "sending"
<1>3. at \in {"saving", "sending"} /\ sender' = [sender EXCEPT ![c] = [w EXCEPT !.at = at]]
  BY DEF Went, Saved
<1> HIDE DEF at
<1>4. [w EXCEPT !.at = at] \in SenderShape
  BY <1>2, <1>3 DEF SenderShape
<1>5. sender' \in [Casts -> SenderShape] /\ sender'[c] = [w EXCEPT !.at = at]
      /\ \A o \in Casts \ {c} : sender'[o] = sender[o]
  BY <1>3, <1>4 DEF CastsInv, CastsTyped
<1>6. sender'[c].at = at /\ sender'[c].todo = w.todo /\ sender'[c].sent = w.sent
      /\ sender'[c].failed = w.failed
  BY <1>2, <1>5 DEF SenderShape
<1>7. QED BY <1>2, <1>3, <1>5, <1>6

LEMMA SendOneStep == ASSUME CastsInv, NEW c \in Casts, SendOne(c) PROVE CastsInv'
<1> DEFINE v == sender[c]
<1>1. v \in SenderShape /\ v.at = "sending" /\ aim[c] \in SUBSET Chats /\ heard[c] \in SUBSET Chats
      /\ BooksAddUp(v, aim[c], heard[c]) /\ cast[c].status = "running"
  BY DEF SendOne, CastsInv, CastsTyped, CastInOrder, AtWork
<1>2. PICK u \in v.todo :
        \/ Went(c, Sent(v, u)) /\ heard' = [heard EXCEPT ![c] = @ \cup {u}]
        \/ Went(c, Stopped(v, u)) /\ heard' = heard
        \/ Went(c, Failed(v, u)) /\ (heard' = heard \/ heard' = [heard EXCEPT ![c] = @ \cup {u}])
  BY DEF SendOne, GaveUp
<1>3. u \in Chats
  BY <1>1 DEF SenderShape
<1>4. Sent(v, u) # Stopped(v, u) /\ Sent(v, u) # Failed(v, u)
  <2>1. Sent(v, u).sent = v.sent + 1 /\ Stopped(v, u).sent = v.sent /\ Failed(v, u).sent = v.sent
        /\ v.sent \in Nat
    BY <1>1 DEF SenderShape, Sent, Failed, Stopped
  <2>2. QED BY <2>1
<1>5. /\ sender' \in [Casts -> SenderShape]
      /\ \A o \in Casts \ {c} : sender'[o] = sender[o]
      /\ sender'[c].at \in {"saving", "sending"}
      /\ sender'[c].todo = v.todo \ {u}
      /\ \/ /\ sender'[c].sent = v.sent + 1 /\ sender'[c].failed = v.failed
            /\ heard' = [heard EXCEPT ![c] = @ \cup {u}]
         \/ /\ sender'[c].sent = v.sent /\ sender'[c].failed = v.failed + 1
            /\ heard' = heard \/ heard' = [heard EXCEPT ![c] = @ \cup {u}]
  <2>1. CASE Went(c, Sent(v, u)) /\ heard' = [heard EXCEPT ![c] = @ \cup {u}]
    BY <1>3, <2>1, WentShape
  <2>2. CASE Went(c, Stopped(v, u)) /\ heard' = heard
    BY <1>3, <1>4, <2>2, WentShape
  <2>3. CASE /\ Went(c, Failed(v, u))
             /\ heard' = heard \/ heard' = [heard EXCEPT ![c] = @ \cup {u}]
    BY <1>3, <1>4, <2>3, WentShape
  <2>4. QED BY <1>2, <2>1, <2>2, <2>3
<1>6. heard' \in [Casts -> SUBSET Chats] /\ (\A o \in Casts \ {c} : heard'[o] = heard[o])
  BY <1>3, <1>5 DEF CastsInv, CastsTyped
<1>7. BooksAddUp(sender'[c], aim[c], heard'[c])
  <2>1. sender'[c] \in SenderShape /\ heard'[c] \in SUBSET Chats
    BY <1>5, <1>6
  <2>2. /\ heard' = heard => heard'[c] = heard[c]
        /\ heard' = [heard EXCEPT ![c] = @ \cup {u}] => heard'[c] = heard[c] \cup {u}
    BY DEF CastsInv, CastsTyped
  <2>3. QED BY <1>1, <1>5, <2>1, <2>2, OneChatLess
<1>8. UNCHANGED <<cast, jobs, aim, returned, blockedAt, draft, sendTap>>
  BY DEF SendOne
<1>9. CastsTyped'
  BY <1>5, <1>6, <1>8 DEF CastsInv, CastsTyped
<1>10. CastInOrder(c)'
  <2>1. CastInOrder(c)
    BY DEF CastsInv
  <2>2. BooksAddUp(sender[c], aim[c], heard[c])'
    BY <1>7, <1>8
  <2>3. QED BY <1>1, <1>5, <1>8, <2>1, <2>2 DEF CastInOrder, AtWork
<1>11. OthersStay(c)
  BY <1>5, <1>6, <1>8 DEF OthersStay
<1>12. QED BY <1>8, <1>9, <1>10, <1>11, OthersInOrder

LEMMA SaveProgressStep == ASSUME CastsInv, NEW c \in Casts, SaveProgress(c) PROVE CastsInv'
<1> DEFINE v == sender[c]
           at == IF v.todo # {} THEN "sending" ELSE "marking"
<1>1. /\ v \in SenderShape /\ v.at = "saving" /\ cast[c] \in RowShape /\ CastInOrder(c)
      /\ at \in {"sending", "marking"} /\ (at = "marking" => v.todo = {})
  BY DEF SaveProgress, CastsInv, CastsTyped
<1>2. /\ cast' = [cast EXCEPT ![c].sent = v.sent, ![c].failed = v.failed]
      /\ sender' = [sender EXCEPT ![c].at = at]
      /\ UNCHANGED <<jobs, aim, heard, returned, blockedAt, draft, sendTap>>
  BY DEF SaveProgress
<1> HIDE DEF at
<1>3. /\ cast' \in [Casts -> RowShape] /\ cast'[c].status = cast[c].status
      /\ \A o \in Casts \ {c} : cast'[o] = cast[o]
  BY <1>1, <1>2 DEF CastsInv, CastsTyped, RowShape, SenderShape
<1>4. /\ sender' \in [Casts -> SenderShape] /\ sender'[c].at = at /\ sender'[c].todo = v.todo
      /\ sender'[c].sent = v.sent /\ sender'[c].failed = v.failed
      /\ \A o \in Casts \ {c} : sender'[o] = sender[o]
  BY <1>1, <1>2 DEF CastsInv, CastsTyped, SenderShape
<1>5. CastsTyped' /\ OthersStay(c)
  BY <1>2, <1>3, <1>4 DEF CastsInv, CastsTyped, OthersStay
<1>6. CastInOrder(c)'
  BY <1>1, <1>2, <1>3, <1>4 DEF CastInOrder, AtWork, BooksAddUp
<1>7. QED BY <1>2, <1>5, <1>6, OthersInOrder

LEMMA MarkBlockedStep == ASSUME CastsInv, NEW c \in Casts, MarkBlocked(c) PROVE CastsInv'
<1> DEFINE v == sender[c]
<1>1. v \in SenderShape /\ v.at = "marking" /\ CastInOrder(c)
  BY DEF MarkBlocked, CastsInv, CastsTyped
<1>2. /\ sender' = [sender EXCEPT ![c].at = "closing"]
      /\ blockedAt' = blockedAt \cup v.refused
      /\ UNCHANGED <<cast, jobs, aim, heard, returned, draft, sendTap>>
  BY DEF MarkBlocked
<1>3. /\ sender' \in [Casts -> SenderShape] /\ sender'[c].at = "closing" /\ sender'[c].todo = v.todo
      /\ sender'[c].sent = v.sent /\ sender'[c].failed = v.failed /\ sender'[c].refused = v.refused
      /\ \A o \in Casts \ {c} : sender'[o] = sender[o]
  BY <1>1, <1>2 DEF CastsInv, CastsTyped, SenderShape
<1>4. CastsTyped' /\ OthersStay(c)
  BY <1>2, <1>3 DEF CastsInv, CastsTyped, OthersStay
<1>5. CastInOrder(c)'
  BY <1>1, <1>2, <1>3 DEF CastInOrder, AtWork, BooksAddUp
<1>6. QED BY <1>2, <1>4, <1>5, OthersInOrder

LEMMA CloseCastStep == ASSUME CastsInv, NEW c \in Casts, CloseCast(c) PROVE CastsInv'
<1> DEFINE v == sender[c]
<1>1. v \in SenderShape /\ v.at = "closing" /\ CastInOrder(c) /\ cast[c] \in RowShape
  BY DEF CloseCast, CastsInv, CastsTyped
<1>2. /\ cast' = [cast EXCEPT ![c] = [cast[c] EXCEPT !.status = "done", !.sent = v.sent,
                                                     !.failed = v.failed]]
      /\ sender' = [sender EXCEPT ![c].at = "over"]
      /\ UNCHANGED <<jobs, aim, heard, returned, blockedAt, draft, sendTap>>
  BY DEF CloseCast
<1>3. /\ cast' \in [Casts -> RowShape] /\ cast'[c].status = "done" /\ cast'[c].sent = v.sent
      /\ cast'[c].failed = v.failed
      /\ \A o \in Casts \ {c} : cast'[o] = cast[o]
  BY <1>1, <1>2 DEF CastsInv, CastsTyped, RowShape, SenderShape
<1>4. /\ sender' \in [Casts -> SenderShape] /\ sender'[c].at = "over" /\ sender'[c].todo = v.todo
      /\ sender'[c].sent = v.sent /\ sender'[c].failed = v.failed /\ sender'[c].refused = v.refused
      /\ \A o \in Casts \ {c} : sender'[o] = sender[o]
  BY <1>1, <1>2 DEF CastsInv, CastsTyped, SenderShape
<1>5. CastsTyped' /\ OthersStay(c)
  BY <1>2, <1>3, <1>4 DEF CastsInv, CastsTyped, OthersStay
<1>6. CastInOrder(c)'
  BY <1>1, <1>2, <1>3, <1>4 DEF CastInOrder, AtWork, BooksAddUp
<1>7. QED BY <1>2, <1>5, <1>6, OthersInOrder

LEMMA SenderDiesStep == ASSUME CastsInv, NEW c \in Casts, SenderDies(c) PROVE CastsInv'
<1>1. AtWork(sender[c]) /\ sender[c] \in SenderShape /\ CastInOrder(c)
  BY DEF SenderDies, CastsInv, CastsTyped, AtWork
<1>2. /\ sender' = [sender EXCEPT ![c].at = "lost"]
      /\ UNCHANGED <<cast, jobs, aim, heard, returned, blockedAt, draft, sendTap>>
  BY DEF SenderDies
<1>3. /\ sender' \in [Casts -> SenderShape] /\ sender'[c].at = "lost"
      /\ \A o \in Casts \ {c} : sender'[o] = sender[o]
  BY <1>1, <1>2 DEF CastsInv, CastsTyped, SenderShape
<1>4. CastsTyped' /\ OthersStay(c)
  BY <1>2, <1>3 DEF CastsInv, CastsTyped, OthersStay
<1>5. CastInOrder(c)'
  BY <1>1, <1>2, <1>3 DEF CastInOrder, AtWork
<1>6. QED BY <1>2, <1>4, <1>5, OthersInOrder

LEMMA SendFromFormStep == ASSUME CastsInv, NEW t \in SendTaps, SendFromForm(t) PROVE CastsInv'
<1>1. sendTap[t] \in Groups
  BY DEF SendFromForm, CastsInv, CastsTyped
<1>2. /\ draft' \in Groups \cup {"none"} /\ sendTap' \in [SendTaps -> Groups \cup {"none", "done"}]
      /\ UNCHANGED <<sender, aim, heard, jobs, returned, blockedAt>> /\ RoomForRow
  BY DEF SendFromForm, CastsInv, CastsTyped
<1>3. CASE In(sendTap[t]) = {}
  <2>1. cast' = cast
    BY <1>3 DEF SendFromForm
  <2>2. QED BY <1>2, <2>1, NobodyMoves
<1>4. CASE In(sendTap[t]) # {}
  <2>1. cast' = Made(sendTap[t])
    BY <1>4 DEF SendFromForm
  <2>2. QED BY <1>1, <1>2, <2>1, MadeKeeps
<1>5. QED BY <1>3, <1>4

LEMMA CastsStep == CastsInv /\ [BroadcastsNext]_castVars => CastsInv'
<1> SUFFICES ASSUME CastsInv, [BroadcastsNext]_castVars PROVE CastsInv'
  OBVIOUS
<1>1. draft \in Groups \cup {"none"} /\ sendTap \in [SendTaps -> Groups \cup {"none", "done"}]
  BY DEF CastsInv, CastsTyped
<1>2. ASSUME NEW g \in Groups, Create(g) PROVE CastsInv'
  <2>1. /\ draft' \in Groups \cup {"none"} /\ sendTap' \in [SendTaps -> Groups \cup {"none", "done"}]
        /\ UNCHANGED <<sender, aim, heard, jobs, returned, blockedAt>> /\ RoomForRow /\ cast' = Made(g)
    BY <1>1, <1>2 DEF Create
  <2>2. QED BY <2>1, MadeKeeps
<1>3. ASSUME NEW g \in Groups, Compose(g) PROVE CastsInv'
  <2>1. /\ draft' \in Groups \cup {"none"} /\ sendTap' \in [SendTaps -> Groups \cup {"none", "done"}]
        /\ UNCHANGED <<cast, sender, aim, heard, jobs, returned, blockedAt>>
    BY <1>1, <1>3 DEF Compose
  <2>2. QED BY <2>1, NobodyMoves
<1>4. ASSUME NEW t \in SendTaps, TapSend(t) PROVE CastsInv'
  <2>1. /\ draft' \in Groups \cup {"none"} /\ sendTap' \in [SendTaps -> Groups \cup {"none", "done"}]
        /\ UNCHANGED <<cast, sender, aim, heard, jobs, returned, blockedAt>>
    BY <1>1, <1>4 DEF TapSend
  <2>2. QED BY <2>1, NobodyMoves
<1>5. ASSUME NEW u \in Chats, MoveGroup(u) \/ StopBot(u) \/ ComeBack(u) PROVE CastsInv'
  <2>1. /\ draft' = draft /\ sendTap' = sendTap /\ UNCHANGED <<cast, sender, aim, heard, jobs>>
        /\ \A x : x \in returned => x \in returned'
        /\ \A x : x \in blockedAt => x \in blockedAt' \/ x \in returned'
    BY <1>5 DEF MoveGroup, StopBot, ComeBack
  <2>2. QED BY <1>1, <2>1, NobodyMoves
<1>6. CASE UNCHANGED castVars
  <2>1. /\ draft' = draft /\ sendTap' = sendTap
        /\ UNCHANGED <<cast, sender, aim, heard, jobs, returned, blockedAt>>
    BY <1>6 DEF castVars
  <2>2. QED BY <1>1, <2>1, NobodyMoves
<1>7. QED
  BY <1>2, <1>3, <1>4, <1>5, <1>6, SendFromFormStep, KiqStep, StartSendingStep, SendOneStep,
     SaveProgressStep, MarkBlockedStep, CloseCastStep, SenderDiesStep DEF BroadcastsNext

LEMMA CastsHold == CastsInv => CastAddsUp
<1> SUFFICES ASSUME CastsInv, NEW c \in Casts, cast[c].status = "done"
             PROVE  /\ cast[c].sent + cast[c].failed = Cardinality(aim[c])
                    /\ heard[c] \subseteq aim[c] /\ cast[c].sent <= Cardinality(heard[c])
                    /\ sender[c].refused \ returned \subseteq blockedAt
  BY DEF CastAddsUp
<1>1. CastInOrder(c) /\ cast[c] \in RowShape
  BY DEF CastsInv, CastsTyped
<1>2. /\ BooksAddUp(sender[c], aim[c], heard[c]) /\ sender[c].todo = {}
      /\ cast[c].sent = sender[c].sent /\ cast[c].failed = sender[c].failed
      /\ sender[c].refused \ returned \subseteq blockedAt
  BY <1>1 DEF CastInOrder
<1>3. cast[c].sent + cast[c].failed = Cardinality(aim[c])
  <2>1. cast[c].sent \in Nat /\ cast[c].failed \in Nat
    BY <1>1 DEF RowShape
  <2>2. QED BY <1>2, <2>1, NobodyIsZero DEF BooksAddUp
<1>4. QED BY <1>2, <1>3 DEF BooksAddUp

-----------------------------------------------------------------------------
(* Support desk: each message of the user has been attended to, or its     *)
(* ticket is one where the AI or its alert failed, or a request is under   *)
(* way that will see to it: one that has not asked yet, or whose AI has    *)
(* read as far.                                                            *)

MessageShape == [in : Tickets \cup {NoTicket}, by : {"user", "ai", "operator"}, read : Nat]
WritingShape == [at : {"unwritten", "saving", "asking", "thinking", "done"},
                 in : Tickets \cup {NoTicket}, was : {"none", "open", "waiting", "closed"},
                 read : Nat]

DeskTyped ==
    /\ thread \in Seq(MessageShape)
    /\ ticket \in [Tickets -> {"none", "open", "waiting", "closed"}]
    /\ writing \in [Writings -> WritingShape]
    /\ hiccups \in Nat

WillSeeTo(w, n) ==
    /\ writing[w].in = thread[n].in
    /\ writing[w].at = "asking" \/ (writing[w].at = "thinking" /\ writing[w].read >= n)

SeenTo(n) == Attended(n) \/ thread[n].in \in lapsed

LookedAfter(n) == SeenTo(n) \/ \E w \in Writings : WillSeeTo(w, n)

DeskInv ==
    /\ DeskTyped
    /\ \A n \in DOMAIN thread : thread[n].by = "user" => LookedAfter(n)

LEMMA DeskStart == DeskInit => DeskInv
  BY DEF DeskInit, DeskInv, DeskTyped, WritingShape, Unwritten

(* The ticket grows by one message. *)
LEMMA ThreadGrows ==
  ASSUME DeskTyped, NEW r \in MessageShape, thread' = Append(thread, r)
  PROVE  /\ thread' \in Seq(MessageShape)
         /\ DOMAIN thread = 1 .. Len(thread) /\ Len(thread) \in Nat
         /\ DOMAIN thread' = 1 .. (Len(thread) + 1)
         /\ thread'[Len(thread) + 1] = r
         /\ \A n \in DOMAIN thread : n \in DOMAIN thread' /\ thread'[n] = thread[n]
  BY DEF DeskTyped

(* Who has been seen to stays so. *)
LEMMA StillSeenTo ==
  ASSUME DeskTyped, called \subseteq called', lapsed \subseteq lapsed',
         NEW n \in DOMAIN thread, SeenTo(n),
         \A m \in DOMAIN thread : m \in DOMAIN thread' /\ thread'[m] = thread[m]
  PROVE  SeenTo(n)'
<1>1. thread'[n] = thread[n]
  OBVIOUS
<1> DEFINE t == thread[n].in
<1>2. OperatorIn(t) => OperatorIn(thread[n].in)'
  BY <1>1 DEF OperatorIn
<1>3. ASSUME NEW m \in Turns(t), thread[m].read >= n
      PROVE  \E k \in DOMAIN thread' : /\ thread'[k].in = t /\ thread'[k].by = "ai"
                                       /\ thread'[k].read >= n
  BY <1>3 DEF Turns
<1>4. CASE \E m \in Turns(t) : thread[m].read >= n
  BY <1>1, <1>3, <1>4 DEF SeenTo, Attended, Turns
<1>5. QED BY <1>1, <1>2, <1>4 DEF SeenTo, Attended

(* Steps in which nothing is written. *)
LEMMA NothingWritten ==
  ASSUME DeskInv, thread' = thread, called \subseteq called', lapsed \subseteq lapsed',
         hiccups' \in Nat,
         ticket' \in [Tickets -> {"none", "open", "waiting", "closed"}],
         writing' \in [Writings -> WritingShape],
         \A w \in Writings, n \in DOMAIN thread :
            WillSeeTo(w, n) => WillSeeTo(w, n)' \/ SeenTo(n)'
  PROVE  DeskInv'
<1>1. DeskTyped'
  BY DEF DeskInv, DeskTyped
<1>2. ASSUME NEW n \in DOMAIN thread, thread[n].by = "user" PROVE LookedAfter(n)'
  <2>1. CASE SeenTo(n)
    BY <2>1, StillSeenTo DEF DeskInv, LookedAfter
  <2>2. CASE ~SeenTo(n)
    <3>1. PICK w \in Writings : WillSeeTo(w, n)
      BY <1>2, <2>2 DEF DeskInv, LookedAfter
    <3>2. QED BY <1>2, <3>1 DEF LookedAfter
  <2>3. QED BY <2>1, <2>2
<1>3. QED BY <1>1, <1>2 DEF DeskInv

(* Steps in which one message is written. *)
LEMMA OneWritten ==
  ASSUME DeskInv, NEW r \in MessageShape, thread' = Append(thread, r),
         NEW k, k = Len(thread) + 1,
         called' = called, lapsed' = lapsed, hiccups' = hiccups,
         ticket' \in [Tickets -> {"none", "open", "waiting", "closed"}],
         writing' \in [Writings -> WritingShape],
         \A w \in Writings, n \in DOMAIN thread :
            WillSeeTo(w, n) => WillSeeTo(w, n)' \/ SeenTo(n)',
         r.by = "user" => \E w \in Writings : WillSeeTo(w, k)'
  PROVE  DeskInv'
<1>1. DeskTyped
  BY DEF DeskInv
<1>2. /\ thread' \in Seq(MessageShape)
      /\ DOMAIN thread = 1 .. Len(thread) /\ Len(thread) \in Nat
      /\ DOMAIN thread' = 1 .. (Len(thread) + 1)
      /\ thread'[Len(thread) + 1] = r
      /\ \A n \in DOMAIN thread : n \in DOMAIN thread' /\ thread'[n] = thread[n]
  BY <1>1, ThreadGrows
<1>3. DeskTyped'
  BY <1>1, <1>2 DEF DeskTyped
<1>4. ASSUME NEW n \in DOMAIN thread', thread'[n].by = "user" PROVE LookedAfter(n)'
  <2>1. CASE n = k
    <3>1. \E w \in Writings : WillSeeTo(w, n)'
      BY <1>2, <1>4, <2>1
    <3>2. QED BY <3>1 DEF LookedAfter
  <2>2. CASE n \in DOMAIN thread
    <3>1. thread[n].by = "user"
      BY <1>2, <1>4, <2>2
    <3>2. CASE SeenTo(n)
      BY <1>1, <1>2, <2>2, <3>2, StillSeenTo DEF LookedAfter
    <3>3. CASE ~SeenTo(n)
      <4>1. PICK w \in Writings : WillSeeTo(w, n)
        BY <1>4, <2>2, <3>1, <3>3 DEF DeskInv, LookedAfter
      <4>2. QED BY <2>2, <4>1 DEF LookedAfter
    <3>4. QED BY <3>2, <3>3
  <2>3. n = k \/ n \in DOMAIN thread
    BY <1>2, <1>4
  <2>4. QED BY <2>1, <2>2, <2>3
<1>5. QED BY <1>3, <1>4 DEF DeskInv

LEMMA DeskWrite == ASSUME DeskInv, NEW w \in Writings, Write(w) PROVE DeskInv'
<1>1. DeskTyped
  BY DEF DeskInv
<1>2. writing[w].at = "unwritten"
  <2>1. writing[w] = Unwritten
    BY DEF Write
  <2>2. Unwritten.at = "unwritten"
    BY DEF Unwritten
  <2>3. QED BY <2>1, <2>2
<1>3. \/ writing' = [writing EXCEPT ![w].at = "saving"]
      \/ \E t \in Active :
            writing' = [writing EXCEPT ![w] = [@ EXCEPT !.at = "saving", !.in = t, !.was = ticket[t]]]
  BY DEF Write
<1>4. /\ writing' \in [Writings -> WritingShape]
      /\ \A v \in Writings : v # w => writing'[v] = writing[v]
  <2>1. CASE writing' = [writing EXCEPT ![w].at = "saving"]
    BY <1>1, <2>1 DEF DeskTyped, WritingShape
  <2>2. ASSUME NEW t \in Active,
               writing' = [writing EXCEPT ![w] = [@ EXCEPT !.at = "saving", !.in = t, !.was = ticket[t]]]
        PROVE  /\ writing' \in [Writings -> WritingShape]
               /\ \A v \in Writings : v # w => writing'[v] = writing[v]
    <3>1. t \in Tickets /\ ticket[t] \in {"none", "open", "waiting", "closed"}
      BY <1>1 DEF Active, DeskTyped
    <3> DEFINE x == [writing[w] EXCEPT !.at = "saving", !.in = t, !.was = ticket[t]]
    <3>2. x \in WritingShape
      BY <1>1, <3>1 DEF DeskTyped, WritingShape
    <3>3. writing' = [writing EXCEPT ![w] = x]
      BY <2>2
    <3> HIDE DEF x
    <3>4. QED BY <1>1, <3>2, <3>3 DEF DeskTyped
  <2>3. QED BY <1>3, <2>1, <2>2
<1>5. thread' = thread /\ ticket' = ticket /\ called' = called /\ lapsed' = lapsed /\ hiccups' = hiccups
  BY DEF Write
<1>6. \A v \in Writings, n \in DOMAIN thread : WillSeeTo(v, n) => WillSeeTo(v, n)'
  BY <1>2, <1>4, <1>5 DEF WillSeeTo
<1>7. QED BY <1>1, <1>4, <1>5, <1>6, NothingWritten DEF DeskTyped

LEMMA DeskSave == ASSUME DeskInv, NEW w \in Writings, Save(w) PROVE DeskInv'
<1>1. DeskTyped
  BY DEF DeskInv
<1>2. PICK t \in Tickets :
        /\ ticket' = IF writing[w].was = "open" THEN ticket ELSE [ticket EXCEPT ![t] = "open"]
        /\ thread' = Said(t, "user", 0)
        /\ writing' = [writing EXCEPT ![w].at = "asking", ![w].in = t]
  BY DEF Save
<1>3. writing[w].at = "saving" /\ called' = called /\ lapsed' = lapsed /\ hiccups' = hiccups
  BY DEF Save
<1> DEFINE r == [in |-> t, by |-> "user", read |-> 0]
<1>4. r \in MessageShape /\ thread' = Append(thread, r) /\ r.in = t
  BY <1>2 DEF MessageShape, Said
<1>5. writing' \in [Writings -> WritingShape] /\ writing'[w].at = "asking" /\ writing'[w].in = t
      /\ \A v \in Writings : v # w => writing'[v] = writing[v]
  BY <1>1, <1>2 DEF DeskTyped, WritingShape
<1>6. ticket' \in [Tickets -> {"none", "open", "waiting", "closed"}]
  BY <1>1, <1>2 DEF DeskTyped
<1> HIDE DEF r
<1>7. thread'[Len(thread) + 1] = r /\ \A n \in DOMAIN thread : thread'[n] = thread[n]
  BY <1>1, <1>4, ThreadGrows
<1> PICK k : k = Len(thread) + 1
  OBVIOUS
<1>8. WillSeeTo(w, k)'
  BY <1>4, <1>5, <1>7 DEF WillSeeTo
<1>9. \A v \in Writings, n \in DOMAIN thread : WillSeeTo(v, n) => WillSeeTo(v, n)'
  BY <1>3, <1>5, <1>7 DEF WillSeeTo
<1>10. QED BY <1>3, <1>4, <1>5, <1>6, <1>8, <1>9, OneWritten

LEMMA DeskAskAi == ASSUME DeskInv, NEW w \in Writings, AskAi(w) PROVE DeskInv'
<1>1. DeskTyped
  BY DEF DeskInv
<1>2. /\ writing[w].at = "asking" /\ thread' = thread /\ ticket' = ticket /\ hiccups' \in Nat
      /\ called \subseteq called' /\ lapsed \subseteq lapsed'
  BY <1>1 DEF AskAi, Alerts, AlertLost, NoAlert, DeskTyped
<1>3. Len(thread) \in Nat /\ DOMAIN thread = 1 .. Len(thread)
  BY <1>1 DEF DeskTyped
<1>4. /\ writing' \in [Writings -> WritingShape]
      /\ \A v \in Writings : v # w => writing'[v] = writing[v]
  BY <1>1, <1>3 DEF AskAi, Ended, DeskTyped, WritingShape
<1>5. \/ OperatorIn(writing[w].in) \/ writing[w].in \in called' \cup lapsed'
      \/ writing'[w] = [writing[w] EXCEPT !.at = "thinking", !.read = Len(thread)]
  BY <1>1 DEF AskAi, Alerts, AlertLost, DeskTyped
<1>6. \A n \in DOMAIN thread : WillSeeTo(w, n) => WillSeeTo(w, n)' \/ SeenTo(n)'
  <2> SUFFICES ASSUME NEW n \in DOMAIN thread, WillSeeTo(w, n) PROVE WillSeeTo(w, n)' \/ SeenTo(n)'
    OBVIOUS
  <2>1. writing[w].in = thread[n].in
    BY DEF WillSeeTo
  <2>2. CASE OperatorIn(writing[w].in)
    BY <1>2, <2>1, <2>2 DEF SeenTo, Attended, OperatorIn
  <2>3. CASE writing[w].in \in called' \cup lapsed'
    BY <1>2, <2>1, <2>3 DEF SeenTo, Attended
  <2>4. CASE writing'[w] = [writing[w] EXCEPT !.at = "thinking", !.read = Len(thread)]
    <3>1. writing'[w].at = "thinking" /\ writing'[w].read = Len(thread) /\ writing'[w].in = writing[w].in
      BY <1>1, <2>4 DEF DeskTyped, WritingShape
    <3>2. QED BY <1>2, <1>3, <2>1, <3>1 DEF WillSeeTo
  <2>5. QED BY <1>5, <2>2, <2>3, <2>4
<1>7. \A v \in Writings, n \in DOMAIN thread : v # w /\ WillSeeTo(v, n) => WillSeeTo(v, n)'
  BY <1>2, <1>4 DEF WillSeeTo
<1>8. QED BY <1>1, <1>2, <1>4, <1>6, <1>7, NothingWritten DEF DeskTyped

LEMMA DeskEscalate == ASSUME DeskInv, NEW w \in Writings, Escalate(w) PROVE DeskInv'
<1>1. DeskTyped
  BY DEF DeskInv
<1>2. /\ writing[w].at = "thinking" /\ thread' = thread /\ ticket' = ticket /\ hiccups' \in Nat
      /\ called \subseteq called' /\ lapsed \subseteq lapsed'
      /\ writing[w].in \in called' \cup lapsed'
  BY <1>1 DEF Escalate, Alerts, AlertLost, DeskTyped
<1>3. /\ writing' \in [Writings -> WritingShape]
      /\ \A v \in Writings : v # w => writing'[v] = writing[v]
  BY <1>1 DEF Escalate, Ended, DeskTyped, WritingShape
<1>4. \A n \in DOMAIN thread : WillSeeTo(w, n) => SeenTo(n)'
  BY <1>2 DEF WillSeeTo, SeenTo, Attended
<1>5. \A v \in Writings, n \in DOMAIN thread : v # w /\ WillSeeTo(v, n) => WillSeeTo(v, n)'
  BY <1>2, <1>3 DEF WillSeeTo
<1>6. QED BY <1>1, <1>2, <1>3, <1>4, <1>5, NothingWritten DEF DeskTyped

LEMMA DeskReply == ASSUME DeskInv, NEW w \in Writings, Reply(w) PROVE DeskInv'
<1>1. DeskTyped
  BY DEF DeskInv
<1>2. writing[w].at = "thinking" /\ called' = called /\ lapsed' = lapsed /\ hiccups' = hiccups
  BY DEF Reply
<1> DEFINE r == [in |-> writing[w].in, by |-> "ai", read |-> writing[w].read]
<1>3. r \in MessageShape /\ thread' = Append(thread, r)
      /\ r.in = writing[w].in /\ r.by = "ai" /\ r.read = writing[w].read
  BY <1>1 DEF Reply, MessageShape, WritingShape, DeskTyped, Said
<1>4. /\ writing' \in [Writings -> WritingShape]
      /\ \A v \in Writings : v # w => writing'[v] = writing[v]
  BY <1>1 DEF Reply, Ended, DeskTyped, WritingShape
<1>5. ticket' \in [Tickets -> {"none", "open", "waiting", "closed"}]
  BY <1>1 DEF Reply, DeskTyped
<1> HIDE DEF r
<1>6. /\ thread'[Len(thread) + 1] = r /\ Len(thread) + 1 \in DOMAIN thread'
      /\ \A n \in DOMAIN thread : thread'[n] = thread[n]
  <2>1. /\ thread'[Len(thread) + 1] = r /\ DOMAIN thread' = 1 .. (Len(thread) + 1) /\ Len(thread) \in Nat
        /\ \A n \in DOMAIN thread : thread'[n] = thread[n]
    BY <1>1, <1>3, ThreadGrows
  <2>2. QED BY <2>1
<1> PICK k : k = Len(thread) + 1
  OBVIOUS
<1>7. \A n \in DOMAIN thread : WillSeeTo(w, n) => SeenTo(n)'
  <2> SUFFICES ASSUME NEW n \in DOMAIN thread, WillSeeTo(w, n) PROVE SeenTo(n)'
    OBVIOUS
  <2>1. thread'[n].in = writing[w].in /\ writing[w].read >= n
    BY <1>2, <1>6 DEF WillSeeTo
  <2>2. k \in Turns(thread[n].in)' /\ thread'[k].read >= n
    BY <1>3, <1>6, <2>1 DEF Turns
  <2>3. QED BY <2>2 DEF SeenTo, Attended
<1>8. \A v \in Writings, n \in DOMAIN thread : v # w /\ WillSeeTo(v, n) => WillSeeTo(v, n)'
  BY <1>4, <1>6 DEF WillSeeTo
<1>9. QED BY <1>2, <1>3, <1>4, <1>5, <1>7, <1>8, OneWritten

LEMMA DeskHiccup == ASSUME DeskInv, NEW w \in Writings, Hiccup(w) PROVE DeskInv'
<1>1. DeskTyped
  BY DEF DeskInv
<1>2. /\ thread' = thread /\ ticket' = ticket /\ called' = called
      /\ lapsed \subseteq lapsed' /\ writing[w].in \in lapsed' /\ hiccups' \in Nat
      /\ writing' = Ended(w)
  BY <1>1 DEF Hiccup, AlertLost, DeskTyped
<1>3. /\ writing' \in [Writings -> WritingShape]
      /\ \A v \in Writings : v # w => writing'[v] = writing[v]
  BY <1>1, <1>2 DEF Ended, DeskTyped, WritingShape
<1>4. \A n \in DOMAIN thread : WillSeeTo(w, n) => SeenTo(n)'
  BY <1>2 DEF WillSeeTo, SeenTo
<1>5. \A v \in Writings, n \in DOMAIN thread : v # w /\ WillSeeTo(v, n) => WillSeeTo(v, n)'
  BY <1>2, <1>3 DEF WillSeeTo
<1>6. QED BY <1>1, <1>2, <1>3, <1>4, <1>5, NothingWritten DEF DeskTyped

LEMMA DeskStaff == ASSUME DeskInv, OperatorReply \/ SetStatus PROVE DeskInv'
<1>1. DeskTyped
  BY DEF DeskInv
<1>2. CASE SetStatus
  <2>1. ticket' \in [Tickets -> {"none", "open", "waiting", "closed"}]
    BY <1>1, <1>2 DEF SetStatus, DeskTyped
  <2>2. thread' = thread /\ writing' = writing /\ called' = called /\ lapsed' = lapsed /\ hiccups' = hiccups
    BY <1>2 DEF SetStatus
  <2>3. \A v \in Writings, n \in DOMAIN thread : WillSeeTo(v, n) => WillSeeTo(v, n)'
    BY <2>2 DEF WillSeeTo
  <2>4. QED BY <1>1, <2>1, <2>2, <2>3, NothingWritten DEF DeskTyped
<1>3. CASE OperatorReply
  <2>1. PICK t \in Tickets : /\ thread' = Said(t, "operator", 0)
                             /\ ticket' = [ticket EXCEPT ![t] = "waiting"]
    BY <1>3 DEF OperatorReply
  <2>2. writing' = writing /\ called' = called /\ lapsed' = lapsed /\ hiccups' = hiccups
    BY <1>3 DEF OperatorReply
  <2>3. ticket' \in [Tickets -> {"none", "open", "waiting", "closed"}]
    BY <1>1, <2>1 DEF DeskTyped
  <2> DEFINE r == [in |-> t, by |-> "operator", read |-> 0]
  <2>4. r \in MessageShape /\ thread' = Append(thread, r) /\ r.by = "operator"
    BY <2>1 DEF MessageShape, Said
  <2> HIDE DEF r
  <2>5. \A n \in DOMAIN thread : thread'[n] = thread[n]
    BY <1>1, <2>4, ThreadGrows
  <2>6. \A v \in Writings, n \in DOMAIN thread : WillSeeTo(v, n) => WillSeeTo(v, n)'
    BY <2>2, <2>5 DEF WillSeeTo
  <2>7. QED BY <1>1, <2>2, <2>3, <2>4, <2>6, OneWritten DEF DeskTyped
<1>4. QED BY <1>2, <1>3

LEMMA DeskStep == DeskInv /\ [DeskNext]_deskVars => DeskInv'
<1> SUFFICES ASSUME DeskInv, [DeskNext]_deskVars PROVE DeskInv'
  OBVIOUS
<1>1. ASSUME NEW w \in Writings, \/ Write(w) \/ Save(w) \/ AskAi(w)
                                 \/ Escalate(w) \/ Reply(w) \/ Hiccup(w)
      PROVE  DeskInv'
  BY <1>1, DeskWrite, DeskSave, DeskAskAi, DeskEscalate, DeskReply, DeskHiccup
<1>2. CASE UNCHANGED deskVars
  BY <1>2 DEF deskVars, DeskInv, DeskTyped, LookedAfter, WillSeeTo, SeenTo, Attended,
     OperatorIn, Turns
<1>3. QED BY <1>1, <1>2, DeskStaff DEF DeskNext

LEMMA DeskHolds == DeskInv => NobodyLeftAlone
  BY DEF DeskInv, NobodyLeftAlone, LookedAfter, SeenTo, WillSeeTo

-----------------------------------------------------------------------------
(* Notices: whatever is told, or about to be, has a key that lives on, or  *)
(* its time is over for every run.                                         *)

NoticeShape == [kind : {"reminder", "winback", "holiday"}, who : Readers, what : Seq(Nat)]
Discounts == {0, WinbackPct, PromoPct}
RunShape == [since : Nat, at : {"asleep", "claiming", "granting", "sending"},
             todo : SUBSET NoticeShape, now : SUBSET NoticeShape, seen : Discounts]

NoticesTyped ==
    /\ tick \in Nat
    /\ reader \in [Readers -> [ends : Nat, live : BOOLEAN, discount : Discounts, from : Nat]]
    /\ noticeRun \in [NoticeRuns -> RunShape]
    /\ told \subseteq NoticeShape
    /\ offers \in [Readers -> SUBSET Discounts]

(* A run that began at s had reason to collect n. *)
Fits(n, s) ==
    IF n.kind = "reminder"
    THEN /\ n.what[1] \in Nat /\ n.what[2] \in Nat
         /\ n.what[2] > s + n.what[1] - Lookback /\ n.what[2] <= s + n.what[1]
    ELSE s % DayLength = SendAt /\ n.what = <<DayOf(s)>>

(* A run that began at s has claimed n at c, and the key lives, or has     *)
(* lived its life. *)
Claimed(n) ==
    \E s, c \in 0 .. tick :
        /\ s <= c /\ Fits(n, s)
        /\ \/ c + LifeOf(n.kind) <= tick
           \/ [of |-> KeyOf(n), until |-> c + LifeOf(n.kind)] \in keys

RunInOrder(r) ==
    LET v == noticeRun[r] IN
    /\ v.at = "asleep" => v.todo = {} /\ v.now = {}
    /\ v.at # "asleep" => v.since <= tick /\ tick < v.since + LongestRun
    /\ v.at = "claiming" => v.todo # {} /\ v.now = {}
    /\ v.at \in {"granting", "sending"} => v.now # {}
    /\ \A n \in v.todo \cup v.now : Fits(n, v.since)
    /\ \A n, m \in v.todo : n.kind = m.kind
    /\ \A n \in v.now : n \notin told /\ Claimed(n)

NobodyElse == \A r, q \in NoticeRuns : noticeRun[r].now \cap noticeRun[q].now # {} => r = q

Due(p, h, t) ==
    LET d == reader[p].ends - h IN
    reader[p].from <= d /\ d <= t /\ t < d + Lookback /\ (h = 0 \/ reader[p].live)

NoneMissed ==
    /\ lookedAt \subseteq 0 .. tick
    /\ \A p \in Readers, h \in Steps, t \in lookedAt :
         Due(p, h, t) => \E n \in collected : n.who = p /\ n.what = <<h, reader[p].ends>>

NoticesInv ==
    /\ NoticesTyped
    /\ \A r \in NoticeRuns : RunInOrder(r)
    /\ NobodyElse
    /\ \A n \in told : Claimed(n)
    /\ toldTwice = {}
    /\ NoneMissed
    /\ OfferNotRevived

LEMMA NoticesStart == NoticesInit => NoticesInv
<1> SUFFICES ASSUME NoticesInit PROVE NoticesInv
  OBVIOUS
<1> USE NoticesAssumption
<1>1. NoticesTyped
  BY DEF NoticesInit, NoticesTyped, RunShape, Discounts, Asleep
<1>2. NoneMissed /\ OfferNotRevived
  BY DEF NoticesInit, NoneMissed, OfferNotRevived
<1>3. (\A r \in NoticeRuns : RunInOrder(r)) /\ NobodyElse
  BY DEF NoticesInit, RunInOrder, NobodyElse, Asleep
<1>4. QED BY <1>1, <1>2, <1>3 DEF NoticesInv, NoticesInit

(* Two ticks of the same hour of the same day are one. *)
LEMMA OneTick ==
  ASSUME NEW s \in Nat, NEW t \in Nat, s % DayLength = t % DayLength, DayOf(s) = DayOf(t)
  PROVE  s = t
  BY NoticesAssumption DEF DayOf

LEMMA Lives ==
  ASSUME NEW n \in NoticeShape
  PROVE  /\ LifeOf(n.kind) \in Nat
         /\ n.kind = "reminder" => LifeOf(n.kind) = 7 * DayLength
         /\ n.kind # "reminder" => LifeOf(n.kind) >= DayLength
  BY NoticesAssumption DEF NoticeShape, LifeOf

(* A key outlives every run that could tell its notice again. *)
LEMMA KeyOutlives ==
  ASSUME NEW n \in NoticeShape, NEW s \in Nat, NEW c \in Nat, NEW s2 \in Nat, NEW t \in Nat,
         Fits(n, s), s <= c, Fits(n, s2), t < s2 + LongestRun
  PROVE  t < c + LifeOf(n.kind)
<1> USE NoticesAssumption
<1>1. CASE n.kind = "reminder"
  <2>1. s2 < s + Lookback
    BY <1>1 DEF Fits
  <2>2. QED BY <1>1, <2>1, Lives
<1>2. CASE n.kind # "reminder"
  <2>1. s % DayLength = s2 % DayLength /\ DayOf(s) = DayOf(s2)
    BY <1>2 DEF Fits
  <2>2. s = s2
    BY <2>1, OneTick
  <2>3. QED BY <1>2, <2>2, Lives
<1>3. QED BY <1>1, <1>2

LEMMA ClaimedStays ==
  ASSUME NEW n, Claimed(n), tick' = tick, keys \subseteq keys' PROVE Claimed(n)'
  BY DEF Claimed

(* A notice whose key is free has not been claimed before. *)
LEMMA FreeIsFresh ==
  ASSUME NoticesTyped, NEW r \in NoticeRuns, RunInOrder(r), NEW n \in noticeRun[r].todo,
         KeyFree(n)
  PROVE  ~Claimed(n)
<1> SUFFICES ASSUME Claimed(n) PROVE FALSE
  OBVIOUS
<1>1. n \in NoticeShape /\ noticeRun[r].since \in Nat /\ tick \in Nat
  BY DEF NoticesTyped, RunShape
<1>2. Fits(n, noticeRun[r].since) /\ tick < noticeRun[r].since + LongestRun
  BY <1>1 DEF RunInOrder, NoticesTyped, RunShape
<1>3. PICK s \in 0 .. tick, c \in 0 .. tick :
        /\ s <= c /\ Fits(n, s)
        /\ \/ c + LifeOf(n.kind) <= tick
           \/ [of |-> KeyOf(n), until |-> c + LifeOf(n.kind)] \in keys
  BY DEF Claimed
<1>4. tick < c + LifeOf(n.kind)
  BY <1>1, <1>2, <1>3, KeyOutlives
<1>5. [of |-> KeyOf(n), until |-> c + LifeOf(n.kind)] \in keys
  BY <1>1, <1>3, <1>4, Lives
<1>6. QED BY <1>5 DEF KeyFree

(* Steps of one run that leave the clock alone and unclaim nothing. *)
LEMMA RunMoves ==
  ASSUME NoticesInv, NEW r \in NoticeRuns, NEW v \in RunShape,
         noticeRun' = [noticeRun EXCEPT ![r] = v],
         tick' = tick, keys \subseteq keys', toldTwice' = toldTwice, lookedAt' = lookedAt,
         reader' = reader, collected' = collected, offers' = offers,
         told' \subseteq NoticeShape,
         RunInOrder(r)',
         \A n \in told' : n \in told \/ Claimed(n)',
         \A n \in told' : n \in told \/ n \in noticeRun[r].now,
         \A n \in v.now : n \in noticeRun[r].now \/ \A q \in NoticeRuns : n \notin noticeRun[q].now
  PROVE  NoticesInv'
<1>1. NoticesTyped'
  BY DEF NoticesInv, NoticesTyped
<1>2. noticeRun'[r] = v /\ \A q \in NoticeRuns : q # r => noticeRun'[q] = noticeRun[q]
  BY DEF NoticesInv, NoticesTyped
<1>3. NobodyElse'
  BY <1>2 DEF NoticesInv, NobodyElse
<1>4. ASSUME NEW n \in told' PROVE Claimed(n)'
  BY <1>4, ClaimedStays DEF NoticesInv
<1>5. ASSUME NEW q \in NoticeRuns, q # r PROVE RunInOrder(q)'
  <2> DEFINE x == noticeRun[q]
  <2>1. noticeRun'[q] = x
    BY <1>2, <1>5
  <2>2. RunInOrder(q)
    BY DEF NoticesInv
  <2>3. ASSUME NEW n \in noticeRun[q].now PROVE n \notin told' /\ Claimed(n)'
    <3>1. Claimed(n) /\ n \notin told
      BY <2>2, <2>3 DEF RunInOrder
    <3>2. n \notin noticeRun[r].now
      BY <1>5, <2>3 DEF NoticesInv, NobodyElse
    <3>3. QED BY <3>1, <3>2, ClaimedStays
  <2>4. QED BY <2>1, <2>2, <2>3 DEF RunInOrder, Fits, DayOf
<1>6. NoneMissed'
  BY DEF NoticesInv, NoneMissed, Due
<1>7. OfferNotRevived' /\ toldTwice' = {}
  BY DEF NoticesInv, OfferNotRevived
<1>8. \A q \in NoticeRuns : RunInOrder(q)'
  BY <1>5
<1>9. QED BY <1>1, <1>3, <1>4, <1>6, <1>7, <1>8 DEF NoticesInv

(* Whom a run collects. *)
LEMMA AudienceFits ==
  ASSUME NoticesTyped, NEW kind \in {"reminder", "winback", "holiday"}
  PROVE  /\ Audience(kind) \subseteq NoticeShape
         /\ \A n \in Audience(kind) : n.kind = kind /\ Fits(n, tick)
<1> USE NoticesAssumption
<1>1. DayOf(tick) \in Nat /\ <<DayOf(tick)>> \in Seq(Nat)
  <2>1. tick \in Nat
    BY DEF NoticesTyped
  <2>2. DayOf(tick) \in Nat
    BY <2>1 DEF DayOf
  <2>3. QED BY <2>2
<1>2. ASSUME NEW n \in Reminders PROVE n \in NoticeShape /\ n.kind = "reminder" /\ Fits(n, tick)
  <2>1. PICK x \in Readers \X Steps :
          /\ InStepWindow(x[1], x[2])
          /\ n = [kind |-> "reminder", who |-> x[1], what |-> <<x[2], reader[x[1]].ends>>]
    BY <1>2 DEF Reminders
  <2> PICK p, h, e : p = x[1] /\ h = x[2] /\ e = reader[p].ends
    OBVIOUS
  <2>2. p \in Readers /\ h \in Nat /\ e \in Nat
    BY DEF NoticesTyped
  <2>3. <<h, e>> \in Seq(Nat)
    BY <2>2
  <2>4. n = [kind |-> "reminder", who |-> p, what |-> <<h, e>>]
    BY <2>1
  <2>5. e > tick + h - Lookback /\ e <= tick + h
    BY <2>1 DEF InStepWindow
  <2>6. n \in NoticeShape
    BY <2>2, <2>3, <2>4 DEF NoticeShape
  <2>7. n.kind = "reminder" /\ n.what = <<h, e>>
    BY <2>4
  <2>8. QED BY <2>2, <2>5, <2>6, <2>7 DEF Fits
<1>3. ASSUME NEW n \in Winbacks, TimeMatches
      PROVE  n \in NoticeShape /\ n.kind = "winback" /\ Fits(n, tick)
  <2>1. PICK p \in Readers : n = [kind |-> "winback", who |-> p, what |-> <<DayOf(tick)>>]
    BY <1>3 DEF Winbacks
  <2>2. n \in NoticeShape
    BY <1>1, <2>1 DEF NoticeShape
  <2>3. QED BY <1>3, <2>1, <2>2 DEF Fits, TimeMatches
<1>4. ASSUME NEW n \in Wishes, TimeMatches
      PROVE  n \in NoticeShape /\ n.kind = "holiday" /\ Fits(n, tick)
  <2>1. PICK p \in Readers : n = [kind |-> "holiday", who |-> p, what |-> <<DayOf(tick)>>]
    BY <1>4 DEF Wishes
  <2>2. n \in NoticeShape
    BY <1>1, <2>1 DEF NoticeShape
  <2>3. QED BY <1>4, <2>1, <2>2 DEF Fits, TimeMatches
<1>5. CASE kind = "reminder"
  BY <1>2, <1>5 DEF Audience
<1>6. CASE kind = "winback"
  BY <1>3, <1>6 DEF Audience
<1>7. CASE kind = "holiday"
  BY <1>4, <1>7 DEF Audience
<1>8. QED BY <1>5, <1>6, <1>7

LEMMA CollectStep == ASSUME NoticesInv, NEW r \in NoticeRuns, Collect(r) PROVE NoticesInv'
<1>1. PICK kind \in {"reminder", "winback", "holiday"} :
        /\ lookedAt' = IF kind = "reminder" THEN lookedAt \cup {tick} ELSE lookedAt
        /\ collected' = collected \cup Audience(kind)
        /\ noticeRun' = IF Audience(kind) = {} THEN noticeRun ELSE
               [noticeRun EXCEPT ![r] = [Asleep EXCEPT !.at = "claiming", !.since = tick,
                                                       !.todo = Audience(kind)]]
  BY DEF Collect
<1>2. /\ noticeRun[r] = Asleep /\ tick' = tick /\ reader' = reader /\ keys' = keys
      /\ told' = told /\ toldTwice' = toldTwice /\ offers' = offers
  BY DEF Collect
<1>3. NoticesTyped
  BY DEF NoticesInv
<1>4. /\ Audience(kind) \subseteq NoticeShape
      /\ \A n \in Audience(kind) : n.kind = kind /\ Fits(n, tick)
  BY <1>3, AudienceFits
<1> DEFINE S == Audience(kind)
           v == [Asleep EXCEPT !.at = "claiming", !.since = tick, !.todo = S]
<1>5. v \in RunShape /\ v.at = "claiming" /\ v.since = tick /\ v.todo = S /\ v.now = {}
  BY <1>3, <1>4 DEF RunShape, Asleep, Discounts, NoticesTyped
<1>6. (S = {} /\ noticeRun' = noticeRun) \/ (S # {} /\ noticeRun' = [noticeRun EXCEPT ![r] = v])
  BY <1>1
<1>7. \A n \in S : n.kind = kind /\ Fits(n, tick)
  BY <1>4
<1>8. NoneMissed'
  <2>1. ASSUME kind = "reminder", NEW p \in Readers, NEW h \in Steps, Due(p, h, tick)
        PROVE  \E n \in S : n.who = p /\ n.what = <<h, reader[p].ends>>
    <3>1. InStepWindow(p, h) /\ (h = 0 \/ reader[p].live)
      <4>1. reader[p].ends \in Nat /\ h \in Nat /\ Lookback \in Nat /\ tick \in Nat
        BY <1>3, NoticesAssumption DEF NoticesTyped
      <4>2. QED BY <2>1, <4>1 DEF Due, InStepWindow
    <3>2. S = Reminders
      BY <2>1 DEF Audience
    <3> DEFINE n == [kind |-> "reminder", who |-> p, what |-> <<h, reader[p].ends>>]
    <3>3. n \in Reminders
      <4> DEFINE x == <<p, h>>
      <4>1. x \in Readers \X Steps /\ x[1] = p /\ x[2] = h
        OBVIOUS
      <4> HIDE DEF x
      <4>2. QED BY <3>1, <4>1 DEF Reminders
    <3>4. n.who = p /\ n.what = <<h, reader[p].ends>>
      OBVIOUS
    <3> HIDE DEF n, S
    <3>5. QED BY <3>2, <3>3, <3>4
  <2>2. lookedAt' \subseteq 0 .. tick /\ tick' = tick
    BY <1>1, <1>2, <1>3 DEF NoticesInv, NoneMissed, NoticesTyped
  <2>3. ASSUME NEW p \in Readers, NEW h \in Steps, NEW t \in lookedAt', Due(p, h, t)
        PROVE  \E n \in collected' : n.who = p /\ n.what = <<h, reader[p].ends>>
    <3>1. CASE t \in lookedAt
      BY <1>1, <2>3, <3>1 DEF NoticesInv, NoneMissed
    <3>2. CASE t \notin lookedAt
      <4>1. kind = "reminder" /\ t = tick
        BY <1>1, <3>2
      <4>2. QED BY <1>1, <2>1, <2>3, <4>1
    <3>3. QED BY <3>1, <3>2
  <2>4. QED BY <1>2, <2>2, <2>3 DEF NoneMissed, Due
<1> HIDE DEF v, S
<1>9. NoticesTyped'
  BY <1>2, <1>3, <1>5, <1>6 DEF NoticesTyped
<1>10. \A q \in NoticeRuns : noticeRun'[q] = noticeRun[q] \/ (q = r /\ noticeRun'[q] = v /\ S # {})
  BY <1>3, <1>6 DEF NoticesTyped
<1>11. ASSUME NEW q \in NoticeRuns PROVE RunInOrder(q)'
  <2>1. CASE noticeRun'[q] = noticeRun[q]
    <3>1. RunInOrder(q)
      BY DEF NoticesInv
    <3>2. QED BY <1>2, <2>1, <3>1, ClaimedStays DEF RunInOrder, Fits, DayOf
  <2>2. CASE noticeRun'[q] = v /\ S # {}
    <3>1. tick <= tick /\ tick < tick + LongestRun
      BY <1>3, NoticesAssumption DEF NoticesTyped
    <3>2. QED BY <1>2, <1>5, <1>7, <2>2, <3>1 DEF RunInOrder, Fits, DayOf
  <2>3. QED BY <1>10, <2>1, <2>2
<1>12. NobodyElse'
  BY <1>5, <1>10 DEF NobodyElse, NoticesInv
<1>13. \A n \in told' : Claimed(n)'
  BY <1>2, ClaimedStays DEF NoticesInv
<1>14. OfferNotRevived' /\ toldTwice' = {}
  BY <1>2 DEF NoticesInv, OfferNotRevived
<1>15. QED BY <1>8, <1>9, <1>11, <1>12, <1>13, <1>14 DEF NoticesInv

LEMMA OneKey ==
  ASSUME NEW s \in Nat, NEW n \in NoticeShape, NEW m \in NoticeShape,
         n.kind = "holiday", m.kind = "holiday", Fits(n, s), Fits(m, s)
  PROVE  KeyOf(m) = KeyOf(n)
<1>1. n.what = m.what
  BY DEF Fits
<1>2. [n EXCEPT !.who = 0] = [m EXCEPT !.who = 0]
  BY <1>1 DEF NoticeShape
<1>3. QED BY <1>2 DEF KeyOf

LEMMA ClaimStep == ASSUME NoticesInv, NEW r \in NoticeRuns, Claim(r) PROVE NoticesInv'
<1> DEFINE v == noticeRun[r]
           n == FirstOf(v.todo)
           whole == n.kind = "holiday"
           rest == IF whole THEN {} ELSE v.todo \ {n}
           key == [of |-> KeyOf(n), until |-> tick + LifeOf(n.kind)]
           mine == IF whole THEN v.todo ELSE {n}
           stage == IF n.kind = "winback" THEN "granting" ELSE "sending"
<1>1. /\ v.at = "claiming"
      /\ IF KeyFree(n)
         THEN /\ keys' = keys \cup {key}
              /\ noticeRun' = [noticeRun EXCEPT ![r].todo = rest, ![r].now = mine,
                                  ![r].seen = reader[n.who].discount, ![r].at = stage]
         ELSE /\ noticeRun' = [noticeRun EXCEPT ![r] =
                     IF rest = {} THEN Asleep ELSE [v EXCEPT !.todo = rest]]
              /\ UNCHANGED keys
  BY DEF Claim
<1>2. /\ tick' = tick /\ reader' = reader /\ told' = told /\ toldTwice' = toldTwice
      /\ collected' = collected /\ lookedAt' = lookedAt /\ offers' = offers
  BY DEF Claim
<1>3. NoticesTyped /\ RunInOrder(r) /\ v \in RunShape
  BY DEF NoticesInv, NoticesTyped
<1>4. n \in v.todo
  BY <1>1, <1>3 DEF RunInOrder, FirstOf
<1>5. /\ v.todo \subseteq NoticeShape /\ v.now = {} /\ n \in NoticeShape /\ v.since \in Nat
      /\ \A m \in v.todo : Fits(m, v.since) /\ m.kind = n.kind
      /\ v.since <= tick /\ tick < v.since + LongestRun /\ tick \in Nat
  BY <1>1, <1>3, <1>4 DEF RunInOrder, RunShape, NoticesTyped
<1> PICK s0 : s0 = v.since
  OBVIOUS
<1>6. rest \subseteq v.todo /\ mine \subseteq v.todo /\ n \in mine /\ stage \in {"granting", "sending"}
  BY <1>4
<1>7. ASSUME NEW m \in mine PROVE KeyOf(m) = KeyOf(n) /\ m.kind = n.kind /\ m \in v.todo
  BY <1>4, <1>5, OneKey
<1>8. told' \subseteq NoticeShape
  BY <1>2, <1>3 DEF NoticesTyped
<1>9. CASE KeyFree(n)
  <2> DEFINE x == [v EXCEPT !.todo = rest, !.now = mine, !.seen = reader[n.who].discount, !.at = stage]
  <2>1. reader[n.who].discount \in Discounts
    BY <1>3, <1>5 DEF NoticesTyped, NoticeShape
  <2>2. /\ x \in RunShape /\ x.todo = rest /\ x.now = mine /\ x.at = stage /\ x.since = v.since
    BY <1>3, <1>5, <1>6, <2>1 DEF RunShape
  <2>3. noticeRun' = [noticeRun EXCEPT ![r] = x]
    BY <1>1, <1>3, <1>9 DEF NoticesTyped, RunShape
  <2>4. ASSUME NEW m \in mine PROVE ~Claimed(m) /\ Claimed(m)'
    <3>1. KeyFree(m)
      BY <1>7, <1>9 DEF KeyFree
    <3>2. ~Claimed(m)
      BY <1>3, <1>7, <3>1, FreeIsFresh
    <3>3. [of |-> KeyOf(m), until |-> tick + LifeOf(m.kind)] \in keys'
      BY <1>1, <1>7, <1>9
    <3>5. Fits(m, s0)' /\ s0 \in 0 .. tick /\ s0 <= tick
      BY <1>2, <1>5, <1>7 DEF Fits, DayOf
    <3> PICK c : c = tick
      OBVIOUS
    <3>6. c \in 0 .. tick' /\ s0 \in 0 .. tick' /\ s0 <= c
      BY <1>2, <1>5, <3>5
    <3>7. [of |-> KeyOf(m), until |-> c + LifeOf(m.kind)] \in keys'
      BY <3>3
    <3>8. Claimed(m)'
      BY <3>5, <3>6, <3>7 DEF Claimed
    <3>9. QED BY <3>2, <3>8
  <2>5. noticeRun'[r] = x
    BY <1>3, <2>3 DEF NoticesTyped
  <2> HIDE DEF x, rest, mine, stage, n, v
  <2>6. ASSUME NEW m \in x.now PROVE m \notin told' /\ Claimed(m)'
    BY <1>2, <2>2, <2>4, <2>6 DEF NoticesInv
  <2>7. RunInOrder(r)'
    <3>1. x.since <= tick' /\ tick' < x.since + LongestRun
      BY <1>2, <1>5, <2>2
    <3>2. ASSUME NEW m \in x.todo \cup x.now PROVE Fits(m, s0)'
      BY <1>5, <1>6, <2>2, <3>2 DEF Fits, DayOf
    <3>3. \A m, k \in x.todo : m.kind = k.kind
      BY <1>5, <1>6, <2>2
    <3>4. x.at \in {"granting", "sending"} /\ x.now # {}
      BY <1>6, <2>2
    <3>5. /\ noticeRun'[r] = x /\ x.since = s0 /\ x.at # "asleep" /\ x.at # "claiming"
      BY <2>2, <2>5, <3>4
    <3>6. QED BY <2>6, <3>1, <3>2, <3>3, <3>4, <3>5 DEF RunInOrder, Fits, DayOf
  <2>8. ASSUME NEW m \in x.now, NEW q \in NoticeRuns PROVE m \notin noticeRun[q].now
    <3>1. ~Claimed(m)
      BY <2>2, <2>4, <2>8
    <3>2. RunInOrder(q)
      BY DEF NoticesInv
    <3>3. QED BY <3>1, <3>2 DEF RunInOrder
  <2>9. keys \subseteq keys'
    BY <1>1, <1>9
  <2>10. QED BY <1>2, <1>8, <2>2, <2>3, <2>7, <2>8, <2>9, RunMoves
<1>10. CASE ~KeyFree(n)
  <2> DEFINE x == IF rest = {} THEN Asleep ELSE [v EXCEPT !.todo = rest]
  <2>1. x \in RunShape /\ x.todo = rest /\ x.now = {}
        /\ (x.at = "asleep" => rest = {})
        /\ (x.at # "asleep" => x.at = "claiming" /\ x.since = v.since /\ rest # {})
    <3>1. CASE rest = {}
      BY <3>1 DEF RunShape, Asleep, Discounts
    <3>2. CASE rest # {}
      <4> DEFINE y == [v EXCEPT !.todo = rest]
      <4>1. y \in RunShape /\ y.todo = rest /\ y.now = {} /\ y.at = "claiming" /\ y.since = v.since
        BY <1>1, <1>3, <1>5, <1>6 DEF RunShape
      <4>2. x = y
        BY <3>2
      <4> HIDE DEF x, y, rest
      <4>3. QED BY <3>2, <4>1, <4>2
    <3>3. QED BY <3>1, <3>2
  <2>2. noticeRun' = [noticeRun EXCEPT ![r] = x] /\ keys' = keys
    BY <1>1, <1>10
  <2>3. noticeRun'[r] = x
    BY <1>3, <2>2 DEF NoticesTyped
  <2> HIDE DEF x, rest, mine, stage, n, v
  <2>4. RunInOrder(r)'
    <3>1. x.at # "asleep" => x.since <= tick' /\ tick' < x.since + LongestRun
      BY <1>2, <1>5, <2>1
    <3>2. ASSUME NEW m \in x.todo \cup x.now PROVE Fits(m, s0)'
      BY <1>5, <1>6, <2>1, <3>2 DEF Fits, DayOf
    <3>3. \A m, k \in x.todo : m.kind = k.kind
      BY <1>5, <1>6, <2>1
    <3>4. x.todo # {} => x.since = s0
      BY <2>1
    <3>5. QED BY <2>1, <2>3, <3>1, <3>2, <3>3, <3>4 DEF RunInOrder, Fits, DayOf
  <2>5. QED BY <1>2, <1>8, <2>1, <2>2, <2>4, RunMoves
<1>11. QED BY <1>9, <1>10

(* A run goes on with what it has, or a part of it. *)
LEMMA RunGoesOn ==
  ASSUME NoticesInv, NEW r \in NoticeRuns, NEW v \in RunShape,
         noticeRun' = [noticeRun EXCEPT ![r] = v],
         tick' = tick, keys \subseteq keys', toldTwice' = toldTwice, lookedAt' = lookedAt,
         reader' = reader, collected' = collected, offers' = offers,
         told' \subseteq NoticeShape,
         v.todo \subseteq noticeRun[r].todo, v.now \subseteq noticeRun[r].now \ told',
         \A n \in told' : n \in told \/ n \in noticeRun[r].now,
         v.at = "asleep" => v.todo = {} /\ v.now = {},
         v.at # "asleep" => v.since = noticeRun[r].since /\ noticeRun[r].at # "asleep",
         v.at = "claiming" => v.todo # {} /\ v.now = {},
         v.at \in {"granting", "sending"} => v.now # {}
  PROVE  NoticesInv'
<1>1. RunInOrder(r) /\ NoticesTyped
  BY DEF NoticesInv
<1> PICK s0 : s0 = noticeRun[r].since
  OBVIOUS
<1>2. noticeRun'[r] = v
  BY <1>1 DEF NoticesTyped
<1>3. \A n \in told' : n \in told \/ Claimed(n)'
  BY <1>1, ClaimedStays DEF RunInOrder
<1>4. \A n \in v.now : n \notin told' /\ Claimed(n)'
  BY <1>1, ClaimedStays DEF RunInOrder
<1>5. \A n \in v.todo \cup v.now : Fits(n, s0)'
  BY <1>1 DEF RunInOrder, Fits, DayOf
<1>6. \A n, m \in v.todo : n.kind = m.kind
  BY <1>1 DEF RunInOrder
<1>7. v.at # "asleep" => v.since = s0 /\ v.since <= tick' /\ tick' < v.since + LongestRun
  BY <1>1 DEF RunInOrder
<1>8. RunInOrder(r)'
  BY <1>2, <1>4, <1>5, <1>6, <1>7 DEF RunInOrder, Fits, DayOf
<1>9. QED BY <1>3, <1>8, RunMoves

LEMMA SendStep == ASSUME NoticesInv, NEW r \in NoticeRuns, Send(r) PROVE NoticesInv'
<1> DEFINE v == noticeRun[r]
           n == FirstOf(v.now)
           w == [v EXCEPT !.now = @ \ {n}]
           x == NextOf(w)
<1>1. /\ v.at = "sending"
      /\ told' = told \cup {n}
      /\ toldTwice' = IF n \in told THEN toldTwice \cup {n} ELSE toldTwice
      /\ noticeRun' = [noticeRun EXCEPT ![r] = x]
      /\ UNCHANGED <<tick, reader, keys, collected, lookedAt, offers>>
  BY DEF Send
<1>2. NoticesTyped /\ RunInOrder(r) /\ v \in RunShape
  BY DEF NoticesInv, NoticesTyped
<1>3. n \in v.now
  BY <1>1, <1>2 DEF RunInOrder, FirstOf
<1>4. n \notin told /\ n \in NoticeShape /\ told \subseteq NoticeShape
  BY <1>2, <1>3 DEF RunInOrder, RunShape, NoticesTyped
<1>5. \A m \in v.now : m \notin told
  BY <1>2 DEF RunInOrder
<1>6. w \in RunShape /\ w.now = v.now \ {n} /\ w.todo = v.todo /\ w.at = "sending" /\ w.since = v.since
  BY <1>1, <1>2 DEF RunShape
<1>7. /\ x \in RunShape /\ x.todo \subseteq v.todo /\ x.now \subseteq v.now \ {n}
      /\ x.at = "asleep" => x.todo = {} /\ x.now = {}
      /\ x.at # "asleep" => x.since = v.since
      /\ x.at = "claiming" => x.todo # {} /\ x.now = {}
      /\ x.at \in {"granting", "sending"} => x.now # {}
  <2> HIDE DEF w
  <2>1. CASE w.now # {}
    BY <1>6, <2>1 DEF NextOf
  <2>2. CASE w.now = {} /\ w.todo # {}
    BY <1>6, <2>2 DEF NextOf, RunShape
  <2>3. CASE w.now = {} /\ w.todo = {}
    <3>1. x = Asleep
      BY <2>3 DEF NextOf
    <3>2. /\ Asleep \in RunShape /\ Asleep.at = "asleep" /\ Asleep.todo = {} /\ Asleep.now = {}
      BY DEF Asleep, RunShape, Discounts
    <3>3. QED BY <3>1, <3>2
  <2>4. QED BY <2>1, <2>2, <2>3
<1> HIDE DEF x, n
<1>8. toldTwice' = toldTwice /\ told' \subseteq NoticeShape
  BY <1>1, <1>4
<1>9. x.now \subseteq v.now \ told'
  BY <1>1, <1>5, <1>7
<1>10. \A m \in told' : m \in told \/ m \in v.now
  BY <1>1, <1>3
<1>11. QED BY <1>1, <1>7, <1>8, <1>9, <1>10, RunGoesOn

LEMMA RunDiesStep == ASSUME NoticesInv, NEW r \in NoticeRuns, RunDies(r) PROVE NoticesInv'
<1>1. Asleep \in RunShape /\ Asleep.at = "asleep" /\ Asleep.todo = {} /\ Asleep.now = {}
  BY DEF Asleep, RunShape, Discounts
<1>2. told' \subseteq NoticeShape
  BY DEF RunDies, NoticesInv, NoticesTyped
<1>3. QED BY <1>1, <1>2, RunGoesOn DEF RunDies

LEMMA StillNoneMissed ==
  ASSUME NoneMissed, tick' = tick, lookedAt' = lookedAt, collected' = collected,
         \A u \in Readers : reader'[u].ends = reader[u].ends /\ reader'[u].from = reader[u].from,
         \A u \in Readers : reader'[u].live => reader[u].live
  PROVE  NoneMissed'
<1>1. lookedAt' \subseteq 0 .. tick'
  BY DEF NoneMissed
<1>2. ASSUME NEW u \in Readers, NEW h \in Steps, NEW t \in lookedAt, Due(u, h, t)'
      PROVE  \E n \in collected : n.who = u /\ n.what = <<h, reader'[u].ends>>
  <2>1. Due(u, h, t)
    BY <1>2 DEF Due
  <2>2. PICK n \in collected : n.who = u /\ n.what = <<h, reader[u].ends>>
    BY <2>1 DEF NoneMissed
  <2>3. reader'[u].ends = reader[u].ends
    OBVIOUS
  <2>4. n.what = <<h, reader'[u].ends>>
    BY <2>2, <2>3
  <2>5. QED BY <2>2, <2>4
<1>3. QED BY <1>1, <1>2 DEF NoneMissed

(* Users do things: no notice is concerned. *)
LEMMA ReadersMove ==
  ASSUME NoticesInv, tick' = tick, keys' = keys, told' = told, toldTwice' = toldTwice,
         noticeRun' \in [NoticeRuns -> RunShape],
         \A q \in NoticeRuns : /\ noticeRun'[q].todo = noticeRun[q].todo
                               /\ noticeRun'[q].now = noticeRun[q].now
                               /\ noticeRun'[q].since = noticeRun[q].since
                               /\ \/ noticeRun'[q].at = noticeRun[q].at
                                  \/ noticeRun[q].at = "granting" /\ noticeRun'[q].at = "sending",
         reader' \in [Readers -> [ends : Nat, live : BOOLEAN, discount : Discounts, from : Nat]],
         offers' \in [Readers -> SUBSET Discounts], NoneMissed', OfferNotRevived'
  PROVE  NoticesInv'
<1>1. NoticesTyped'
  BY DEF NoticesInv, NoticesTyped
<1>2. NobodyElse'
  BY DEF NoticesInv, NobodyElse
<1>3. ASSUME NEW q \in NoticeRuns PROVE RunInOrder(q)'
  <2>1. RunInOrder(q)
    BY DEF NoticesInv
  <2>2. \A n \in noticeRun[q].now : n \notin told' /\ Claimed(n)'
    BY <2>1, ClaimedStays DEF RunInOrder
  <2>3. QED BY <2>1, <2>2 DEF RunInOrder, Fits, DayOf
<1>4. \A n \in told' : Claimed(n)'
  BY ClaimedStays DEF NoticesInv
<1>5. QED BY <1>1, <1>2, <1>3, <1>4 DEF NoticesInv

LEMMA GrantStep == ASSUME NoticesInv, NEW r \in NoticeRuns, Grant(r) PROVE NoticesInv'
<1> DEFINE v == noticeRun[r]
<1>1. PICK n \in v.now :
        /\ reader' = [reader EXCEPT ![n.who].discount = Raised(v.seen, @)]
        /\ offers' = [offers EXCEPT ![n.who] = @ \cup {WinbackPct}]
  BY DEF Grant
<1>2. /\ v.at = "granting" /\ noticeRun' = [noticeRun EXCEPT ![r].at = "sending"]
      /\ UNCHANGED <<tick, keys, told, toldTwice, collected, lookedAt>>
  BY DEF Grant
<1>3. NoticesTyped /\ v \in RunShape
  BY DEF NoticesInv, NoticesTyped
<1> PICK p : p = n.who
  OBVIOUS
<1>4. p \in Readers
  BY <1>3 DEF RunShape, NoticeShape
<1> DEFINE d == Raised(v.seen, reader[p].discount)
<1>5. d \in {WinbackPct, reader[p].discount} /\ d \in Discounts
  BY <1>3, <1>4 DEF Raised, NoticesTyped, Discounts
<1>6. reader' = [reader EXCEPT ![p].discount = d]
  BY <1>1
<1> HIDE DEF d
<1>7. /\ reader' \in [Readers -> [ends : Nat, live : BOOLEAN, discount : Discounts, from : Nat]]
      /\ \A u \in Readers : /\ reader'[u].ends = reader[u].ends /\ reader'[u].live = reader[u].live
                            /\ reader'[u].from = reader[u].from
                            /\ u # p => reader'[u] = reader[u]
      /\ reader'[p].discount = d
  BY <1>3, <1>4, <1>5, <1>6 DEF NoticesTyped
<1>8. NoneMissed'
  BY <1>2, <1>7, StillNoneMissed DEF NoticesInv
<1>9. OfferNotRevived'
  <2>1. ASSUME NEW u \in Readers PROVE reader'[u].discount \in offers'[u] \cup {0}
    <3>1. reader[u].discount \in offers[u] \cup {0}
      BY DEF NoticesInv, OfferNotRevived
    <3>2. u # p => offers'[u] = offers[u]
      BY <1>1
    <3>3. offers'[p] = offers[p] \cup {WinbackPct}
      BY <1>1, <1>3, <1>4 DEF NoticesTyped
    <3>4. QED BY <1>5, <1>7, <3>1, <3>2, <3>3
  <2>2. QED BY <2>1 DEF OfferNotRevived
<1>10. /\ noticeRun' \in [NoticeRuns -> RunShape]
       /\ \A q \in NoticeRuns : /\ noticeRun'[q].todo = noticeRun[q].todo
                                /\ noticeRun'[q].now = noticeRun[q].now
                                /\ noticeRun'[q].since = noticeRun[q].since
                                /\ \/ noticeRun'[q].at = noticeRun[q].at
                                   \/ noticeRun[q].at = "granting" /\ noticeRun'[q].at = "sending"
  BY <1>2, <1>3 DEF NoticesTyped, RunShape
<1>11. offers' \in [Readers -> SUBSET Discounts]
  BY <1>1, <1>3, <1>4 DEF NoticesTyped, Discounts
<1>12. QED BY <1>2, <1>7, <1>8, <1>9, <1>10, <1>11, ReadersMove

LEMMA OrderStep == ASSUME NoticesInv, NEW p \in Readers, Order(p) PROVE NoticesInv'
<1> DEFINE e == Larger(tick, reader[p].ends) + DayLength
<1>1. /\ reader' = [reader EXCEPT ![p] = [ends |-> e, live |-> TRUE, discount |-> 0, from |-> tick + 1]]
      /\ offers' = [offers EXCEPT ![p] = {}]
      /\ UNCHANGED <<tick, keys, noticeRun, told, toldTwice, collected, lookedAt>>
  BY DEF Order
<1>2. NoticesTyped
  BY DEF NoticesInv
<1>3. e \in Nat
  BY <1>2, NoticesAssumption DEF NoticesTyped, Larger
<1> HIDE DEF e
<1>4. /\ reader' \in [Readers -> [ends : Nat, live : BOOLEAN, discount : Discounts, from : Nat]]
      /\ \A u \in Readers : u # p => reader'[u] = reader[u]
      /\ reader'[p].discount = 0 /\ reader'[p].ends = e /\ reader'[p].from = tick + 1
  BY <1>1, <1>2, <1>3 DEF NoticesTyped, Discounts
<1>5. offers' \in [Readers -> SUBSET Discounts] /\ \A u \in Readers : u # p => offers'[u] = offers[u]
  BY <1>1, <1>2 DEF NoticesTyped
<1>6. OfferNotRevived'
  <2>1. ASSUME NEW u \in Readers PROVE reader'[u].discount \in offers'[u] \cup {0}
    BY <1>4, <1>5 DEF NoticesInv, OfferNotRevived
  <2>2. QED BY <2>1 DEF OfferNotRevived
<1>7. NoneMissed'
  <2>1. lookedAt' \subseteq 0 .. tick'
    BY <1>1 DEF NoticesInv, NoneMissed
  <2>2. ASSUME NEW u \in Readers, NEW h \in Steps, NEW t \in lookedAt, Due(u, h, t)'
        PROVE  \E n \in collected : n.who = u /\ n.what = <<h, reader'[u].ends>>
    <3>1. CASE u = p
      <4>1. tick + 1 <= e - h /\ e - h <= t /\ t \in 0 .. tick /\ h \in Nat
        BY <1>4, <2>2, <3>1, NoticesAssumption DEF Due, NoticesInv, NoneMissed
      <4>2. QED BY <1>2, <1>3, <4>1, NoticesAssumption DEF NoticesTyped
    <3>2. CASE u # p
      <4>1. Due(u, h, t) /\ reader'[u].ends = reader[u].ends
        BY <1>4, <2>2, <3>2 DEF Due
      <4>2. QED BY <4>1 DEF NoticesInv, NoneMissed
    <3>3. QED BY <3>1, <3>2
  <2>3. QED BY <1>1, <2>1, <2>2 DEF NoneMissed
<1>8. QED BY <1>1, <1>2, <1>4, <1>5, <1>6, <1>7, ReadersMove DEF NoticesTyped

LEMMA RedeemStep == ASSUME NoticesInv, NEW p \in Readers, RedeemDiscount(p) PROVE NoticesInv'
<1>1. /\ reader' = [reader EXCEPT ![p].discount = PromoPct]
      /\ offers' = [offers EXCEPT ![p] = @ \cup {PromoPct}]
      /\ UNCHANGED <<tick, keys, noticeRun, told, toldTwice, collected, lookedAt>>
  BY DEF RedeemDiscount
<1>2. NoticesTyped
  BY DEF NoticesInv
<1>3. /\ reader' \in [Readers -> [ends : Nat, live : BOOLEAN, discount : Discounts, from : Nat]]
      /\ \A u \in Readers : /\ reader'[u].ends = reader[u].ends /\ reader'[u].live = reader[u].live
                            /\ reader'[u].from = reader[u].from
                            /\ u # p => reader'[u] = reader[u]
      /\ reader'[p].discount = PromoPct
  BY <1>1, <1>2 DEF NoticesTyped, Discounts
<1>4. /\ offers' \in [Readers -> SUBSET Discounts]
      /\ \A u \in Readers : u # p => offers'[u] = offers[u]
      /\ PromoPct \in offers'[p]
  BY <1>1, <1>2 DEF NoticesTyped, Discounts
<1>5. OfferNotRevived'
  <2>1. ASSUME NEW u \in Readers PROVE reader'[u].discount \in offers'[u] \cup {0}
    BY <1>3, <1>4 DEF NoticesInv, OfferNotRevived
  <2>2. QED BY <2>1 DEF OfferNotRevived
<1>6. NoneMissed'
  BY <1>1, <1>3, StillNoneMissed DEF NoticesInv
<1>7. QED BY <1>1, <1>2, <1>3, <1>4, <1>5, <1>6, ReadersMove DEF NoticesTyped

LEMMA LapseStep == ASSUME NoticesInv, NEW p \in Readers, Lapse(p) PROVE NoticesInv'
<1>1. /\ reader[p].live /\ reader' = [reader EXCEPT ![p].live = FALSE]
      /\ UNCHANGED <<tick, keys, noticeRun, told, toldTwice, collected, lookedAt, offers>>
  BY DEF Lapse
<1>2. NoticesTyped
  BY DEF NoticesInv
<1>3. /\ reader' \in [Readers -> [ends : Nat, live : BOOLEAN, discount : Discounts, from : Nat]]
      /\ \A u \in Readers : /\ reader'[u].ends = reader[u].ends
                            /\ reader'[u].from = reader[u].from
                            /\ reader'[u].discount = reader[u].discount
                            /\ reader'[u].live => reader[u].live
  <2>1. reader' \in [Readers -> [ends : Nat, live : BOOLEAN, discount : Discounts, from : Nat]]
    BY <1>1, <1>2 DEF NoticesTyped
  <2>2. \A u \in Readers : u # p => reader'[u] = reader[u]
    BY <1>1, <1>2 DEF NoticesTyped
  <2>3. /\ reader'[p].ends = reader[p].ends /\ reader'[p].discount = reader[p].discount
        /\ reader'[p].from = reader[p].from
    BY <1>1, <1>2 DEF NoticesTyped
  <2>4. QED BY <1>1, <2>1, <2>2, <2>3
<1>4. OfferNotRevived'
  BY <1>1, <1>3 DEF NoticesInv, OfferNotRevived
<1>5. NoneMissed'
  BY <1>1, <1>3, StillNoneMissed DEF NoticesInv
<1>6. QED BY <1>1, <1>2, <1>3, <1>4, <1>5, ReadersMove DEF NoticesTyped

LEMMA TickOnStep == ASSUME NoticesInv, TickOn PROVE NoticesInv'
<1>1. /\ tick' = tick + 1 /\ keys' = {k \in keys : k.until > tick'}
      /\ \A r \in NoticeRuns : noticeRun[r] # Asleep => tick + 1 - noticeRun[r].since < LongestRun
      /\ UNCHANGED <<reader, noticeRun, told, toldTwice, collected, lookedAt, offers>>
  BY DEF TickOn
<1>2. NoticesTyped
  BY DEF NoticesInv
<1>3. ASSUME NEW n \in NoticeShape, Claimed(n) PROVE Claimed(n)'
  <2>1. PICK s \in 0 .. tick, c \in 0 .. tick :
          /\ s <= c /\ Fits(n, s)
          /\ \/ c + LifeOf(n.kind) <= tick
             \/ [of |-> KeyOf(n), until |-> c + LifeOf(n.kind)] \in keys
    BY <1>3 DEF Claimed
  <2>2. s \in 0 .. tick' /\ c \in 0 .. tick' /\ tick \in Nat /\ LifeOf(n.kind) \in Nat
    BY <1>1, <1>2, Lives DEF NoticesTyped
  <2>3. Fits(n, s)'
    BY <2>1 DEF Fits, DayOf
  <2> DEFINE key == [of |-> KeyOf(n), until |-> c + LifeOf(n.kind)]
  <2>4. key.until = c + LifeOf(n.kind)
    OBVIOUS
  <2>5. CASE c + LifeOf(n.kind) <= tick'
    BY <2>1, <2>2, <2>3, <2>5 DEF Claimed
  <2>6. CASE ~(c + LifeOf(n.kind) <= tick')
    <3>1. key \in keys
      BY <1>1, <2>1, <2>2, <2>6
    <3>2. key.until > tick'
      BY <1>1, <2>2, <2>4, <2>6
    <3>3. key \in keys'
      BY <1>1, <3>1, <3>2
    <3>4. QED BY <2>1, <2>2, <2>3, <3>3 DEF Claimed
  <2>7. QED BY <2>5, <2>6
<1>4. ASSUME NEW q \in NoticeRuns PROVE RunInOrder(q)'
  <2>1. RunInOrder(q) /\ noticeRun[q] \in RunShape
    BY <1>2 DEF NoticesInv, NoticesTyped
  <2>2. noticeRun[q].at # "asleep" => noticeRun[q].since <= tick' /\ tick' < noticeRun[q].since + LongestRun
    <3>1. noticeRun[q].at # "asleep" => noticeRun[q] # Asleep
      BY DEF Asleep
    <3>2. noticeRun[q].since \in Nat /\ tick \in Nat /\ LongestRun \in Nat
      BY <1>2, <2>1, NoticesAssumption DEF NoticesTyped, RunShape
    <3>3. QED BY <1>1, <2>1, <3>1, <3>2 DEF RunInOrder
  <2>3. \A n \in noticeRun[q].now : n \notin told' /\ Claimed(n)'
    BY <1>1, <1>3, <2>1 DEF RunInOrder, RunShape
  <2>4. QED BY <1>1, <2>1, <2>2, <2>3 DEF RunInOrder, Fits, DayOf
<1>5. NoticesTyped'
  BY <1>1, <1>2 DEF NoticesTyped
<1>6. NobodyElse' /\ OfferNotRevived'
  BY <1>1 DEF NoticesInv, NobodyElse, OfferNotRevived
<1>7. NoneMissed'
  <2>1. lookedAt \subseteq 0 .. tick'
    BY <1>1, <1>2 DEF NoticesInv, NoneMissed, NoticesTyped
  <2>2. QED BY <1>1, <2>1 DEF NoticesInv, NoneMissed, Due
<1>8. \A n \in told' : Claimed(n)'
  BY <1>1, <1>2, <1>3 DEF NoticesInv, NoticesTyped
<1>9. toldTwice' = {}
  BY <1>1 DEF NoticesInv
<1>10. QED BY <1>4, <1>5, <1>6, <1>7, <1>8, <1>9 DEF NoticesInv

LEMMA NoticesStep == NoticesInv /\ [NoticesNext]_noticeVars => NoticesInv'
<1> SUFFICES ASSUME NoticesInv, [NoticesNext]_noticeVars PROVE NoticesInv'
  OBVIOUS
<1>1. ASSUME NEW r \in NoticeRuns, Collect(r) \/ Claim(r) \/ Grant(r) \/ Send(r) \/ RunDies(r)
      PROVE  NoticesInv'
  BY <1>1, CollectStep, ClaimStep, GrantStep, SendStep, RunDiesStep
<1>2. ASSUME NEW p \in Readers, Order(p) \/ RedeemDiscount(p) \/ Lapse(p) PROVE NoticesInv'
  BY <1>2, OrderStep, RedeemStep, LapseStep
<1>3. CASE UNCHANGED noticeVars
  <2>1. NoticesTyped /\ UNCHANGED <<tick, reader, keys, noticeRun, told, toldTwice, collected, lookedAt, offers>>
    BY <1>3 DEF noticeVars, NoticesInv
  <2>2. NoneMissed' /\ OfferNotRevived'
    BY <2>1 DEF NoticesInv, NoneMissed, OfferNotRevived, Due
  <2>3. QED BY <2>1, <2>2, ReadersMove DEF NoticesTyped
<1>4. QED BY <1>1, <1>2, <1>3, TickOnStep DEF NoticesNext

LEMMA NoticesAreRight == NoticesInv => NoticesHold
<1> SUFFICES ASSUME NoticesInv PROVE NoticesHold
  OBVIOUS
<1>1. ToldOnce /\ OfferNotRevived
  BY DEF NoticesInv, ToldOnce
<1>2. StepNeverMissed
  BY DEF NoticesInv, NoneMissed, Due, StepNeverMissed, Looked
<1>3. QED BY <1>1, <1>2 DEF NoticesHold

-----------------------------------------------------------------------------
(* Backups: a second is tainted when its archive is broken, or will be:    *)
(* two jobs write its dump, or the one that does no longer has it whole.   *)

BackupShape == [at : {"idle", "dumping", "dumped", "failed", "sending", "kept",
                      "missing", "sent", "dead"},
                stamp : Nat, unreached : SUBSET Channels]
Seconds == 1 .. MaxSeconds

BackupsTyped ==
    /\ second \in Seconds
    /\ backup \in [BackupRuns -> BackupShape]
    /\ dump \in [Seconds -> {"none", "part", "mixed", "whole"}]
    /\ archive \in [Seconds -> {"none", "whole", "broken"}]
    /\ breakdowns \in Nat /\ collisions \in Nat
    /\ dailies \in [Kinds -> [1 .. MaxDays -> Nat]]

DumpsAt(r, s) == backup[r].at \in AtDump /\ backup[r].stamp = s
InOrder(r) == dump[backup[r].stamp] = IF backup[r].at = "dumping" THEN "part" ELSE "whole"
Tainted(s) ==
    \/ archive[s] = "broken"
    \/ \E r \in BackupRuns : DumpsAt(r, s) /\ ~InOrder(r)
    \/ \E r, q \in BackupRuns : r # q /\ DumpsAt(r, s) /\ DumpsAt(q, s)
TaintedOnes == {s \in Seconds : Tainted(s)}

DaysInOrder ==
    /\ timer \subseteq dayKeys
    /\ \A k \in Kinds, d \in 1 .. MaxDays :
         /\ dailies[k][d] <= 1
         /\ dailies[k][d] = 1 => <<k, d>> \in dayKeys /\ <<k, d>> \notin timer

ArchivesInOrder ==
    /\ \A s \in Seconds : archive[s] # "none" => s \in Written
    /\ LastArchivesStand

BackupsInv ==
    /\ BackupsTyped
    /\ ArchivesInOrder
    /\ \A r \in BackupRuns : backup[r].at \in AtDump \cup {"sending"} => backup[r].stamp \in Seconds
    /\ Cardinality(TaintedOnes) <= breakdowns + collisions
    /\ NothingInPlainText
    /\ CopiesLeave
    /\ DaysInOrder

LEMMA SizeOf ==
  ASSUME NEW S \in SUBSET Seconds PROVE IsFiniteSet(S) /\ Cardinality(S) \in Nat
<1>1. IsFiniteSet(Seconds)
  BY FS_Interval, BackupsAssumption DEF Seconds
<1>2. IsFiniteSet(S)
  BY <1>1, FS_Subset
<1>3. Cardinality(S) \in Nat
  BY <1>2, FS_CardinalityType, Zenon
<1>4. QED BY <1>2, <1>3

LEMMA NoMore ==
  ASSUME NEW S \in SUBSET Seconds, NEW R \in SUBSET S PROVE Cardinality(R) <= Cardinality(S)
<1>1. IsFiniteSet(S)
  BY SizeOf
<1>2. QED BY <1>1, FS_Subset

LEMMA AtMostOneMore ==
  ASSUME NEW S \in SUBSET Seconds, NEW x \in Seconds, NEW R, R \subseteq S \cup {x}
  PROVE  Cardinality(R) <= Cardinality(S) + 1
<1>1. IsFiniteSet(S) /\ Cardinality(S) \in Nat /\ Cardinality(S \cup {x}) \in Nat
  BY SizeOf
<1>2. Cardinality(R) \in Nat /\ Cardinality(R) <= Cardinality(S \cup {x})
  BY SizeOf, NoMore
<1>3. Cardinality(S \cup {x}) = IF x \in S THEN Cardinality(S) ELSE Cardinality(S) + 1
  BY <1>1, FS_AddElement
<1>4. QED BY <1>1, <1>2, <1>3

LEMMA BackupsStart == BackupsInit => BackupsInv
<1> SUFFICES ASSUME BackupsInit PROVE BackupsInv
  OBVIOUS
<1> USE BackupsAssumption
<1>1. BackupsTyped
  BY DEF BackupsInit, BackupsTyped, Seconds, BackupShape, NoBackup, Channels, Kinds
<1>2. \A r \in BackupRuns : backup[r].at = "idle"
  BY DEF BackupsInit, NoBackup
<1>3. TaintedOnes = {}
  BY <1>2 DEF BackupsInit, TaintedOnes, Tainted, DumpsAt, AtDump, Seconds
<1>4. Cardinality(TaintedOnes) <= breakdowns + collisions
  BY <1>3, FS_EmptySet DEF BackupsInit
<1>5. NothingInPlainText /\ CopiesLeave
  BY <1>2 DEF BackupsInit, NothingInPlainText, CopiesLeave
<1>6. DaysInOrder
  BY DEF BackupsInit, DaysInOrder
<1>7. \A r \in BackupRuns : backup[r].at \notin AtDump \cup {"sending"}
  BY <1>2 DEF AtDump
<1>8. ArchivesInOrder
  BY DEF BackupsInit, ArchivesInOrder, LastArchivesStand, Written, Seconds
<1>9. QED BY <1>1, <1>4, <1>5, <1>6, <1>7, <1>8 DEF BackupsInv

(* Steps in which no day is concerned, and one second at most gets tainted *)
(* for each death, failure or collision.                                   *)
LEMMA JobsMove ==
  ASSUME BackupsInv, UNCHANGED <<dayKeys, timer, dailies>>, BackupsTyped',
         \A r \in BackupRuns : backup'[r].at \in AtDump \cup {"sending"} => backup'[r].stamp \in Seconds,
         \/ TaintedOnes' \subseteq TaintedOnes
         \/ \E s \in Seconds : /\ TaintedOnes' \subseteq TaintedOnes \cup {s}
                               /\ breakdowns + collisions + 1 <= breakdowns' + collisions',
         breakdowns + collisions <= breakdowns' + collisions',
         NothingInPlainText', CopiesLeave', ArchivesInOrder'
  PROVE  BackupsInv'
<1> DEFINE S == TaintedOnes
<1> PICK T : T = TaintedOnes'
  OBVIOUS
<1> PICK a0, c0 : a0 = breakdowns + collisions /\ c0 = breakdowns' + collisions'
  OBVIOUS
<1>1. S \in SUBSET Seconds /\ T \in SUBSET Seconds
  BY DEF TaintedOnes
<1>2. Cardinality(S) \in Nat /\ Cardinality(T) \in Nat
  BY <1>1, SizeOf
<1>3. Cardinality(S) <= a0 /\ a0 \in Nat /\ c0 \in Nat /\ a0 <= c0
  <2>1. a0 \in Nat /\ c0 \in Nat
    <3>1. breakdowns \in Nat /\ collisions \in Nat
      BY DEF BackupsInv, BackupsTyped
    <3>2. breakdowns' \in Nat /\ collisions' \in Nat
      BY DEF BackupsTyped
    <3>3. a0 = breakdowns + collisions
      OBVIOUS
    <3> PICK b1, c1 : b1 = breakdowns' /\ c1 = collisions'
      OBVIOUS
    <3>8. b1 \in Nat /\ c1 \in Nat
      BY <3>2
    <3>4. c0 = b1 + c1
      OBVIOUS
    <3>5. a0 \in Nat
      BY ONLY <3>1, <3>3
    <3>6. c0 \in Nat
      BY ONLY <3>8, <3>4
    <3>7. QED BY <3>5, <3>6
  <2>2. Cardinality(S) <= a0
    BY DEF BackupsInv
  <2>3. a0 <= c0
    OBVIOUS
  <2>4. QED BY <2>1, <2>2, <2>3
<1> HIDE DEF S
<1>5. ASSUME NEW s \in Seconds, T \subseteq S \cup {s}, a0 + 1 <= c0
      PROVE  Cardinality(T) <= c0
  <2>1. Cardinality(T) <= Cardinality(S) + 1
    BY <1>1, <1>5, AtMostOneMore
  <2>2. QED BY <1>2, <1>3, <1>5, <2>1
<1>6. Cardinality(T) <= c0
  <2>1. CASE T \subseteq S
    <3>1. Cardinality(T) <= Cardinality(S)
      BY <1>1, <2>1, NoMore
    <3>2. QED BY <1>2, <1>3, <3>1
  <2>2. CASE \E s \in Seconds : T \subseteq S \cup {s} /\ a0 + 1 <= c0
    BY <1>5, <2>2
  <2>3. QED BY <2>1, <2>2 DEF S
<1>7. DaysInOrder'
  BY DEF BackupsInv, DaysInOrder
<1>8. QED BY <1>6, <1>7 DEF BackupsInv

(* The calendar, the queue and the button: no job is concerned. *)
LEMMA CalendarMoves ==
  ASSUME BackupsInv, UNCHANGED <<backup, dump, archive, packed, breakdowns, collisions, copies>>,
         second' \in Seconds, dailies' \in [Kinds -> [1 .. MaxDays -> Nat]], DaysInOrder'
  PROVE  BackupsInv'
<1>1. BackupsTyped'
  BY DEF BackupsInv, BackupsTyped
<1>2. \A s \in Seconds : Tainted(s)' <=> Tainted(s)
  BY DEF Tainted, DumpsAt, InOrder
<1>3. TaintedOnes' = TaintedOnes
  BY <1>2 DEF TaintedOnes
<1>4. NothingInPlainText' /\ CopiesLeave'
  BY DEF BackupsInv, NothingInPlainText, CopiesLeave
<1>5. Cardinality(TaintedOnes') <= breakdowns' + collisions'
  BY <1>3 DEF BackupsInv
<1>6. ArchivesInOrder'
  BY DEF BackupsInv, ArchivesInOrder, LastArchivesStand, Written
<1>7. QED BY <1>1, <1>4, <1>5, <1>6 DEF BackupsInv

LEMMA CalendarSteps ==
  ASSUME BackupsInv,
         \/ NextSecond \/ WindowTurns \/ BackupNow
         \/ \E k \in Kinds : ClaimDay(k) \/ \E d \in 1 .. MaxDays : DoDaily(k, d)
         \/ UNCHANGED backupVars
  PROVE  BackupsInv'
<1>1. BackupsTyped /\ DaysInOrder
  BY DEF BackupsInv
<1>2. second \in Seconds /\ dailies \in [Kinds -> [1 .. MaxDays -> Nat]]
  BY <1>1 DEF BackupsTyped
<1>3. CASE NextSecond
  <2>1. second' \in Seconds
    BY <1>2, <1>3, BackupsAssumption DEF NextSecond, Seconds
  <2>2. DaysInOrder'
    BY <1>1, <1>3 DEF NextSecond, DaysInOrder
  <2>3. QED BY <1>2, <1>3, <2>1, <2>2, CalendarMoves DEF NextSecond
<1>4. CASE WindowTurns
  <2>1. DaysInOrder'
    BY <1>1, <1>4 DEF WindowTurns, DaysInOrder
  <2>2. QED BY <1>2, <1>4, <2>1, CalendarMoves DEF WindowTurns
<1>5. CASE BackupNow
  <2>1. DaysInOrder'
    BY <1>1, <1>5 DEF BackupNow, DaysInOrder
  <2>2. QED BY <1>2, <1>5, <2>1, CalendarMoves DEF BackupNow
<1>6. CASE UNCHANGED backupVars
  <2>1. DaysInOrder'
    BY <1>1, <1>6 DEF backupVars, DaysInOrder
  <2>2. QED BY <1>2, <1>6, <2>1, CalendarMoves DEF backupVars
<1>7. ASSUME NEW k \in Kinds, ClaimDay(k) PROVE BackupsInv'
  <2>1. /\ <<k, day>> \notin dayKeys
        /\ dayKeys' = dayKeys \cup {<<k, day>>} /\ timer' = timer \cup {<<k, day>>}
        /\ UNCHANGED <<second, dailies, backup, dump, archive, packed, breakdowns, collisions, copies>>
    BY <1>7 DEF ClaimDay, KeyUnset
  <2>2. DaysInOrder'
    BY <1>1, <2>1 DEF DaysInOrder
  <2>3. QED BY <1>2, <2>1, <2>2, CalendarMoves
<1>8. ASSUME NEW k \in Kinds, NEW d \in 1 .. MaxDays, DoDaily(k, d) PROVE BackupsInv'
  <2>1. /\ <<k, d>> \in timer /\ timer' = timer \ {<<k, d>>} /\ dayKeys' = dayKeys
        /\ dailies' = [dailies EXCEPT ![k][d] = @ + 1]
        /\ UNCHANGED <<second, backup, dump, archive, packed, breakdowns, collisions, copies>>
    BY <1>8 DEF DoDaily
  <2>2. dailies[k][d] = 0
    <3>1. dailies[k][d] \in Nat
      BY <1>2
    <3>2. dailies[k][d] <= 1 /\ dailies[k][d] # 1
      BY <1>1, <2>1 DEF DaysInOrder
    <3>3. QED BY <3>1, <3>2
  <2>3. /\ dailies' \in [Kinds -> [1 .. MaxDays -> Nat]] /\ dailies'[k][d] = 1
        /\ \A l \in Kinds, e \in 1 .. MaxDays : <<l, e>> # <<k, d>> => dailies'[l][e] = dailies[l][e]
    <3>1. dailies' = [dailies EXCEPT ![k] = [dailies[k] EXCEPT ![d] = 1]]
      BY <1>2, <2>1, <2>2
    <3>2. [dailies[k] EXCEPT ![d] = 1] \in [1 .. MaxDays -> Nat]
      BY <1>2
    <3>3. dailies' \in [Kinds -> [1 .. MaxDays -> Nat]]
      BY <1>2, <3>1, <3>2
    <3>4. dailies'[k][d] = 1
      BY <1>2, <3>1
    <3>5. ASSUME NEW l \in Kinds, NEW e \in 1 .. MaxDays, <<l, e>> # <<k, d>>
          PROVE  dailies'[l][e] = dailies[l][e]
      <4>1. CASE l # k
        BY <1>2, <3>1, <4>1
      <4>2. CASE l = k /\ e # d
        BY <1>2, <3>1, <4>2
      <4>3. QED BY <3>5, <4>1, <4>2
    <3>6. QED BY <3>3, <3>4, <3>5
  <2>4. DaysInOrder'
    <3>1. timer' \subseteq dayKeys'
      BY <1>1, <2>1 DEF DaysInOrder
    <3>2. ASSUME NEW l \in Kinds, NEW e \in 1 .. MaxDays
          PROVE  /\ dailies'[l][e] <= 1
                 /\ dailies'[l][e] = 1 => <<l, e>> \in dayKeys' /\ <<l, e>> \notin timer'
      <4>1. CASE <<l, e>> = <<k, d>>
        <5>1. l = k /\ e = d
          BY <4>1
        <5>2. QED BY <1>1, <2>1, <2>3, <5>1 DEF DaysInOrder
      <4>2. CASE <<l, e>> # <<k, d>>
        BY <1>1, <2>1, <2>3, <4>2 DEF DaysInOrder
      <4>3. QED BY <4>1, <4>2
    <3>3. QED BY <3>1, <3>2 DEF DaysInOrder
  <2>5. QED BY <1>2, <2>1, <2>3, <2>4, CalendarMoves
<1>9. QED BY <1>3, <1>4, <1>5, <1>6, <1>7, <1>8

(* One job goes from one stage to the next. *)
LEMMA OneJobMoves ==
  ASSUME BackupsTyped, NEW r \in BackupRuns, NEW v \in BackupShape,
         backup' = [backup EXCEPT ![r] = v]
  PROVE  /\ backup' \in [BackupRuns -> BackupShape]
         /\ backup'[r] = v /\ \A q \in BackupRuns : q # r => backup'[q] = backup[q]
  BY DEF BackupsTyped

LEMMA DumpStartsStep == ASSUME BackupsInv, NEW r \in BackupRuns, DumpStarts(r) PROVE BackupsInv'
<1> DEFINE v == [NoBackup EXCEPT !.at = "dumping", !.stamp = second]
           free == \A q \in BackupRuns : backup[q].stamp # second \/ backup[q].at \notin AtDump
<1>1. /\ backup[r].at = "idle" /\ backup' = [backup EXCEPT ![r] = v]
      /\ UNCHANGED <<second, dayKeys, timer, archive, packed, copies, dailies, breakdowns>>
      /\ \/ free /\ dump' = [dump EXCEPT ![second] = "part"] /\ collisions' = collisions
         \/ ~free /\ dump' = [dump EXCEPT ![second] = "mixed"] /\ collisions' = collisions + 1
  BY DEF DumpStarts
<1>2. BackupsTyped /\ second \in Seconds
  BY DEF BackupsInv, BackupsTyped
<1>3. v \in BackupShape /\ v.at = "dumping" /\ v.stamp = second
  <2>1. second \in Nat
    BY <1>2, BackupsAssumption DEF Seconds
  <2>2. QED BY <2>1 DEF NoBackup, BackupShape
<1> HIDE DEF v
<1>4. /\ backup' \in [BackupRuns -> BackupShape]
      /\ backup'[r] = v /\ \A q \in BackupRuns : q # r => backup'[q] = backup[q]
  BY <1>1, <1>2, <1>3, OneJobMoves
<1>5. \A x \in Seconds : x # second => dump'[x] = dump[x]
  BY <1>1, <1>2 DEF BackupsTyped
<1>6. BackupsTyped'
  BY <1>1, <1>2, <1>4 DEF BackupsTyped
<1>7. \A q \in BackupRuns : backup'[q].at \in AtDump \cup {"sending"} => backup'[q].stamp \in Seconds
  BY <1>2, <1>3, <1>4 DEF BackupsInv
<1>8. ASSUME NEW x \in Seconds, x # second, Tainted(x)' PROVE Tainted(x)
  <2>1. \A q \in BackupRuns : DumpsAt(q, x)' => q # r /\ DumpsAt(q, x) /\ backup'[q] = backup[q]
    BY <1>3, <1>4, <1>8 DEF DumpsAt
  <2>2. \A q \in BackupRuns : DumpsAt(q, x)' /\ ~InOrder(q)' => ~InOrder(q)
    BY <1>5, <1>8, <2>1 DEF DumpsAt, InOrder
  <2>3. QED BY <1>1, <1>8, <2>1, <2>2 DEF Tainted
<1>9. \/ TaintedOnes' \subseteq TaintedOnes
      \/ \E s \in Seconds : /\ TaintedOnes' \subseteq TaintedOnes \cup {s}
                            /\ breakdowns + collisions + 1 <= breakdowns' + collisions'
  <2>1. CASE free
    <3>1. dump'[second] = "part"
      BY <1>1, <1>2, <2>1 DEF BackupsTyped
    <3>2. \A q \in BackupRuns : DumpsAt(q, second)' => q = r
      BY <1>1, <1>4, <2>1 DEF DumpsAt
    <3>3. InOrder(r)'
      BY <1>3, <1>4, <3>1 DEF InOrder
    <3>4. \A x : x = second /\ Tainted(x)' => Tainted(x)
      BY <1>1, <3>2, <3>3 DEF Tainted
    <3>5. QED BY <1>8, <3>4 DEF TaintedOnes
  <2>2. CASE ~free
    <3>1. breakdowns + collisions + 1 <= breakdowns' + collisions'
      <4>1. breakdowns' = breakdowns /\ collisions' = collisions + 1
        BY <1>1, <2>2
      <4>2. breakdowns \in Nat /\ collisions \in Nat
        BY <1>2 DEF BackupsTyped
      <4>3. QED BY <4>1, <4>2
    <3>2. TaintedOnes' \subseteq TaintedOnes \cup {second}
      BY <1>8 DEF TaintedOnes
    <3>3. QED BY <1>2, <3>1, <3>2
  <2>3. QED BY <2>1, <2>2
<1>10. breakdowns + collisions <= breakdowns' + collisions'
  <2>1. breakdowns' = breakdowns /\ (collisions' = collisions \/ collisions' = collisions + 1)
    BY <1>1
  <2>2. breakdowns \in Nat /\ collisions \in Nat
    BY <1>2 DEF BackupsTyped
  <2>3. QED BY <2>1, <2>2
<1>11. NothingInPlainText'
  <2>1. ASSUME NEW x \in Seconds, dump'[x] # "none"
        PROVE  \E q \in BackupRuns : backup'[q].stamp = x /\ backup'[q].at \in AtDump \cup {"dead"}
    <3>1. CASE x = second
      BY <1>3, <1>4, <3>1 DEF AtDump
    <3>2. CASE x # second
      <4>1. PICK q \in BackupRuns : backup[q].stamp = x /\ backup[q].at \in AtDump \cup {"dead"}
        BY <1>2, <1>5, <2>1, <3>2 DEF BackupsInv, NothingInPlainText, BackupsTyped
      <4>2. q # r
        BY <1>1, <4>1 DEF AtDump
      <4>3. QED BY <1>4, <4>1, <4>2
    <3>3. QED BY <3>1, <3>2
  <2>2. DOMAIN dump' = Seconds
    BY <1>6 DEF BackupsTyped
  <2>3. QED BY <2>1, <2>2 DEF NothingInPlainText
<1>12. CopiesLeave'
  BY <1>1, <1>3, <1>4 DEF BackupsInv, CopiesLeave
<1>13. ArchivesInOrder'
  BY <1>1 DEF BackupsInv, ArchivesInOrder, LastArchivesStand, Written
<1>14. QED BY <1>1, <1>6, <1>7, <1>9, <1>10, <1>11, <1>12, <1>13, JobsMove

LEMMA MoreCauses ==
  ASSUME breakdowns \in Nat, collisions \in Nat, breakdowns' \in Nat, collisions' = collisions,
         breakdowns <= breakdowns'
  PROVE  breakdowns + collisions <= breakdowns' + collisions'
<1> PICK m, n, k : m = breakdowns /\ n = breakdowns' /\ k = collisions
  OBVIOUS
<1>1. m \in Nat /\ n \in Nat /\ k \in Nat /\ m <= n
  OBVIOUS
<1>2. m + k <= n + k
  BY ONLY <1>1
<1>3. QED BY <1>2

(* A dump ends, well or badly, or is packed. *)
(* An archive is written, over one of the same second perhaps, and the     *)
(* older ones may go. *)
NewerThan(x) == {t \in Written : t # x /\ <<t, x>> \in packed}

LEMMA OneWrittenOver ==
  ASSUME BackupsInv, NEW s \in Seconds, packed' = PackedLast(s),
         archive' \in [Seconds -> {"none", "whole", "broken"}], archive'[s] # "none",
         NEW there, there = {t \in Seconds : t = s \/ archive[t] # "none"},
         \A x \in Seconds : /\ archive'[x] # "none" => x \in there
                            /\ archive'[x] = "none" =>
                                 archive[x] = "none" \/ x \notin NewestOf(PackedLast(s), there)
  PROVE  ArchivesInOrder'
<1>1. BackupsTyped /\ ArchivesInOrder
  BY DEF BackupsInv
<1>2. DOMAIN archive = Seconds /\ DOMAIN archive' = Seconds
  BY <1>1 DEF BackupsTyped
<1>3. Written \subseteq Seconds /\ Written' = Written \cup {s}
  BY <1>2 DEF Written, PackedLast
<1>4. there \subseteq Written'
  BY <1>1, <1>3 DEF ArchivesInOrder
<1>5. ASSUME NEW x \in Seconds, x \in Written', archive'[x] = "none"
      PROVE  ~(Cardinality(NewerThan(x)') < Keep)
  <2> PICK N : N = NewerThan(x)'
    OBVIOUS
  <2>1. N = {t \in Written' : t # x /\ <<t, x>> \in packed'}
    BY DEF NewerThan
  <2>2. x # s /\ x \in Written
    BY <1>3, <1>5
  <2>3. N \in SUBSET Seconds /\ Cardinality(N) \in Nat /\ Keep \in Nat
    BY <1>3, <2>1, SizeOf, BackupsAssumption
  <2>4. CASE archive[x] = "none"
    <3>1. ~(Cardinality(NewerThan(x)) < Keep)
      BY <1>1, <2>2, <2>4 DEF ArchivesInOrder, LastArchivesStand, NewerThan
    <3>2. NewerThan(x) \in SUBSET N
      BY <1>3, <2>1, <2>2 DEF NewerThan, PackedLast
    <3>3. Cardinality(NewerThan(x)) <= Cardinality(N) /\ Cardinality(NewerThan(x)) \in Nat
      BY <2>3, <3>2, NoMore, SizeOf
    <3>4. QED BY <2>3, <3>1, <3>3
  <2>5. CASE archive[x] # "none"
    <3> DEFINE P == {t \in there : t # x /\ <<t, x>> \in PackedLast(s)}
    <3>1. x \in there
      BY <2>5
    <3>2. ~(Cardinality(P) < Keep)
      BY <1>5, <2>5, <3>1 DEF NewestOf
    <3>3. P \in SUBSET N
      BY <1>4, <2>1
    <3> HIDE DEF P
    <3>4. Cardinality(P) <= Cardinality(N) /\ Cardinality(P) \in Nat
      BY <2>3, <3>3, NoMore, SizeOf
    <3>5. QED BY <2>3, <3>2, <3>4
  <2>6. QED BY <2>4, <2>5
<1>6. LastArchivesStand'
  BY <1>2, <1>3, <1>5 DEF LastArchivesStand, NewerThan
<1>7. QED BY <1>4, <1>6 DEF ArchivesInOrder

SpoilsOnly(r) ==
    \A x \in Seconds : archive'[x] = "broken" =>
        archive[x] = "broken" \/ (x = backup[r].stamp /\ ~InOrder(r))

LEMMA DumpOver ==
  ASSUME BackupsInv, NEW r \in BackupRuns, NEW s, s = backup[r].stamp, backup[r].at \in AtDump,
         NEW stage \in {"dumped", "failed", "sending", "kept"}, Now(r, stage),
         UNCHANGED <<second, dayKeys, timer, copies, dailies, collisions>>,
         breakdowns' \in Nat, breakdowns <= breakdowns',
         NEW d \in {"none", "part", "mixed", "whole"}, dump' = [dump EXCEPT ![s] = d],
         stage = "dumped" => d = (IF dump[s] = "part" THEN "whole" ELSE dump[s]),
         stage = "dumped" => backup[r].at = "dumping",
         stage # "dumped" => d = "none",
         archive' \in [Seconds -> {"none", "whole", "broken"}],
         SpoilsOnly(r), ArchivesInOrder'
  PROVE  BackupsInv'
<1>1. BackupsTyped /\ s \in Seconds
  BY DEF BackupsInv
<1>2. /\ backup' \in [BackupRuns -> BackupShape]
      /\ backup'[r].at = stage /\ backup'[r].stamp = s
      /\ \A q \in BackupRuns : q # r => backup'[q] = backup[q]
  BY <1>1 DEF Now, BackupsTyped, BackupShape
<1>3. /\ dump' \in [Seconds -> {"none", "part", "mixed", "whole"}]
      /\ dump'[s] = d /\ \A x \in Seconds : x # s => dump'[x] = dump[x]
  BY <1>1 DEF BackupsTyped
<1>4. BackupsTyped'
  BY <1>1, <1>2, <1>3 DEF BackupsTyped
<1>5. \A q \in BackupRuns : backup'[q].at \in AtDump \cup {"sending"} => backup'[q].stamp \in Seconds
  BY <1>1, <1>2 DEF BackupsInv
<1>6. ASSUME NEW x \in Seconds, Tainted(x)' PROVE Tainted(x)
  <2>1. \A q \in BackupRuns : DumpsAt(q, x)' => DumpsAt(q, x)
    BY <1>1, <1>2 DEF DumpsAt
  <2>2. DumpsAt(r, s)
    BY DEF DumpsAt
  <2>3. CASE archive'[x] = "broken"
    BY <2>2, <2>3 DEF Tainted, SpoilsOnly
  <2>4. ASSUME NEW q \in BackupRuns, DumpsAt(q, x)', ~InOrder(q)' PROVE Tainted(x)
    <3>1. CASE x = s /\ q # r
      BY <2>1, <2>2, <2>4, <3>1 DEF Tainted
    <3>2. CASE x = s /\ q = r
      <4>1. stage = "dumped"
        BY <1>2, <2>4, <3>2 DEF DumpsAt, AtDump
      <4>2. d # "whole"
        BY <1>2, <1>3, <2>4, <3>2, <4>1 DEF InOrder
      <4>3. dump[s] # "part" /\ backup[r].at = "dumping"
        BY <4>1, <4>2
      <4>4. ~InOrder(r)
        BY <4>3 DEF InOrder
      <4>5. QED BY <2>2, <3>2, <4>4 DEF Tainted
    <3>3. CASE x # s
      <4>1. q # r /\ backup'[q] = backup[q]
        BY <1>2, <2>4, <3>3 DEF DumpsAt
      <4>2. backup[q].stamp = x
        BY <2>1, <2>4 DEF DumpsAt
      <4>3. ~InOrder(q)
        BY <1>3, <2>4, <3>3, <4>1, <4>2 DEF InOrder
      <4>4. QED BY <2>1, <2>4, <4>3 DEF Tainted
    <3>4. QED BY <3>1, <3>2, <3>3
  <2>5. QED BY <1>6, <2>1, <2>3, <2>4 DEF Tainted
<1>7. TaintedOnes' \subseteq TaintedOnes
  BY <1>6 DEF TaintedOnes
<1>8. NothingInPlainText'
  <2>1. ASSUME NEW x \in Seconds, dump'[x] # "none"
        PROVE  \E q \in BackupRuns : backup'[q].stamp = x /\ backup'[q].at \in AtDump \cup {"dead"}
    <3>1. CASE x = s
      BY <1>2, <1>3, <2>1, <3>1 DEF AtDump
    <3>2. CASE x # s
      <4>1. PICK q \in BackupRuns : backup[q].stamp = x /\ backup[q].at \in AtDump \cup {"dead"}
        BY <1>1, <1>3, <2>1, <3>2 DEF BackupsInv, NothingInPlainText, BackupsTyped
      <4>2. QED BY <1>2, <3>2, <4>1
    <3>3. QED BY <3>1, <3>2
  <2>2. DOMAIN dump' = Seconds
    BY <1>3
  <2>3. QED BY <2>1, <2>2 DEF NothingInPlainText
<1>9. CopiesLeave'
  BY <1>2 DEF BackupsInv, CopiesLeave
<1>10. breakdowns + collisions <= breakdowns' + collisions'
  <2>1. breakdowns \in Nat /\ collisions \in Nat
    BY <1>1 DEF BackupsTyped
  <2>2. QED BY <2>1, MoreCauses
<1>11. QED BY <1>4, <1>5, <1>7, <1>8, <1>9, <1>10, JobsMove

LEMMA DumpEndsStep == ASSUME BackupsInv, NEW r \in BackupRuns, DumpEnds(r) PROVE BackupsInv'
<1> PICK s : s = backup[r].stamp
  OBVIOUS
<1> PICK d : d = IF dump[s] = "part" THEN "whole" ELSE dump[s]
  OBVIOUS
<1>1. BackupsTyped /\ backup[r].at = "dumping" /\ backup[r].at \in AtDump
  BY DEF BackupsInv, DumpEnds, AtDump
<1>2. s \in Seconds
  BY <1>1 DEF BackupsInv
<1>3. d \in {"none", "part", "mixed", "whole"}
  BY <1>1, <1>2 DEF BackupsTyped
<1>4. /\ Now(r, "dumped") /\ dump' = [dump EXCEPT ![s] = d]
      /\ UNCHANGED <<second, dayKeys, timer, copies, dailies, collisions, breakdowns, archive>>
  BY <1>1, <1>2 DEF DumpEnds, BackupsTyped
<1>5. /\ breakdowns' \in Nat /\ breakdowns <= breakdowns'
      /\ archive' \in [Seconds -> {"none", "whole", "broken"}]
  BY <1>1, <1>4 DEF BackupsTyped
<1>6. SpoilsOnly(r)
  BY <1>4 DEF SpoilsOnly
<1>7. ArchivesInOrder'
  <2>1. packed' = packed
    BY DEF DumpEnds
  <2>2. QED BY <1>4, <2>1 DEF BackupsInv, ArchivesInOrder, LastArchivesStand, Written
<1>8. QED BY <1>1, <1>3, <1>4, <1>5, <1>6, <1>7, DumpOver

LEMMA DumpFailsStep == ASSUME BackupsInv, NEW r \in BackupRuns, DumpFails(r) PROVE BackupsInv'
<1> PICK s : s = backup[r].stamp
  OBVIOUS
<1>1. BackupsTyped /\ backup[r].at \in AtDump
  BY DEF BackupsInv, DumpFails, AtDump
<1>2. /\ Now(r, "failed") /\ dump' = [dump EXCEPT ![s] = "none"]
      /\ UNCHANGED <<second, dayKeys, timer, copies, dailies, collisions, archive>>
      /\ breakdowns' = breakdowns + 1
  BY DEF DumpFails, Breaks
<1>3. breakdowns \in Nat /\ archive' \in [Seconds -> {"none", "whole", "broken"}]
  BY <1>1, <1>2 DEF BackupsTyped
<1>4. breakdowns' \in Nat /\ breakdowns <= breakdowns'
  BY <1>2, <1>3
<1>5. SpoilsOnly(r)
  BY <1>2 DEF SpoilsOnly
<1>6. ArchivesInOrder'
  <2>1. packed' = packed
    BY DEF DumpFails
  <2>2. QED BY <1>2, <2>1 DEF BackupsInv, ArchivesInOrder, LastArchivesStand, Written
<1>7. QED BY <1>1, <1>2, <1>3, <1>4, <1>5, <1>6, DumpOver

LEMMA PackStep == ASSUME BackupsInv, NEW r \in BackupRuns, Pack(r) PROVE BackupsInv'
<1> PICK s : s = backup[r].stamp
  OBVIOUS
<1>1. BackupsTyped /\ backup[r].at = "dumped" /\ backup[r].at \in AtDump
  BY DEF BackupsInv, Pack, AtDump
<1>2. PICK stage \in {"sending", "kept"} : Now(r, stage)
  BY DEF Pack
<1>3. /\ dump' = [dump EXCEPT ![s] = "none"]
      /\ UNCHANGED <<second, dayKeys, timer, copies, dailies, collisions, breakdowns>>
  BY DEF Pack
<1> DEFINE there == {t \in DOMAIN archive : t = s \/ archive[t] # "none"}
           last == NewestOf(PackedLast(s), there)
<1>4. /\ archive' = [t \in DOMAIN archive |->
                     IF t \notin last THEN "none" ELSE IF t = s THEN Content(s) ELSE archive[t]]
      /\ packed' = PackedLast(s)
  BY DEF Pack
<1>5. DOMAIN archive = Seconds /\ \A x \in Seconds : archive[x] \in {"none", "whole", "broken"}
  BY <1>1 DEF BackupsTyped
<1>6. Content(s) \in {"whole", "broken"} /\ (Content(s) = "broken" => ~InOrder(r))
  BY <1>1 DEF Content, InOrder
<1>7. archive' \in [Seconds -> {"none", "whole", "broken"}]
  BY <1>4, <1>5, <1>6
<1>8. ASSUME NEW x \in Seconds, archive'[x] = "broken"
      PROVE  archive[x] = "broken" \/ (x = s /\ ~InOrder(r))
  BY <1>4, <1>5, <1>6, <1>8
<1>9. breakdowns' \in Nat /\ breakdowns <= breakdowns'
  BY <1>1, <1>3 DEF BackupsTyped
<1>10. /\ stage \in {"dumped", "failed", "sending", "kept"} /\ stage # "dumped"
       /\ SpoilsOnly(r)
  BY <1>8 DEF SpoilsOnly
<1>12. s \in Seconds
  BY <1>1 DEF BackupsInv
<1>13. ArchivesInOrder'
  <2>1. s \in last
    <3>1. s \in there
      BY <1>5, <1>12
    <3>2. {t \in there : t # s /\ <<t, s>> \in PackedLast(s)} = {}
      BY DEF PackedLast
    <3>5. Cardinality({}) = 0
      BY FS_EmptySet
    <3>6. Cardinality({t \in there : t # s /\ <<t, s>> \in PackedLast(s)}) = 0
      BY <3>2, <3>5
    <3>7. Keep \in Nat /\ Keep > 0
      BY BackupsAssumption
    <3>3. Cardinality({t \in there : t # s /\ <<t, s>> \in PackedLast(s)}) < Keep
      BY <3>6, <3>7
    <3>4. QED BY <3>1, <3>3 DEF NewestOf
  <2>2. archive'[s] # "none"
    BY <1>4, <1>5, <1>6, <1>12, <2>1
  <2>3. ASSUME NEW x \in Seconds
        PROVE  /\ archive'[x] # "none" => x \in there
               /\ archive'[x] = "none" => archive[x] = "none" \/ x \notin last
    <3>1. archive'[x] = IF x \notin last THEN "none" ELSE IF x = s THEN Content(s) ELSE archive[x]
      BY <1>4, <1>5
    <3>2. last \subseteq there
      BY DEF NewestOf
    <3> HIDE DEF last
    <3>3. QED BY <1>6, <3>1, <3>2
  <2>4. there = {t \in Seconds : t = s \/ archive[t] # "none"}
    BY <1>5
  <2> PICK ones : ones = there
    OBVIOUS
  <2>5. \A x \in Seconds : /\ archive'[x] # "none" => x \in ones
                           /\ archive'[x] = "none" =>
                                archive[x] = "none" \/ x \notin NewestOf(PackedLast(s), ones)
    BY <2>3
  <2> HIDE DEF there, last
  <2>6. QED BY <1>4, <1>7, <1>12, <2>2, <2>4, <2>5, OneWrittenOver
<1>14. CASE stage = "sending"
  <2>1. Now(r, "sending")
    BY <1>2, <1>14
  <2>2. QED BY <1>1, <1>3, <1>7, <1>9, <1>10, <1>13, <2>1, DumpOver
<1>15. CASE stage = "kept"
  <2>1. Now(r, "kept")
    BY <1>2, <1>15
  <2>2. QED BY <1>1, <1>3, <1>7, <1>9, <1>10, <1>13, <2>1, DumpOver
<1>16. QED BY <1>14, <1>15

(* The archive goes out, or does not. *)
LEMMA SentStep == ASSUME BackupsInv, NEW r \in BackupRuns, SendArchive(r) \/ TopicIsOff(r)
                  PROVE BackupsInv'
<1>1. BackupsTyped /\ backup[r].at = "sending" /\ backup[r].at \notin AtDump
  BY DEF BackupsInv, SendArchive, TopicIsOff, AtDump
<1>2. UNCHANGED <<second, dayKeys, timer, dump, archive, packed, dailies, collisions>>
  BY DEF SendArchive, TopicIsOff
<1>3. /\ backup' \in [BackupRuns -> BackupShape]
      /\ backup'[r].at \in {"missing", "sent", "kept"} /\ backup'[r].stamp = backup[r].stamp
      /\ \A q \in BackupRuns : q # r => backup'[q] = backup[q]
      /\ copies \subseteq copies'
      /\ backup'[r].at = "sent" =>
            backup'[r].stamp \in copies' \/ "admins" \in backup'[r].unreached
      /\ breakdowns' \in Nat /\ breakdowns <= breakdowns'
  <2>1. breakdowns \in Nat
    BY <1>1 DEF BackupsTyped
  <2>2. CASE (Now(r, "missing") \/ Now(r, "kept")) /\ UNCHANGED <<copies, breakdowns>>
    <3>1. PICK stage \in {"missing", "kept"} : Now(r, stage)
      BY <2>2
    <3> DEFINE v == [backup[r] EXCEPT !.at = stage]
    <3>2. v \in BackupShape /\ v.at = stage /\ v.stamp = backup[r].stamp
      BY <1>1 DEF BackupsTyped, BackupShape
    <3>3. backup' = [backup EXCEPT ![r] = v]
      BY <1>1, <3>1 DEF Now, BackupsTyped, BackupShape
    <3> HIDE DEF v
    <3>4. /\ backup' \in [BackupRuns -> BackupShape]
          /\ backup'[r] = v /\ \A q \in BackupRuns : q # r => backup'[q] = backup[q]
      BY <1>1, <3>2, <3>3, OneJobMoves
    <3>5. QED BY <2>1, <2>2, <3>2, <3>4
  <2>3. ASSUME NEW unreached \in SUBSET Channels, NEW wired \in BOOLEAN, NEW dm \in BOOLEAN,
               NEW group \in BOOLEAN, group = (wired /\ "group" \notin unreached),
               NEW admins, admins = (AdminsToo(dm, group) /\ "admins" \notin unreached),
               Breaks(Cardinality(unreached)),
               backup' = [backup EXCEPT ![r].at = "sent", ![r].unreached = unreached],
               copies' = IF group \/ admins THEN copies \cup {backup[r].stamp} ELSE copies
        PROVE  /\ backup' \in [BackupRuns -> BackupShape]
               /\ backup'[r].at = "sent" /\ backup'[r].stamp = backup[r].stamp
               /\ \A q \in BackupRuns : q # r => backup'[q] = backup[q]
               /\ copies \subseteq copies'
               /\ backup'[r].stamp \in copies' \/ "admins" \in backup'[r].unreached
               /\ breakdowns' \in Nat /\ breakdowns <= breakdowns'
    <3> DEFINE v == [backup[r] EXCEPT !.at = "sent", !.unreached = unreached]
    <3>1. v \in BackupShape /\ v.at = "sent" /\ v.unreached = unreached /\ v.stamp = backup[r].stamp
      BY <1>1 DEF BackupsTyped, BackupShape
    <3>2. backup' = [backup EXCEPT ![r] = v]
      BY <1>1, <2>3 DEF BackupsTyped, BackupShape
    <3> HIDE DEF v
    <3>3. /\ backup' \in [BackupRuns -> BackupShape]
          /\ backup'[r] = v /\ \A q \in BackupRuns : q # r => backup'[q] = backup[q]
      BY <1>1, <3>1, <3>2, OneJobMoves
    <3>4. Cardinality(unreached) \in Nat
      <4>1. IsFiniteSet(Channels)
        <5>1. IsFiniteSet({"group"})
          BY FS_Singleton
        <5>2. IsFiniteSet({"group"} \cup {"admins"})
          BY <5>1, FS_AddElement
        <5>3. Channels = {"group"} \cup {"admins"}
          BY DEF Channels
        <5>4. QED BY <5>2, <5>3
      <4>2. IsFiniteSet(unreached)
        BY <4>1, FS_Subset
      <4>3. Cardinality(unreached) \in Nat
        BY <4>2, FS_CardinalityType, Zenon
      <4>4. QED BY <4>3
    <3>5. breakdowns' \in Nat /\ breakdowns <= breakdowns'
      BY <2>1, <2>3, <3>4 DEF Breaks
    <3>6. ~group => admins \/ "admins" \in unreached
      BY <2>3 DEF AdminsToo
    <3>7. copies \subseteq copies' /\ (backup[r].stamp \in copies' \/ "admins" \in unreached)
      BY <2>3, <3>6
    <3>8. QED BY <3>1, <3>3, <3>5, <3>7
  <2>4. CASE TopicIsOff(r)
    BY <2>2, <2>4, <1>1 DEF TopicIsOff
  <2>5. CASE SendArchive(r)
    <3>1. CASE archive[backup[r].stamp] = "none"
      BY <2>2, <2>5, <3>1 DEF SendArchive
    <3>2. CASE archive[backup[r].stamp] # "none"
      <4>1. PICK unreached \in SUBSET Channels, wired \in BOOLEAN, dm \in BOOLEAN :
              LET group == wired /\ "group" \notin unreached
                  admins == AdminsToo(dm, group) /\ "admins" \notin unreached
              IN  /\ Breaks(Cardinality(unreached))
                  /\ backup' = [backup EXCEPT ![r].at = "sent", ![r].unreached = unreached]
                  /\ copies' = IF group \/ admins THEN copies \cup {backup[r].stamp} ELSE copies
        BY <2>5, <3>2 DEF SendArchive
      <4> PICK group : group = (wired /\ "group" \notin unreached)
        OBVIOUS
      <4> PICK admins : admins = (AdminsToo(dm, group) /\ "admins" \notin unreached)
        OBVIOUS
      <4>2. group \in BOOLEAN
        OBVIOUS
      <4>3. /\ Breaks(Cardinality(unreached))
            /\ backup' = [backup EXCEPT ![r].at = "sent", ![r].unreached = unreached]
            /\ copies' = IF group \/ admins THEN copies \cup {backup[r].stamp} ELSE copies
        BY <4>1
      <4>4. QED BY <2>3, <4>2, <4>3
    <3>3. QED BY <3>1, <3>2
  <2>6. QED BY <2>4, <2>5
<1>4. BackupsTyped'
  BY <1>1, <1>2, <1>3 DEF BackupsTyped
<1>5. \A q \in BackupRuns : backup'[q].at \in AtDump \cup {"sending"} => backup'[q].stamp \in Seconds
  BY <1>3 DEF BackupsInv, AtDump
<1>6. ASSUME NEW x \in Seconds, Tainted(x)' PROVE Tainted(x)
  <2>1. \A q \in BackupRuns : DumpsAt(q, x)' => q # r /\ DumpsAt(q, x) /\ backup'[q] = backup[q]
    BY <1>3 DEF DumpsAt, AtDump
  <2>2. \A q \in BackupRuns : DumpsAt(q, x)' /\ ~InOrder(q)' => ~InOrder(q)
    BY <1>2, <2>1 DEF InOrder
  <2>3. QED BY <1>2, <1>6, <2>1, <2>2 DEF Tainted
<1>7. TaintedOnes' \subseteq TaintedOnes
  BY <1>6 DEF TaintedOnes
<1>8. breakdowns + collisions <= breakdowns' + collisions'
  <2>1. breakdowns \in Nat /\ collisions \in Nat
    BY <1>1 DEF BackupsTyped
  <2>2. QED BY <1>2, <1>3, <2>1, MoreCauses
<1>9. NothingInPlainText'
  <2>1. ASSUME NEW x \in DOMAIN dump, dump[x] # "none"
        PROVE  \E q \in BackupRuns : backup'[q].stamp = x /\ backup'[q].at \in AtDump \cup {"dead"}
    <3>1. PICK q \in BackupRuns : backup[q].stamp = x /\ backup[q].at \in AtDump \cup {"dead"}
      BY <2>1 DEF BackupsInv, NothingInPlainText
    <3>2. q # r
      BY <1>1, <3>1
    <3>3. QED BY <1>3, <3>1, <3>2
  <2>2. QED BY <1>2, <2>1 DEF NothingInPlainText
<1>10. CopiesLeave'
  BY <1>3 DEF BackupsInv, CopiesLeave
<1>11. ArchivesInOrder'
  BY <1>2 DEF BackupsInv, ArchivesInOrder, LastArchivesStand, Written
<1>12. QED BY <1>2, <1>4, <1>5, <1>7, <1>8, <1>9, <1>10, <1>11, JobsMove

LEMMA WorkerDiesStep == ASSUME BackupsInv, WorkerDies PROVE BackupsInv'
<1>1. BackupsTyped
  BY DEF BackupsInv
<1>2. /\ backup' = [r \in BackupRuns |->
                       IF backup[r].at \in AtDump \cup {"sending"}
                         THEN [backup[r] EXCEPT !.at = "dead"] ELSE backup[r]]
      /\ timer' = {} /\ breakdowns' = breakdowns + 1
      /\ UNCHANGED <<second, dayKeys, dump, copies, dailies, collisions>>
  BY DEF WorkerDies, Breaks
<1>3. /\ backup' \in [BackupRuns -> BackupShape]
      /\ \A r \in BackupRuns : backup'[r].stamp = backup[r].stamp
      /\ \A r \in BackupRuns : \/ backup'[r] = backup[r] /\ backup[r].at \notin AtDump \cup {"sending"}
                               \/ backup'[r].at = "dead"
  <2>1. ASSUME NEW r \in BackupRuns
        PROVE  /\ backup'[r] \in BackupShape /\ backup'[r].stamp = backup[r].stamp
               /\ \/ backup'[r] = backup[r] /\ backup[r].at \notin AtDump \cup {"sending"}
                  \/ backup'[r].at = "dead"
    <3> DEFINE v == [backup[r] EXCEPT !.at = "dead"]
    <3>1. backup[r] \in BackupShape
      BY <1>1 DEF BackupsTyped
    <3>2. v \in BackupShape /\ v.at = "dead" /\ v.stamp = backup[r].stamp
      BY <3>1 DEF BackupShape
    <3>3. backup'[r] = IF backup[r].at \in AtDump \cup {"sending"} THEN v ELSE backup[r]
      BY <1>2
    <3> HIDE DEF v
    <3>4. QED BY <3>1, <3>2, <3>3
  <2>2. backup' \in [BackupRuns -> BackupShape]
    BY <1>2, <2>1
  <2>3. QED BY <2>1, <2>2
<1>4. \A r \in BackupRuns : backup'[r].at \notin AtDump \cup {"sending"}
  BY <1>3 DEF AtDump
<1>5. PICK s : /\ \A x \in Seconds : archive'[x] = "broken" => archive[x] = "broken" \/ x = s
               /\ s \in Seconds \/ archive' = archive
               /\ archive' \in [Seconds -> {"none", "whole", "broken"}]
  <2>1. archive \in [Seconds -> {"none", "whole", "broken"}]
    BY <1>1 DEF BackupsTyped
  <2>2. CASE archive' = archive
    BY <2>1, <2>2
  <2>3. ASSUME NEW r \in BackupRuns, backup[r].at = "dumped",
               archive' = [archive EXCEPT ![backup[r].stamp] = "broken"]
        PROVE  \E s : /\ \A x \in Seconds : archive'[x] = "broken" => archive[x] = "broken" \/ x = s
                      /\ s \in Seconds \/ archive' = archive
                      /\ archive' \in [Seconds -> {"none", "whole", "broken"}]
    <3> PICK s : s = backup[r].stamp
      OBVIOUS
    <3>1. s \in Seconds
      BY <2>3 DEF BackupsInv, AtDump
    <3>2. \A x \in Seconds : archive'[x] = "broken" => archive[x] = "broken" \/ x = s
      BY <2>1, <2>3, <3>1
    <3>3. archive' \in [Seconds -> {"none", "whole", "broken"}]
      BY <2>1, <2>3, <3>1
    <3>4. QED BY <3>1, <3>2, <3>3
  <2>4. QED BY <2>2, <2>3 DEF WorkerDies
<1>6. ASSUME NEW x \in Seconds, Tainted(x)' PROVE Tainted(x) \/ (x = s /\ s \in Seconds)
  <2>1. \A r \in BackupRuns : ~DumpsAt(r, x)'
    BY <1>4 DEF DumpsAt
  <2>2. archive'[x] = "broken"
    BY <1>6, <2>1 DEF Tainted
  <2>3. CASE archive[x] = "broken"
    BY <2>3 DEF Tainted
  <2>4. CASE archive[x] # "broken"
    BY <1>5, <2>2, <2>4
  <2>5. QED BY <2>3, <2>4
<1>7. DaysInOrder'
  BY <1>2 DEF BackupsInv, DaysInOrder
<1>8. BackupsTyped'
  <2>1. breakdowns' \in Nat
    BY <1>1, <1>2 DEF BackupsTyped
  <2>2. QED BY <1>1, <1>2, <1>3, <1>5, <2>1 DEF BackupsTyped
<1>9. Cardinality(TaintedOnes') <= breakdowns' + collisions'
  <2> PICK T, m, k, n : T = TaintedOnes' /\ m = breakdowns /\ k = collisions /\ n = Cardinality(TaintedOnes)
    OBVIOUS
  <2>1. m \in Nat /\ k \in Nat /\ n <= m + k
    BY <1>1 DEF BackupsTyped, BackupsInv
  <2>2. n \in Nat /\ TaintedOnes \in SUBSET Seconds /\ T \in SUBSET Seconds
    BY SizeOf DEF TaintedOnes
  <2>3. Cardinality(T) \in Nat
    BY <2>2, SizeOf
  <2>4. Cardinality(T) <= n + 1
    <3>1. CASE s \in Seconds
      <4>1. T \subseteq TaintedOnes \cup {s}
        BY <1>6 DEF TaintedOnes
      <4>2. QED BY <2>2, <3>1, <4>1, AtMostOneMore
    <3>2. CASE s \notin Seconds
      <4>1. T \in SUBSET TaintedOnes
        BY <1>6, <3>2 DEF TaintedOnes
      <4>2. Cardinality(T) <= n
        BY <2>2, <4>1, NoMore
      <4>3. QED BY <2>2, <2>3, <4>2
    <3>3. QED BY <3>1, <3>2
  <2>5. Cardinality(T) <= m + 1 + k
    BY ONLY <2>1, <2>2, <2>3, <2>4
  <2>6. QED BY <1>2, <2>5
<1>10. NothingInPlainText'
  <2>1. ASSUME NEW x \in DOMAIN dump, dump[x] # "none"
        PROVE  \E r \in BackupRuns : backup'[r].stamp = x /\ backup'[r].at \in AtDump \cup {"dead"}
    <3>1. PICK r \in BackupRuns : backup[r].stamp = x /\ backup[r].at \in AtDump \cup {"dead"}
      BY <2>1 DEF BackupsInv, NothingInPlainText
    <3>2. QED BY <1>3, <3>1
  <2>2. QED BY <1>2, <2>1 DEF NothingInPlainText
<1>11. CopiesLeave'
  BY <1>2, <1>3 DEF BackupsInv, CopiesLeave
<1>12. ArchivesInOrder'
  <2>1. CASE UNCHANGED <<archive, packed>>
    BY <2>1 DEF BackupsInv, ArchivesInOrder, LastArchivesStand, Written
  <2>2. ASSUME NEW r \in BackupRuns, backup[r].at = "dumped",
               archive' = [archive EXCEPT ![backup[r].stamp] = "broken"],
               packed' = PackedLast(backup[r].stamp)
        PROVE  ArchivesInOrder'
    <3> PICK x : x = backup[r].stamp
      OBVIOUS
    <3>1. x \in Seconds
      BY <2>2 DEF BackupsInv, AtDump
    <3>2. archive \in [Seconds -> {"none", "whole", "broken"}]
      BY <1>1 DEF BackupsTyped
    <3>3. /\ archive' \in [Seconds -> {"none", "whole", "broken"}] /\ archive'[x] = "broken"
          /\ \A y \in Seconds : y # x => archive'[y] = archive[y]
      BY <2>2, <3>1, <3>2
    <3> PICK there : there = {t \in Seconds : t = x \/ archive[t] # "none"}
      OBVIOUS
    <3>4. \A y \in Seconds : /\ archive'[y] # "none" => y \in there
                             /\ archive'[y] = "none" =>
                                  archive[y] = "none" \/ y \notin NewestOf(PackedLast(x), there)
      BY <3>3
    <3>5. QED BY <2>2, <3>1, <3>3, <3>4, OneWrittenOver
  <2>3. QED BY <2>1, <2>2 DEF WorkerDies
<1>13. QED BY <1>4, <1>7, <1>8, <1>9, <1>10, <1>11, <1>12 DEF BackupsInv

LEMMA BackupsStep == BackupsInv /\ [BackupsNext]_backupVars => BackupsInv'
<1> SUFFICES ASSUME BackupsInv, [BackupsNext]_backupVars PROVE BackupsInv'
  OBVIOUS
<1>1. ASSUME NEW r \in BackupRuns,
             \/ DumpStarts(r) \/ DumpEnds(r) \/ DumpFails(r) \/ Pack(r) \/ SendArchive(r)
             \/ TopicIsOff(r)
      PROVE  BackupsInv'
  BY <1>1, DumpStartsStep, DumpEndsStep, DumpFailsStep, PackStep, SentStep
<1>2. QED BY <1>1, WorkerDiesStep, CalendarSteps DEF BackupsNext

LEMMA BackupsAreRight == BackupsInv => BackupsHold
<1> SUFFICES ASSUME BackupsInv PROVE BackupsHold
  OBVIOUS
<1>1. CopiesLeave /\ OnceADay /\ NothingInPlainText /\ LastArchivesStand
  BY DEF BackupsInv, DaysInOrder, OnceADay, ArchivesInOrder
<1>2. BadOnesHaveCauses
  <2> DEFINE S == {s \in DOMAIN archive : archive[s] = "broken"}
  <2>1. TaintedOnes \in SUBSET Seconds /\ S \in SUBSET TaintedOnes
    BY DEF BackupsInv, BackupsTyped, TaintedOnes, Tainted
  <2>2. Cardinality(S) <= Cardinality(TaintedOnes)
    BY <2>1, NoMore
  <2>3. Cardinality(S) \in Nat /\ Cardinality(TaintedOnes) \in Nat
    BY <2>1, SizeOf
  <2>4. Cardinality(TaintedOnes) <= breakdowns + collisions /\ breakdowns + collisions \in Nat
    BY DEF BackupsInv, BackupsTyped
  <2> HIDE DEF S
  <2>5. Cardinality(S) <= breakdowns + collisions
    BY <2>2, <2>3, <2>4
  <2>6. QED BY <2>5 DEF BadOnesHaveCauses, S
<1>3. QED BY <1>1, <1>2 DEF BackupsHold, ArchivesKept

-----------------------------------------------------------------------------
(* The bot's menus (BotMenu).  First the sequences they are made of:       *)
(* extended, filtered, joined, and read once for each key.  What holds of  *)
(* the empty sequence, and is kept by one more element, holds of all       *)
(* (ByAppending): Among and FirstOfEach are reasoned about in this way.    *)

LEMMA TwoMore ==
  ASSUME NEW X, NEW q \in Seq(X), NEW e \in X
  PROVE  /\ Append(q, e) \in Seq(X) /\ Len(Append(q, e)) = Len(q) + 1
         /\ DOMAIN Append(q, e) = 1 .. Len(q) + 1
         /\ \A n \in 1 .. Len(q) : Append(q, e)[n] = q[n]
         /\ Append(q, e)[Len(q) + 1] = e
  OBVIOUS

LEMMA ByAppending ==
  ASSUME NEW X, NEW Good, <<>> \in Good,
         \A q \in Seq(X), e \in X : q \in Good => Append(q, e) \in Good
  PROVE  Seq(X) \subseteq Good
<1> SUFFICES ASSUME NEW s \in Seq(X) PROVE s \in Good
  OBVIOUS
<1> DEFINE Pre(k) == [n \in 1 .. k |-> s[n]]
           Fine == {k \in 0 .. Len(s) : Pre(k) \in Good}
<1>1. 0 \in Fine
  <2>1. Pre(0) = <<>>
    OBVIOUS
  <2>2. QED BY <2>1
<1>2. ASSUME NEW k \in 0 .. Len(s) - 1, k \in Fine PROVE k + 1 \in Fine
  <2>1. k + 1 \in 0 .. Len(s) /\ k \in Nat /\ k + 1 \in 1 .. Len(s)
    OBVIOUS
  <2>2. Pre(k) \in Seq(X) /\ s[k + 1] \in X
    BY <2>1
  <2>3. Pre(k + 1) = Append(Pre(k), s[k + 1])
    <3>1. Len(Pre(k)) = k
      BY <2>1
    <3>2. DOMAIN Append(Pre(k), s[k + 1]) = 1 .. k + 1
      BY <2>2, <3>1, TwoMore
    <3>3. \A n \in 1 .. k + 1 : Append(Pre(k), s[k + 1])[n] = s[n]
      BY <2>1, <2>2, <3>1, TwoMore
    <3>4. Append(Pre(k), s[k + 1]) \in Seq(X)
      BY <2>2
    <3>5. Append(Pre(k), s[k + 1]) = [n \in 1 .. k + 1 |-> Append(Pre(k), s[k + 1])[n]]
      BY <3>2, <3>4
    <3>6. QED BY <3>3, <3>5
  <2>4. QED BY <1>2, <2>1, <2>2, <2>3
<1>3. Len(s) \in Nat
  OBVIOUS
<1> HIDE DEF Fine
<1>4. \A k \in 0 .. Len(s) : k \in Fine
  BY <1>1, <1>2, <1>3, CountUp
<1>5. Pre(Len(s)) \in Good
  BY <1>3, <1>4 DEF Fine
<1>6. Pre(Len(s)) = s
  OBVIOUS
<1>7. QED BY <1>5, <1>6

LEMMA SetOfAppended ==
  ASSUME NEW X, NEW q \in Seq(X), NEW e \in X
  PROVE  ToSet(Append(q, e)) = ToSet(q) \cup {e}
<1>1. DOMAIN q = 1 .. Len(q)
  OBVIOUS
<1>2. DOMAIN Append(q, e) = (1 .. Len(q)) \cup {Len(q) + 1}
  OBVIOUS
<1>3. QED BY <1>1, <1>2, TwoMore DEF ToSet

-----------------------------------------------------------------------------
AmongRun(f, s, some, X) ==
    /\ f \in [0 .. Len(s) -> Seq(X)] /\ f[0] = <<>>
    /\ \A n \in 1 .. Len(s) :
         f[n] = IF s[n] \in some THEN Append(f[n - 1], s[n]) ELSE f[n - 1]

LEMMA AmongRuns ==
  ASSUME NEW X, NEW s \in Seq(X), NEW some
  PROVE  \E f : AmongRun(f, s, some, X) /\ Among(s, some) = f[Len(s)]
<1> DEFINE n == Len(s)
           G == [p \in (1 .. n) \X Seq(X) |->
                   IF s[p[1]] \in some THEN Append(p[2], s[p[1]]) ELSE p[2]]
           After(q, k) == IF s[k] \in some THEN Append(q, s[k]) ELSE q
           Recurs(f) == f = [k \in 0 .. n |-> IF k = 0 THEN <<>> ELSE
                              IF s[k] \in some THEN Append(f[k - 1], s[k]) ELSE f[k - 1]]
<1>1. n \in Nat /\ <<>> \in Seq(X) /\ \A k \in 1 .. n : s[k] \in X
  OBVIOUS
<1>2. G \in [(1 .. n) \X Seq(X) -> Seq(X)]
  BY <1>1
<1>3. \A k \in 1 .. n : \A q \in Seq(X) : G[<<k, q>>] = After(q, k)
  OBVIOUS
<1>4. PICK g : IsRun(g, n, Seq(X), <<>>, G)
  <2> HIDE DEF n, G
  <2>1. QED BY <1>1, <1>2, Iterates
<1> HIDE DEF G
<1>5. /\ g \in [0 .. n -> Seq(X)] /\ g[0] = <<>>
      /\ \A k \in 1 .. n : g[k] = After(g[k - 1], k)
  <2> HIDE DEF n, After
  <2>1. \A k \in 1 .. n : k - 1 \in 0 .. n
    BY <1>1
  <2>2. QED BY <1>3, <1>4, <2>1 DEF IsRun
<1>6. Recurs(g)
  <2>1. Recurs(g) <=> g = [k \in 0 .. n |-> IF k = 0 THEN <<>> ELSE After(g[k - 1], k)]
    OBVIOUS
  <2> HIDE DEF n, After, Recurs
  <2>2. \A k \in 0 .. n : g[k] = IF k = 0 THEN <<>> ELSE After(g[k - 1], k)
    BY <1>1, <1>5
  <2>3. g = [k \in 0 .. n |-> g[k]]
    BY <1>5
  <2>4. QED BY <2>1, <2>2, <2>3
<1> DEFINE f == CHOOSE h : Recurs(h)
<1>7. Among(s, some) = f[n]
  BY DEF Among
<1>8. Recurs(f)
  <2> HIDE DEF Recurs
  <2>1. QED BY <1>6
<1> HIDE DEF f
<1>9. /\ f = [k \in 0 .. n |-> f[k]] /\ f[0] = <<>>
      /\ \A k \in 1 .. n : f[k] = After(f[k - 1], k)
  <2>1. f = [k \in 0 .. n |-> IF k = 0 THEN <<>> ELSE After(f[k - 1], k)]
    BY <1>8
  <2> HIDE DEF n, After, Recurs
  <2>2. QED BY <1>1, <2>1
<1> HIDE DEF n, After, Recurs
<1>10. f = g
  <2> DEFINE Good == {k \in 0 .. n : f[k] = g[k]}
  <2>1. 0 \in Good /\ \A k \in 0 .. n - 1 : k \in Good => k + 1 \in Good
    <3>1. \A k \in 0 .. n - 1 : k + 1 \in 1 .. n /\ k + 1 \in 0 .. n /\ (k + 1) - 1 = k
      BY <1>1
    <3>2. 0 \in 0 .. n
      BY <1>1
    <3>3. QED BY <1>5, <1>9, <3>1, <3>2
  <2> HIDE DEF Good
  <2>2. \A k \in 0 .. n : k \in Good
    BY <1>1, <2>1, CountUp
  <2>3. \A k \in 0 .. n : f[k] = g[k]
    BY <2>2 DEF Good
  <2>4. g = [k \in 0 .. n |-> g[k]]
    BY <1>5
  <2>5. QED BY <1>9, <2>3, <2>4
<1>11. AmongRun(g, s, some, X)
  BY <1>5 DEF n, After, AmongRun
<1>12. QED BY <1>7, <1>10, <1>11 DEF n
(* Among, one element at a time. *)
LEMMA AmongNone == ASSUME NEW some PROVE Among(<<>>, some) = <<>>
<1>1. <<>> \in Seq({}) /\ Len(<<>>) = 0
  OBVIOUS
<1>2. PICK f : AmongRun(f, <<>>, some, {}) /\ Among(<<>>, some) = f[Len(<<>>)]
  BY <1>1, AmongRuns
<1>3. f[0] = <<>>
  BY <1>2 DEF AmongRun
<1>4. QED BY <1>1, <1>2, <1>3

LEMMA AmongMore ==
  ASSUME NEW X, NEW s \in Seq(X), NEW e \in X, NEW some
  PROVE  Among(Append(s, e), some)
           = IF e \in some THEN Append(Among(s, some), e) ELSE Among(s, some)
<1> DEFINE n == Len(s)
           t == Append(s, e)
<1>1. /\ n \in Nat /\ t \in Seq(X) /\ Len(t) = n + 1
      /\ \A k \in 1 .. n : t[k] = s[k]
      /\ t[n + 1] = e
  BY TwoMore
<1>2. PICK f : AmongRun(f, s, some, X) /\ Among(s, some) = f[n]
  BY AmongRuns
<1> HIDE DEF t
<1>3. PICK g : AmongRun(g, t, some, X) /\ Among(t, some) = g[Len(t)]
  BY <1>1, AmongRuns
<1>4. /\ f \in [0 .. n -> Seq(X)] /\ f[0] = <<>>
      /\ \A k \in 1 .. n : f[k] = IF s[k] \in some THEN Append(f[k - 1], s[k]) ELSE f[k - 1]
  BY <1>2 DEF AmongRun
<1>5. /\ g \in [0 .. n + 1 -> Seq(X)] /\ g[0] = <<>>
      /\ \A k \in 1 .. n + 1 :
           g[k] = IF t[k] \in some THEN Append(g[k - 1], t[k]) ELSE g[k - 1]
  BY <1>1, <1>3 DEF AmongRun
<1> HIDE DEF n
<1> DEFINE Good == {k \in 0 .. n : f[k] = g[k]}
<1>6. 0 \in Good /\ \A k \in 0 .. n - 1 : k \in Good => k + 1 \in Good
  <2>1. 0 \in Good
    BY <1>1, <1>4, <1>5
  <2>2. ASSUME NEW k \in 0 .. n - 1, k \in Good PROVE k + 1 \in Good
    <3>1. k + 1 \in 1 .. n /\ k + 1 \in 1 .. n + 1 /\ k + 1 \in 0 .. n /\ (k + 1) - 1 = k
      BY <1>1
    <3>2. t[k + 1] = s[k + 1] /\ f[k] = g[k]
      BY <1>1, <2>2, <3>1
    <3>3. /\ f[k + 1] = IF s[k + 1] \in some THEN Append(f[k], s[k + 1]) ELSE f[k]
          /\ g[k + 1] = IF t[k + 1] \in some THEN Append(g[k], t[k + 1]) ELSE g[k]
      BY <1>4, <1>5, <3>1
    <3>4. QED BY <3>1, <3>2, <3>3
  <2>3. QED BY <2>1, <2>2
<1> HIDE DEF Good
<1>7. n \in Good
  <2>1. \A k \in 0 .. n : k \in Good
    BY <1>1, <1>6, CountUp
  <2>2. QED BY <1>1, <2>1
<1>8. f[n] = g[n] /\ n + 1 \in 1 .. n + 1 /\ (n + 1) - 1 = n
  BY <1>1, <1>7 DEF Good
<1>9. g[n + 1] = IF e \in some THEN Append(g[n], e) ELSE g[n]
  BY <1>1, <1>5, <1>8
<1>10. QED BY <1>1, <1>2, <1>3, <1>8, <1>9 DEF t

(* What it holds, and that it keeps order. *)
LEMMA AmongIs ==
  ASSUME NEW X, NEW s \in Seq(X), NEW some
  PROVE  Among(s, some) \in Seq(X) /\ ToSet(Among(s, some)) = ToSet(s) \cap some
<1> DEFINE Good == {q \in Seq(X) : Among(q, some) \in Seq(X) /\ ToSet(Among(q, some)) = ToSet(q) \cap some}
<1>1. <<>> \in Good
  <2>1. ToSet(<<>>) = {} /\ <<>> \in Seq(X)
    BY DEF ToSet
  <2>2. Among(<<>>, some) = <<>>
    BY AmongNone
  <2>3. QED BY <2>1, <2>2
<1>2. ASSUME NEW q \in Seq(X), NEW e \in X, q \in Good PROVE Append(q, e) \in Good
  <2>1. Append(q, e) \in Seq(X) /\ ToSet(Append(q, e)) = ToSet(q) \cup {e}
    BY TwoMore, SetOfAppended
  <2>2. Among(q, some) \in Seq(X) /\ ToSet(Among(q, some)) = ToSet(q) \cap some
    BY <1>2
  <2>3. /\ Append(Among(q, some), e) \in Seq(X)
        /\ ToSet(Append(Among(q, some), e)) = (ToSet(q) \cap some) \cup {e}
    BY <2>2, TwoMore, SetOfAppended
  <2>4. CASE e \in some
    <3>1. Among(Append(q, e), some) = Append(Among(q, some), e)
      BY <2>4, AmongMore
    <3>2. QED BY <2>1, <2>3, <2>4, <3>1
  <2>5. CASE e \notin some
    <3>1. Among(Append(q, e), some) = Among(q, some)
      BY <2>5, AmongMore
    <3>2. QED BY <2>1, <2>2, <2>5, <3>1
  <2>6. QED BY <2>4, <2>5
<1> HIDE DEF Good
<1>3. Seq(X) \subseteq Good
  BY <1>1, <1>2, ByAppending
<1>4. s \in Good
  BY <1>3
<1>5. QED BY <1>4 DEF Good

LEMMA AmongAmong ==
  ASSUME NEW X, NEW s \in Seq(X), NEW some, NEW of
  PROVE  Among(Among(s, some), of) = Among(s, some \cap of)
<1> DEFINE Good == {q \in Seq(X) : Among(Among(q, some), of) = Among(q, some \cap of)}
<1>1. <<>> \in Good
  BY AmongNone
<1>2. ASSUME NEW q \in Seq(X), NEW e \in X, q \in Good PROVE Append(q, e) \in Good
  <2>1. Append(q, e) \in Seq(X) /\ Among(q, some) \in Seq(X)
    BY TwoMore, AmongIs
  <2>2. Among(Append(Among(q, some), e), of)
          = IF e \in of THEN Append(Among(Among(q, some), of), e) ELSE Among(Among(q, some), of)
    BY <2>1, AmongMore
  <2>3. Among(Append(q, e), some \cap of)
          = IF e \in some \cap of THEN Append(Among(q, some \cap of), e) ELSE Among(q, some \cap of)
    BY AmongMore
  <2>4. Among(Append(q, e), some) = IF e \in some THEN Append(Among(q, some), e) ELSE Among(q, some)
    BY AmongMore
  <2>5. Among(Among(q, some), of) = Among(q, some \cap of)
    BY <1>2
  <2> DEFINE both == some \cap of
             B == Among(q, both)
             L == Among(Among(Append(q, e), some), of)
             R == Among(Append(q, e), both)
  <2>6. CASE e \in both
    <3>1. e \in some /\ e \in of
      BY <2>6
    <3>2. L = Append(B, e)
      BY <2>2, <2>4, <2>5, <3>1
    <3>3. R = Append(B, e)
      BY <2>3, <2>6
    <3> HIDE DEF L, R
    <3>4. L = R
      BY <3>2, <3>3
    <3>5. QED BY <2>1, <3>4 DEF L, R
  <2>7. CASE e \notin both
    <3>1. R = B
      BY <2>3, <2>7
    <3>2. L = B
      <4>1. CASE e \in some
        <5>1. e \notin of
          BY <2>7, <4>1
        <5>2. QED BY <2>2, <2>4, <2>5, <4>1, <5>1
      <4>2. CASE e \notin some
        BY <2>4, <2>5, <4>2
      <4>3. QED BY <4>1, <4>2
    <3> HIDE DEF L, R
    <3>3. L = R
      BY <3>1, <3>2
    <3>4. QED BY <2>1, <3>3 DEF L, R
  <2>8. QED BY <2>6, <2>7
<1> HIDE DEF Good
<1>3. Seq(X) \subseteq Good
  BY <1>1, <1>2, ByAppending
<1>4. QED BY <1>3 DEF Good

LEMMA AmongSame ==
  ASSUME NEW X, NEW s \in Seq(X), NEW some, NEW of,
         \A it \in ToSet(s) : it \in some <=> it \in of
  PROVE  Among(s, some) = Among(s, of)
<1> DEFINE Good == {q \in Seq(X) : (\A it \in ToSet(q) : it \in some <=> it \in of)
                                      => Among(q, some) = Among(q, of)}
<1>1. <<>> \in Good
  BY AmongNone
<1>2. ASSUME NEW q \in Seq(X), NEW e \in X, q \in Good PROVE Append(q, e) \in Good
  <2>1. Append(q, e) \in Seq(X) /\ ToSet(Append(q, e)) = ToSet(q) \cup {e}
    BY TwoMore, SetOfAppended
  <2>2. /\ Among(Append(q, e), some) = IF e \in some THEN Append(Among(q, some), e) ELSE Among(q, some)
        /\ Among(Append(q, e), of) = IF e \in of THEN Append(Among(q, of), e) ELSE Among(q, of)
    BY AmongMore
  <2>3. SUFFICES ASSUME \A it \in ToSet(Append(q, e)) : it \in some <=> it \in of
                 PROVE  Among(Append(q, e), some) = Among(Append(q, e), of)
    BY <2>1
  <2>4. Among(q, some) = Among(q, of) /\ (e \in some <=> e \in of)
    BY <1>2, <2>1, <2>3
  <2>5. QED BY <2>2, <2>4
<1> HIDE DEF Good
<1>3. Seq(X) \subseteq Good
  BY <1>1, <1>2, ByAppending
<1>4. QED BY <1>3 DEF Good

-----------------------------------------------------------------------------
Button == [key : STRING, kind : {"builtin", "action", "link", "miniapp", "screen"},
           on : BOOLEAN, ok : BOOLEAN]

LEMMA KeysOf ==
  ASSUME NEW q \in Seq(Button), NEW e \in Button
  PROVE  /\ Keys(q) = {it.key : it \in ToSet(q)}
         /\ Keys(Append(q, e)) = Keys(q) \cup {e.key}
<1>1. Keys(q) = {it.key : it \in ToSet(q)}
  BY DEF Keys, ToSet
<1>2. Append(q, e) \in Seq(Button) /\ ToSet(Append(q, e)) = ToSet(q) \cup {e}
  BY TwoMore, SetOfAppended
<1>3. Keys(Append(q, e)) = {it.key : it \in ToSet(Append(q, e))}
  BY <1>2 DEF Keys, ToSet
<1>4. QED BY <1>1, <1>2, <1>3

LEMMA AddedIs ==
  ASSUME NEW q \in Seq(Button), NEW e \in Button
  PROVE  Added(q, e) \in Seq(Button)
  BY DEF Added

Collects(f, s) ==
    /\ f \in [0 .. Len(s) -> Seq(Button)] /\ f[0] = <<>>
    /\ \A n \in 1 .. Len(s) : f[n] = Added(f[n - 1], s[n])

LEMMA FirstRuns ==
  ASSUME NEW s \in Seq(Button)
  PROVE  \E f : Collects(f, s) /\ FirstOfEach(s) = f[Len(s)]
<1> DEFINE n == Len(s)
           G == [p \in (1 .. n) \X Seq(Button) |-> Added(p[2], s[p[1]])]
           Recurs(f) == f = [k \in 0 .. n |-> IF k = 0 THEN <<>> ELSE Added(f[k - 1], s[k])]
<1>1. n \in Nat /\ <<>> \in Seq(Button) /\ \A k \in 1 .. n : s[k] \in Button
  OBVIOUS
<1>2. G \in [(1 .. n) \X Seq(Button) -> Seq(Button)]
  BY <1>1, AddedIs
<1>3. \A k \in 1 .. n : \A q \in Seq(Button) : G[<<k, q>>] = Added(q, s[k])
  OBVIOUS
<1>4. PICK g : IsRun(g, n, Seq(Button), <<>>, G)
  <2> HIDE DEF n, G
  <2>1. QED BY <1>1, <1>2, Iterates
<1> HIDE DEF G
<1>5. /\ g \in [0 .. n -> Seq(Button)] /\ g[0] = <<>>
      /\ \A k \in 1 .. n : g[k] = Added(g[k - 1], s[k])
  <2> HIDE DEF n
  <2>1. \A k \in 1 .. n : k - 1 \in 0 .. n
    BY <1>1
  <2>2. QED BY <1>3, <1>4, <2>1 DEF IsRun
<1>6. Recurs(g)
  <2> HIDE DEF n
  <2>1. \A k \in 0 .. n : g[k] = IF k = 0 THEN <<>> ELSE Added(g[k - 1], s[k])
    BY <1>1, <1>5
  <2>2. g = [k \in 0 .. n |-> g[k]]
    BY <1>5
  <2>3. QED BY <2>1, <2>2
<1> DEFINE f == CHOOSE h : Recurs(h)
<1>7. FirstOfEach(s) = f[n]
  BY DEF FirstOfEach
<1>8. Recurs(f)
  <2> HIDE DEF Recurs
  <2>1. QED BY <1>6
<1> HIDE DEF f
<1>9. /\ f = [k \in 0 .. n |-> f[k]] /\ f[0] = <<>>
      /\ \A k \in 1 .. n : f[k] = Added(f[k - 1], s[k])
  <2> HIDE DEF n
  <2>1. QED BY <1>1, <1>8
<1> HIDE DEF n, Recurs
<1>10. f = g
  <2> DEFINE Good == {k \in 0 .. n : f[k] = g[k]}
  <2>1. 0 \in Good /\ \A k \in 0 .. n - 1 : k \in Good => k + 1 \in Good
    <3>1. \A k \in 0 .. n - 1 : k + 1 \in 1 .. n /\ k + 1 \in 0 .. n /\ (k + 1) - 1 = k
      BY <1>1
    <3>2. 0 \in 0 .. n
      BY <1>1
    <3>3. QED BY <1>5, <1>9, <3>1, <3>2
  <2> HIDE DEF Good
  <2>2. \A k \in 0 .. n : k \in Good
    BY <1>1, <2>1, CountUp
  <2>3. \A k \in 0 .. n : f[k] = g[k]
    BY <2>2 DEF Good
  <2>4. g = [k \in 0 .. n |-> g[k]]
    BY <1>5
  <2>5. QED BY <1>9, <2>3, <2>4
<1>11. Collects(g, s)
  BY <1>5 DEF n, Collects
<1>12. QED BY <1>7, <1>10, <1>11 DEF n

LEMMA FirstNone == FirstOfEach(<<>>) = <<>>
<1>1. <<>> \in Seq(Button) /\ Len(<<>>) = 0
  OBVIOUS
<1>2. PICK f : Collects(f, <<>>) /\ FirstOfEach(<<>>) = f[Len(<<>>)]
  BY <1>1, FirstRuns
<1>3. f[0] = <<>>
  BY <1>2 DEF Collects
<1>4. QED BY <1>1, <1>2, <1>3

LEMMA FirstMore ==
  ASSUME NEW s \in Seq(Button), NEW e \in Button
  PROVE  FirstOfEach(Append(s, e)) = Added(FirstOfEach(s), e)
<1> DEFINE n == Len(s)
           t == Append(s, e)
<1>1. /\ n \in Nat /\ t \in Seq(Button) /\ Len(t) = n + 1
      /\ \A k \in 1 .. n : t[k] = s[k]
      /\ t[n + 1] = e
  BY TwoMore
<1>2. PICK f : Collects(f, s) /\ FirstOfEach(s) = f[n]
  BY FirstRuns
<1> HIDE DEF t
<1>3. PICK g : Collects(g, t) /\ FirstOfEach(t) = g[Len(t)]
  BY <1>1, FirstRuns
<1>4. /\ f \in [0 .. n -> Seq(Button)] /\ f[0] = <<>>
      /\ \A k \in 1 .. n : f[k] = Added(f[k - 1], s[k])
  BY <1>2 DEF Collects
<1>5. /\ g \in [0 .. n + 1 -> Seq(Button)] /\ g[0] = <<>>
      /\ \A k \in 1 .. n + 1 : g[k] = Added(g[k - 1], t[k])
  BY <1>1, <1>3 DEF Collects
<1> HIDE DEF n
<1> DEFINE Good == {k \in 0 .. n : f[k] = g[k]}
<1>6. 0 \in Good /\ \A k \in 0 .. n - 1 : k \in Good => k + 1 \in Good
  <2>1. 0 \in Good
    BY <1>1, <1>4, <1>5
  <2>2. ASSUME NEW k \in 0 .. n - 1, k \in Good PROVE k + 1 \in Good
    <3>1. k + 1 \in 1 .. n /\ k + 1 \in 1 .. n + 1 /\ k + 1 \in 0 .. n /\ (k + 1) - 1 = k
      BY <1>1
    <3>2. t[k + 1] = s[k + 1] /\ f[k] = g[k]
      BY <1>1, <2>2, <3>1
    <3>3. f[k + 1] = Added(f[k], s[k + 1]) /\ g[k + 1] = Added(g[k], t[k + 1])
      BY <1>4, <1>5, <3>1
    <3>4. QED BY <3>1, <3>2, <3>3
  <2>3. QED BY <2>1, <2>2
<1> HIDE DEF Good
<1>7. n \in Good
  <2>1. \A k \in 0 .. n : k \in Good
    BY <1>1, <1>6, CountUp
  <2>2. QED BY <1>1, <2>1
<1>8. f[n] = g[n] /\ n + 1 \in 1 .. n + 1 /\ (n + 1) - 1 = n
  BY <1>1, <1>7 DEF Good
<1>9. g[n + 1] = Added(g[n], e)
  BY <1>1, <1>5, <1>8
<1>10. QED BY <1>1, <1>2, <1>3, <1>8, <1>9 DEF t

-----------------------------------------------------------------------------
Distinct(items) == \A m, n \in DOMAIN items : items[m].key = items[n].key => m = n

LEMMA DistinctMore ==
  ASSUME NEW q \in Seq(Button), NEW e \in Button
  PROVE  Distinct(Append(q, e)) <=> Distinct(q) /\ e.key \notin Keys(q)
<1> DEFINE n == Len(q)
           t == Append(q, e)
<1>1. /\ n \in Nat /\ DOMAIN q = 1 .. n /\ DOMAIN t = 1 .. n + 1 /\ t[n + 1] = e
      /\ \A m \in 1 .. n : t[m] = q[m]
  BY TwoMore
<1>2. Keys(q) = {q[m].key : m \in 1 .. n}
  BY <1>1 DEF Keys
<1> HIDE DEF n, t
<1>3. \A m \in 1 .. n + 1 : m \in 1 .. n \/ m = n + 1
  BY <1>1
<1>4. \A m \in 1 .. n : m \in 1 .. n + 1 /\ m # n + 1
  BY <1>1
<1>5. n + 1 \in 1 .. n + 1
  BY <1>1
<1>6. ASSUME Distinct(t) PROVE Distinct(q) /\ e.key \notin Keys(q)
  <2>1. Distinct(q)
    BY <1>1, <1>4, <1>6 DEF Distinct
  <2>2. ASSUME NEW m \in 1 .. n, q[m].key = e.key PROVE FALSE
    BY <1>1, <1>4, <1>5, <1>6, <2>2 DEF Distinct
  <2>3. QED BY <1>2, <2>1, <2>2
<1>7. ASSUME Distinct(q), e.key \notin Keys(q) PROVE Distinct(t)
  <2>1. SUFFICES ASSUME NEW m \in 1 .. n + 1, NEW k \in 1 .. n + 1, t[m].key = t[k].key
                 PROVE  m = k
    BY <1>1 DEF Distinct
  <2>2. CASE m \in 1 .. n /\ k \in 1 .. n
    BY <1>1, <1>7, <2>1, <2>2 DEF Distinct
  <2>3. CASE m \in 1 .. n /\ k = n + 1
    BY <1>1, <1>2, <1>7, <2>1, <2>3
  <2>4. CASE k \in 1 .. n /\ m = n + 1
    BY <1>1, <1>2, <1>7, <2>1, <2>4
  <2>5. QED BY <1>3, <2>2, <2>3, <2>4
<1>8. QED BY <1>6, <1>7 DEF t

(* FirstOfEach of any items has each key once; and changes nothing where   *)
(* that is so already.                                                     *)
LEMMA FirstIs ==
  ASSUME NEW s \in Seq(Button)
  PROVE  /\ FirstOfEach(s) \in Seq(Button) /\ Distinct(FirstOfEach(s))
         /\ ToSet(FirstOfEach(s)) \subseteq ToSet(s) /\ Keys(FirstOfEach(s)) = Keys(s)
         /\ Distinct(s) => FirstOfEach(s) = s
<1> DEFINE Right(q, p) == /\ p \in Seq(Button) /\ Distinct(p)
                          /\ ToSet(p) \subseteq ToSet(q) /\ Keys(p) = Keys(q)
                          /\ Distinct(q) => p = q
           Good == {q \in Seq(Button) : Right(q, FirstOfEach(q))}
<1>1. <<>> \in Good
  <2>1. <<>> \in Seq(Button) /\ FirstOfEach(<<>>) = <<>>
    BY FirstNone
  <2>2. Distinct(<<>>)
    BY DEF Distinct
  <2>3. QED BY <2>1, <2>2
<1>2. ASSUME NEW q \in Seq(Button), NEW e \in Button, q \in Good PROVE Append(q, e) \in Good
  <2> DEFINE p == FirstOfEach(q)
  <2>1. Right(q, p)
    BY <1>2
  <2>2. FirstOfEach(Append(q, e)) = Added(p, e) /\ Append(q, e) \in Seq(Button)
    BY FirstMore, TwoMore
  <2>3. ToSet(Append(q, e)) = ToSet(q) \cup {e} /\ Keys(Append(q, e)) = Keys(q) \cup {e.key}
    BY SetOfAppended, KeysOf
  <2>4. Distinct(Append(q, e)) <=> Distinct(q) /\ e.key \notin Keys(q)
    BY DistinctMore
  <2> HIDE DEF p
  <2>5. CASE e.key \in Keys(p)
    <3>1. Added(p, e) = p
      BY <2>5 DEF Added
    <3>2. QED BY <2>1, <2>2, <2>3, <2>4, <2>5, <3>1
  <2>6. CASE e.key \notin Keys(p)
    <3>1. Added(p, e) = Append(p, e)
      BY <2>6 DEF Added
    <3>2. Append(p, e) \in Seq(Button) /\ ToSet(Append(p, e)) = ToSet(p) \cup {e}
          /\ Keys(Append(p, e)) = Keys(p) \cup {e.key}
      BY <2>1, TwoMore, SetOfAppended, KeysOf
    <3>3. Distinct(Append(p, e))
      BY <2>1, <2>6, DistinctMore
    <3>4. QED BY <2>1, <2>2, <2>3, <2>4, <2>6, <3>1, <3>2, <3>3
  <2>7. QED BY <2>5, <2>6
<1> HIDE DEF Good
<1>3. Seq(Button) \subseteq Good
  BY <1>1, <1>2, ByAppending
<1>4. s \in Good
  BY <1>3
<1>5. QED BY <1>4 DEF Good

LEMMA AmongDistinct ==
  ASSUME NEW s \in Seq(Button), Distinct(s), NEW some
  PROVE  Distinct(Among(s, some))
<1> DEFINE Good == {q \in Seq(Button) : Distinct(q) => Distinct(Among(q, some))}
<1>1. <<>> \in Good
  <2>1. Distinct(<<>>)
    BY DEF Distinct
  <2>2. QED BY <2>1, AmongNone
<1>2. ASSUME NEW q \in Seq(Button), NEW e \in Button, q \in Good PROVE Append(q, e) \in Good
  <2> DEFINE p == Among(q, some)
  <2>1. Append(q, e) \in Seq(Button)
    BY TwoMore
  <2>2. SUFFICES ASSUME Distinct(Append(q, e)) PROVE Distinct(Among(Append(q, e), some))
    BY <2>1
  <2>3. Distinct(q) /\ e.key \notin Keys(q)
    BY <2>2, DistinctMore
  <2>4. Distinct(p)
    BY <1>2, <2>3
  <2>5. p \in Seq(Button) /\ ToSet(p) \subseteq ToSet(q)
    BY AmongIs
  <2>6. e.key \notin Keys(p)
    <3>1. Keys(p) \subseteq Keys(q)
      BY <2>5, KeysOf
    <3>2. QED BY <2>3, <3>1
  <2>7. Among(Append(q, e), some) = IF e \in some THEN Append(p, e) ELSE p
    BY AmongMore
  <2> HIDE DEF p
  <2>8. Distinct(Append(p, e))
    BY <2>4, <2>5, <2>6, DistinctMore
  <2>9. QED BY <2>4, <2>7, <2>8
<1> HIDE DEF Good
<1>3. Seq(Button) \subseteq Good
  BY <1>1, <1>2, ByAppending
<1>4. QED BY <1>3 DEF Good

-----------------------------------------------------------------------------
LEMMA TwoJoined ==
  ASSUME NEW X, NEW p \in Seq(X), NEW q \in Seq(X)
  PROVE  /\ p \o q \in Seq(X) /\ Len(p \o q) = Len(p) + Len(q)
         /\ DOMAIN (p \o q) = 1 .. Len(p) + Len(q)
         /\ \A n \in 1 .. Len(p) : (p \o q)[n] = p[n]
         /\ \A n \in 1 .. Len(q) : (p \o q)[Len(p) + n] = q[n]
         /\ \A n \in 1 .. Len(p) + Len(q) :
              n \in 1 .. Len(p) \/ \E m \in 1 .. Len(q) : n = Len(p) + m
<1>1. ASSUME NEW n \in 1 .. Len(p) + Len(q), n \notin 1 .. Len(p)
      PROVE  \E m \in 1 .. Len(q) : n = Len(p) + m
  <2>1. n - Len(p) \in 1 .. Len(q) /\ n = Len(p) + (n - Len(p))
    BY <1>1
  <2>2. QED BY <2>1
<1>2. QED BY <1>1

JoinOf(after, p, q, t) ==
    /\ DOMAIN p \subseteq DOMAIN t /\ \A k \in DOMAIN p : t[k] = p[k]
    /\ \A k \in DOMAIN q : after[k] \in DOMAIN t \ DOMAIN p /\ t[after[k]] = q[k]
    /\ \A k \in DOMAIN t \ DOMAIN p : \E l \in DOMAIN q : k = after[l]
    /\ \A k, l \in DOMAIN q : after[k] = after[l] => k = l

LEMMA JoinedParts ==
  ASSUME NEW X, NEW p \in Seq(X), NEW q \in Seq(X)
  PROVE  \E after : JoinOf(after, p, q, p \o q)
<1> DEFINE P == DOMAIN p
           Q == DOMAIN q
           t == p \o q
           D == DOMAIN t
           after == [k \in Q |-> Len(p) + k]
<1>1. /\ P \subseteq D /\ \A k \in P : t[k] = p[k]
      /\ \A k \in Q : after[k] \in D \ P /\ t[after[k]] = q[k]
      /\ \A k \in D \ P : \E l \in Q : k = after[l]
      /\ \A k, l \in Q : after[k] = after[l] => k = l
  <2> DEFINE n == Len(p)
             m == Len(q)
  <2>1. /\ n \in Nat /\ m \in Nat /\ P = 1 .. n /\ Q = 1 .. m
        /\ D = 1 .. n + m
        /\ \A k \in 1 .. n : t[k] = p[k]
        /\ \A k \in 1 .. m : t[n + k] = q[k]
        /\ \A k \in 1 .. n + m : k \in 1 .. n \/ \E l \in 1 .. m : k = n + l
    BY TwoJoined
  <2>2. \A k \in Q : after[k] = n + k
    OBVIOUS
  <2> HIDE DEF n, m, P, Q, D, t, after
  <2>3. P \subseteq D
    BY <2>1
  <2>4. \A k \in Q : n + k \in D \ P
    BY <2>1
  <2>5. \A k, l \in Q : n + k = n + l => k = l
    BY <2>1
  <2>6. \A k \in P : t[k] = p[k]
    BY <2>1
  <2>7. \A k \in Q : after[k] \in D \ P /\ t[after[k]] = q[k]
    BY <2>1, <2>2, <2>4
  <2>8. ASSUME NEW k \in D \ P PROVE \E l \in Q : k = after[l]
    <3>1. PICK l \in 1 .. m : k = n + l
      BY <2>1
    <3>2. QED BY <2>1, <2>2, <3>1
  <2>9. \A k, l \in Q : after[k] = after[l] => k = l
    BY <2>2, <2>5
  <2>10. QED BY <2>3, <2>6, <2>7, <2>8, <2>9
<1>2. JoinOf(after, p, q, t)
  <2> HIDE DEF after, t
  <2>1. QED BY <1>1 DEF JoinOf
<1> HIDE DEF after
<1>3. QED BY <1>2

LEMMA SetOfJoined ==
  ASSUME NEW X, NEW p \in Seq(X), NEW q \in Seq(X)
  PROVE  ToSet(p \o q) = ToSet(p) \cup ToSet(q)
<1> DEFINE P == DOMAIN p
           Q == DOMAIN q
           t == p \o q
           D == DOMAIN t
<1>0. PICK after : JoinOf(after, p, q, t)
  BY JoinedParts
<1>1. /\ P \subseteq D /\ \A k \in P : t[k] = p[k]
      /\ \A k \in Q : after[k] \in D \ P /\ t[after[k]] = q[k]
      /\ \A k \in D \ P : \E l \in Q : k = after[l]
      /\ \A k, l \in Q : after[k] = after[l] => k = l
  <2> HIDE DEF t
  <2>1. QED BY <1>0 DEF JoinOf
<1>2. ToSet(p) = {p[k] : k \in P} /\ ToSet(q) = {q[k] : k \in Q} /\ ToSet(t) = {t[k] : k \in D}
  BY DEF ToSet
<1> HIDE DEF P, Q, D, t
<1>3. \A x : x \in ToSet(t) <=> \E k \in D : x = t[k]
  BY <1>2
<1>4. \A x : x \in ToSet(p) \cup ToSet(q) <=> (\E k \in P : x = p[k]) \/ \E k \in Q : x = q[k]
  BY <1>2
<1>5. ToSet(t) = ToSet(p) \cup ToSet(q)
  BY <1>1, <1>3, <1>4
<1>6. QED BY <1>5 DEF t

LEMMA JoinedIs ==
  ASSUME NEW p \in Seq(Button), NEW q \in Seq(Button)
  PROVE  /\ ToSet(p \o q) = ToSet(p) \cup ToSet(q)
         /\ Keys(p \o q) = Keys(p) \cup Keys(q)
         /\ Distinct(p \o q) <=> Distinct(p) /\ Distinct(q) /\ Keys(p) \cap Keys(q) = {}
<1> DEFINE P == DOMAIN p
           Q == DOMAIN q
           t == p \o q
           D == DOMAIN t
<1>0. PICK after : JoinOf(after, p, q, t)
  BY JoinedParts
<1>1. /\ P \subseteq D /\ \A k \in P : t[k] = p[k]
      /\ \A k \in Q : after[k] \in D \ P /\ t[after[k]] = q[k]
      /\ \A k \in D \ P : \E l \in Q : k = after[l]
      /\ \A k, l \in Q : after[k] = after[l] => k = l
  <2> HIDE DEF t
  <2>1. QED BY <1>0 DEF JoinOf
<1>2. /\ ToSet(p) = {p[k] : k \in P} /\ Keys(p) = {p[k].key : k \in P}
      /\ ToSet(q) = {q[k] : k \in Q} /\ Keys(q) = {q[k].key : k \in Q}
      /\ ToSet(t) = {t[k] : k \in D} /\ Keys(t) = {t[k].key : k \in D}
  BY DEF ToSet, Keys
<1>3. /\ Distinct(p) <=> \A k, l \in P : p[k].key = p[l].key => k = l
      /\ Distinct(q) <=> \A k, l \in Q : q[k].key = q[l].key => k = l
      /\ Distinct(t) <=> \A k, l \in D : t[k].key = t[l].key => k = l
  BY DEF Distinct
<1> HIDE DEF P, Q, D, t
<1>4. ToSet(t) = ToSet(p) \cup ToSet(q)
  BY SetOfJoined DEF t
<1>5. Keys(t) = Keys(p) \cup Keys(q)
  <2>1. \A x : x \in Keys(t) <=> \E k \in D : x = t[k].key
    BY <1>2
  <2>2. \A x : x \in Keys(p) \cup Keys(q)
                 <=> (\E k \in P : x = p[k].key) \/ \E k \in Q : x = q[k].key
    BY <1>2
  <2>3. QED BY <1>1, <2>1, <2>2
<1>6. Keys(p) \cap Keys(q) = {} <=> \A k \in P, l \in Q : p[k].key # q[l].key
  <2>1. Keys(p) \cap Keys(q) = {} <=> \A x : ~(x \in Keys(p) /\ x \in Keys(q))
    OBVIOUS
  <2>2. \A x : x \in Keys(p) <=> \E k \in P : x = p[k].key
    BY <1>2
  <2>3. \A x : x \in Keys(q) <=> \E k \in Q : x = q[k].key
    BY <1>2
  <2>4. ASSUME Keys(p) \cap Keys(q) = {}, NEW k \in P, NEW l \in Q PROVE p[k].key # q[l].key
    BY <2>1, <2>2, <2>3, <2>4
  <2>5. ASSUME \A k \in P, l \in Q : p[k].key # q[l].key, NEW x, x \in Keys(p), x \in Keys(q)
        PROVE  FALSE
    BY <2>2, <2>3, <2>5
  <2>6. QED BY <2>4, <2>5
<1>7. ASSUME Distinct(t) PROVE Distinct(p) /\ Distinct(q) /\ Keys(p) \cap Keys(q) = {}
  <2>1. \A k, l \in D : t[k].key = t[l].key => k = l
    BY <1>3, <1>7
  <2>2. QED BY <1>1, <1>3, <1>6, <2>1
<1>8. ASSUME Distinct(p), Distinct(q), Keys(p) \cap Keys(q) = {} PROVE Distinct(t)
  <2>1. SUFFICES ASSUME NEW i \in D, NEW j \in D, t[i].key = t[j].key PROVE i = j
    BY <1>3
  <2>2. CASE i \in P /\ j \in P
    BY <1>1, <1>3, <1>8, <2>1, <2>2
  <2>3. CASE i \in P /\ j \notin P
    BY <1>1, <1>6, <1>8, <2>1, <2>3
  <2>4. CASE i \notin P /\ j \in P
    BY <1>1, <1>6, <1>8, <2>1, <2>4
  <2>5. CASE i \notin P /\ j \notin P
    BY <1>1, <1>3, <1>8, <2>1, <2>5
  <2>6. QED BY <2>2, <2>3, <2>4, <2>5
<1>9. QED BY <1>4, <1>5, <1>7, <1>8 DEF t

LEMMA InsertedIs ==
  ASSUME NEW s \in Seq(Button), NEW e \in Button, NEW at \in 1 .. Len(s) + 1
  PROVE  /\ InsertAt(s, at, e) \in Seq(Button)
         /\ ToSet(InsertAt(s, at, e)) = ToSet(s) \cup {e}
         /\ Keys(InsertAt(s, at, e)) = Keys(s) \cup {e.key}
         /\ Distinct(s) /\ e.key \notin Keys(s) => Distinct(InsertAt(s, at, e))
<1> DEFINE p == SubSeq(s, 1, at - 1)
           q == SubSeq(s, at, Len(s))
           one == <<e>>
<1>1. p \in Seq(Button) /\ q \in Seq(Button) /\ s = p \o q
  <2> DEFINE n == Len(s)
  <2>1. n \in Nat /\ at \in 1 .. n + 1 /\ s = [k \in 1 .. n |-> s[k]]
    OBVIOUS
  <2>2. /\ p \in Seq(Button) /\ Len(p) = at - 1
        /\ \A k \in 1 .. at - 1 : p[k] = s[k]
    OBVIOUS
  <2>3. /\ q \in Seq(Button) /\ Len(q) = n - at + 1
        /\ \A k \in 1 .. n - at + 1 : q[k] = s[at + k - 1]
    OBVIOUS
  <2> HIDE DEF n, p, q
  <2>4. /\ p \o q \in Seq(Button) /\ Len(p \o q) = (at - 1) + (n - at + 1)
        /\ \A k \in 1 .. at - 1 : (p \o q)[k] = p[k]
        /\ \A k \in 1 .. n - at + 1 : (p \o q)[(at - 1) + k] = q[k]
    <3>1. p \in Seq(Button) /\ q \in Seq(Button)
      BY <2>2, <2>3
    <3>2. /\ p \o q \in Seq(Button) /\ Len(p \o q) = Len(p) + Len(q)
          /\ \A k \in 1 .. Len(p) : (p \o q)[k] = p[k]
          /\ \A k \in 1 .. Len(q) : (p \o q)[Len(p) + k] = q[k]
      BY <3>1, TwoJoined
    <3>3. QED BY <2>2, <2>3, <3>2
  <2>5. Len(p \o q) = n
    BY <2>1, <2>4
  <2>6. ASSUME NEW k \in 1 .. n PROVE (p \o q)[k] = s[k]
    <3>1. CASE k \in 1 .. at - 1
      BY <2>2, <2>4, <3>1
    <3>2. CASE k \notin 1 .. at - 1
      <4> DEFINE l == k - at + 1
      <4>1. l \in 1 .. n - at + 1 /\ (at - 1) + l = k /\ at + l - 1 = k
        BY <2>1, <3>2
      <4> HIDE DEF l
      <4>2. (p \o q)[k] = q[l] /\ q[l] = s[k]
        BY <2>3, <2>4, <4>1
      <4>3. QED BY <4>2
    <3>3. QED BY <3>1, <3>2
  <2>7. p \o q = [k \in 1 .. n |-> (p \o q)[k]]
    <3> DEFINE r == p \o q
    <3>1. r \in Seq(Button) /\ Len(r) = n
      BY <2>4, <2>5
    <3> HIDE DEF r
    <3>2. r = [k \in 1 .. n |-> r[k]]
      BY <3>1
    <3>3. QED BY <3>2 DEF r
  <2>8. QED BY <2>1, <2>2, <2>3, <2>6, <2>7
<1>2. one \in Seq(Button) /\ ToSet(one) = {e} /\ Keys(one) = {e.key}
  BY DEF ToSet, Keys
<1>3. Distinct(one)
  BY DEF Distinct
<1>4. InsertAt(s, at, e) = (p \o one) \o q
  BY DEF InsertAt
<1> HIDE DEF p, q, one
<1>5. /\ ToSet(s) = ToSet(p) \cup ToSet(q) /\ Keys(s) = Keys(p) \cup Keys(q)
      /\ Distinct(s) => Distinct(p) /\ Distinct(q) /\ Keys(p) \cap Keys(q) = {}
  BY <1>1, JoinedIs
<1>6. p \o one \in Seq(Button) /\ (p \o one) \o q \in Seq(Button)
  BY <1>1, <1>2, TwoJoined
<1>7. /\ ToSet(p \o one) = ToSet(p) \cup {e} /\ Keys(p \o one) = Keys(p) \cup {e.key}
      /\ Distinct(p) /\ e.key \notin Keys(p) => Distinct(p \o one)
  BY <1>1, <1>2, <1>3, JoinedIs
<1>8. /\ ToSet((p \o one) \o q) = ToSet(p \o one) \cup ToSet(q)
      /\ Keys((p \o one) \o q) = Keys(p \o one) \cup Keys(q)
      /\ Distinct(p \o one) /\ Distinct(q) /\ Keys(p \o one) \cap Keys(q) = {}
           => Distinct((p \o one) \o q)
  BY <1>1, <1>6, JoinedIs
<1>9. QED BY <1>4, <1>5, <1>6, <1>7, <1>8

LEMMA CatalogueIs ==
  ASSUME NEW shownKeys \in Seq(STRING), NEW on \in BOOLEAN
  PROVE  /\ Catalogue(shownKeys, on) \in Seq(Button)
         /\ Keys(Catalogue(shownKeys, on)) = ToSet(shownKeys)
         /\ \A it \in ToSet(Catalogue(shownKeys, on)) : it.kind = "builtin" /\ it.ok
         /\ (\A m, n \in DOMAIN shownKeys : shownKeys[m] = shownKeys[n] => m = n) => Distinct(Catalogue(shownKeys, on))
<1> DEFINE all == Catalogue(shownKeys, on)
<1>1. Len(shownKeys) \in Nat /\ DOMAIN shownKeys = 1 .. Len(shownKeys)
  OBVIOUS
<1>2. all = [n \in 1 .. Len(shownKeys) |-> BuiltIn(shownKeys[n], on)]
  BY <1>1 DEF Catalogue
<1>3. \A n \in 1 .. Len(shownKeys) : /\ BuiltIn(shownKeys[n], on) \in Button
                                /\ BuiltIn(shownKeys[n], on).key = shownKeys[n]
                                /\ BuiltIn(shownKeys[n], on).kind = "builtin"
                                /\ BuiltIn(shownKeys[n], on).ok
  BY <1>1 DEF BuiltIn, Item, Button
<1> HIDE DEF all
<1>4. all \in Seq(Button) /\ DOMAIN all = 1 .. Len(shownKeys)
  BY <1>1, <1>2, <1>3
<1>5. \A n \in 1 .. Len(shownKeys) : all[n].key = shownKeys[n] /\ all[n].kind = "builtin" /\ all[n].ok
  BY <1>2, <1>3
<1>6. QED BY <1>1, <1>4, <1>5 DEF Keys, ToSet, Distinct, all

-----------------------------------------------------------------------------
Plain(q) == \A it \in ToSet(q) : it.kind # "miniapp"
SavedCabinets == {q \in Seq(Button) : \A it \in ToSet(q) : it.kind = "miniapp" => ~it.ok}
SystemOk(q) == \A it \in ToSet(q) : it.kind = "builtin" => it.ok
HasOwn(q, k) == \E it \in ToSet(q) : it.key = k /\ it.kind # "miniapp"
CabinetForms == {q \in Seq(Button) : Distinct(q) /\ HasOwn(q, "app") /\ HasOwn(q, "back")}
ScreenForms == {q \in Seq(Button) : SystemOk(q) /\ q # <<>>}
SavedScreens == {q \in Seq(Button) : SystemOk(q)}

LEMMA BuiltInIs ==
  ASSUME NEW k \in STRING, NEW on \in BOOLEAN
  PROVE  /\ BuiltIn(k, on) \in Button /\ BuiltIn(k, on).key = k
         /\ BuiltIn(k, on).kind = "builtin" /\ BuiltIn(k, on).ok
  BY DEF BuiltIn, Item, Button

LEMMA PlainHas ==
  ASSUME NEW q \in Seq(Button), Plain(q), NEW k \in Keys(q)
  PROVE  HasOwn(q, k)
<1>1. Keys(q) = {it.key : it \in ToSet(q)}
  BY DEF Keys, ToSet
<1>2. QED BY <1>1 DEF Plain, HasOwn

LEMMA KeptIs ==
  ASSUME NEW q \in SavedCabinets
  PROVE  LET p == KeptItems(q)
         IN  /\ p \in Seq(Button) /\ Distinct(p) /\ Plain(p)
<1> DEFINE r == Among(q, {it \in ToSet(q) : it.ok})
<1>1. q \in Seq(Button) /\ \A it \in ToSet(q) : it.kind = "miniapp" => ~it.ok
  BY DEF SavedCabinets
<1>2. r \in Seq(Button) /\ ToSet(r) = ToSet(q) \cap {it \in ToSet(q) : it.ok}
  BY <1>1, AmongIs
<1>3. \A it \in ToSet(r) : it.kind # "miniapp"
  BY <1>1, <1>2
<1> HIDE DEF r
<1>4. /\ FirstOfEach(r) \in Seq(Button) /\ Distinct(FirstOfEach(r))
      /\ ToSet(FirstOfEach(r)) \subseteq ToSet(r)
  BY <1>2, FirstIs
<1>5. KeptItems(q) = FirstOfEach(r)
  BY DEF KeptItems, r
<1>6. QED BY <1>3, <1>4, <1>5 DEF Plain

LEMMA ParseIs ==
  ASSUME NEW q \in SavedCabinets
  PROVE  LET p == Parse(q)
         IN  /\ p \in Seq(Button) /\ Distinct(p) /\ Plain(p)
             /\ {"app", "back"} \subseteq Keys(p)
<1> DEFINE p == KeptItems(q)
           App == BuiltIn("app", TRUE)
           Back == BuiltIn("back", TRUE)
<1>1. p \in Seq(Button) /\ Distinct(p) /\ Plain(p)
  BY KeptIs
<1>2. /\ App \in Button /\ App.key = "app" /\ App.kind = "builtin"
      /\ Back \in Button /\ Back.key = "back" /\ Back.kind = "builtin"
  <2>1. "app" \in STRING /\ "back" \in STRING
    BY MenuAssumption DEF ToSet
  <2>2. App \in Button /\ App.key = "app" /\ App.kind = "builtin"
    BY <2>1, BuiltInIs
  <2>3. Back \in Button /\ Back.key = "back" /\ Back.kind = "builtin"
    BY <2>1, BuiltInIs
  <2>4. QED BY <2>2, <2>3
<1>3. CASE p = <<>>
  <2> DEFINE c == Catalogue(BuiltIns, TRUE)
  <2>1. c \in Seq(Button) /\ Keys(c) = ToSet(BuiltIns) /\ Distinct(c)
        /\ \A it \in ToSet(c) : it.kind = "builtin"
    BY MenuAssumption, CatalogueIs
  <2>2. Parse(q) = c
    BY <1>3 DEF Parse
  <2> HIDE DEF c
  <2>3. {"app", "back"} \subseteq Keys(c)
    BY <2>1, MenuAssumption
  <2>4. QED BY <2>1, <2>2, <2>3 DEF Plain
<1>4. CASE p # <<>>
  <2> DEFINE r == AppBeforeBack(p)
  <2>1. Parse(q) = BackLast(r)
    BY <1>4 DEF Parse
  <2> HIDE DEF p, App, Back
  <2>2. r \in Seq(Button) /\ Distinct(r) /\ Plain(r) /\ "app" \in Keys(r)
    <3>1. CASE "app" \in Keys(p)
      <4>1. r = p
        BY <3>1 DEF AppBeforeBack
      <4>2. QED BY <1>1, <3>1, <4>1
    <3>2. CASE "app" \notin Keys(p)
      <4> DEFINE back == {n \in DOMAIN p : p[n].key = "back"}
                 at == IF back = {} THEN Len(p) + 1 ELSE CHOOSE n \in back : TRUE
      <4>1. r = InsertAt(p, at, App)
        BY <3>2 DEF AppBeforeBack, App
      <4>2. at \in 1 .. Len(p) + 1
        <5>1. Len(p) \in Nat /\ back \subseteq 1 .. Len(p)
          BY <1>1
        <5> HIDE DEF back
        <5>2. back # {} => at \in back
          OBVIOUS
        <5>3. back = {} => at = Len(p) + 1
          OBVIOUS
        <5> HIDE DEF at
        <5>4. CASE back = {}
          BY <5>1, <5>3, <5>4
        <5>5. CASE back # {}
          <6>1. at \in 1 .. Len(p)
            BY <5>1, <5>2, <5>5
          <6>2. QED BY <5>1, <6>1
        <5>6. QED BY <5>4, <5>5
      <4> HIDE DEF at
      <4>3. /\ InsertAt(p, at, App) \in Seq(Button)
            /\ ToSet(InsertAt(p, at, App)) = ToSet(p) \cup {App}
            /\ Keys(InsertAt(p, at, App)) = Keys(p) \cup {App.key}
            /\ Distinct(p) /\ App.key \notin Keys(p) => Distinct(InsertAt(p, at, App))
        BY <1>1, <1>2, <4>2, InsertedIs
      <4>4. QED BY <1>1, <1>2, <3>2, <4>1, <4>3 DEF Plain
    <3>3. QED BY <3>1, <3>2
  <2> HIDE DEF r
  <2>3. CASE "back" \in Keys(r)
    <3>1. BackLast(r) = r
      BY <2>3 DEF BackLast
    <3>2. QED BY <2>1, <2>2, <2>3, <3>1
  <2>4. CASE "back" \notin Keys(r)
    <3>1. BackLast(r) = Append(r, Back)
      BY <2>4 DEF BackLast, Back
    <3>2. /\ Append(r, Back) \in Seq(Button)
          /\ ToSet(Append(r, Back)) = ToSet(r) \cup {Back}
          /\ Keys(Append(r, Back)) = Keys(r) \cup {"back"}
      BY <1>2, <2>2, TwoMore, SetOfAppended, KeysOf
    <3>3. Distinct(Append(r, Back))
      BY <1>2, <2>2, <2>4, DistinctMore
    <3>4. Plain(Append(r, Back))
      BY <1>2, <2>2, <3>2 DEF Plain
    <3>5. QED BY <2>1, <2>2, <3>1, <3>2, <3>3, <3>4
  <2>5. QED BY <2>3, <2>4
<1>5. QED BY <1>3, <1>4

LEMMA MissingIs ==
  ASSUME NEW all \in Seq(Button), NEW q \in Seq(Button)
  PROVE  LET m == Missing(all, q)
         IN  /\ m \in Seq(Button) /\ ToSet(m) \subseteq ToSet(all)
             /\ Keys(m) = Keys(all) \ Keys(q)
             /\ Distinct(all) => Distinct(m)
<1> DEFINE some == {it \in ToSet(all) : it.key \notin Keys(q)}
           m == Missing(all, q)
<1>1. m = Among(all, some)
  BY DEF Missing
<1>2. m \in Seq(Button) /\ ToSet(m) = ToSet(all) \cap some
  BY <1>1, AmongIs
<1>3. Distinct(all) => Distinct(m)
  BY <1>1, AmongDistinct
<1>4. Keys(m) = {it.key : it \in ToSet(m)} /\ Keys(all) = {it.key : it \in ToSet(all)}
  BY <1>2 DEF Keys, ToSet
<1> HIDE DEF m
<1>5. Keys(m) = Keys(all) \ Keys(q)
  BY <1>2, <1>4
<1>6. QED BY <1>2, <1>3, <1>5 DEF m

LEMMA EditorIs ==
  ASSUME NEW q \in SavedCabinets
  PROVE  EditorView(q) \in CabinetForms
<1> DEFINE p == Parse(q)
           c == Catalogue(BuiltIns, FALSE)
           m == MissingOff(p)
<1>1. p \in Seq(Button) /\ Distinct(p) /\ Plain(p) /\ {"app", "back"} \subseteq Keys(p)
  BY ParseIs
<1>2. c \in Seq(Button) /\ Distinct(c)
  BY MenuAssumption, CatalogueIs
<1>3. m = Missing(c, p)
  BY DEF MissingOff
<1> HIDE DEF c
<1>4. m \in Seq(Button) /\ Keys(m) = Keys(c) \ Keys(p) /\ Distinct(m)
  BY <1>1, <1>2, <1>3, MissingIs
<1>5. EditorView(q) = p \o m
  BY DEF EditorView
<1> HIDE DEF p, m
<1>6. /\ p \o m \in Seq(Button)
      /\ ToSet(p \o m) = ToSet(p) \cup ToSet(m) /\ Distinct(p \o m)
  BY <1>1, <1>4, TwoJoined, JoinedIs
<1>7. HasOwn(p, "app") /\ HasOwn(p, "back")
  BY <1>1, PlainHas
<1>8. QED BY <1>5, <1>6, <1>7 DEF CabinetForms, HasOwn

LEMMA ScreenViewIs ==
  ASSUME NEW q \in SavedScreens
  PROVE  ScreenView(q) \in ScreenForms
<1> DEFINE f == FirstOfEach(q)
           c == Catalogue(SysButtons, TRUE)
           m == Missing(c, q)
<1>1. q \in Seq(Button) /\ SystemOk(q)
  BY DEF SavedScreens
<1>2. f \in Seq(Button) /\ ToSet(f) \subseteq ToSet(q) /\ Keys(f) = Keys(q)
  BY <1>1, FirstIs
<1>3. c \in Seq(Button) /\ Keys(c) = ToSet(SysButtons) /\ \A it \in ToSet(c) : it.ok
  BY MenuAssumption, CatalogueIs
<1>4. ScreenView(q) = f \o m
  BY DEF ScreenView
<1>5. m \in Seq(Button) /\ ToSet(m) \subseteq ToSet(c) /\ Keys(m) = Keys(c) \ Keys(q)
  BY <1>1, <1>3, MissingIs
<1> HIDE DEF f, m, c
<1>6. /\ f \o m \in Seq(Button) /\ ToSet(f \o m) = ToSet(f) \cup ToSet(m)
      /\ Keys(f \o m) = Keys(f) \cup Keys(m)
  BY <1>2, <1>5, TwoJoined, JoinedIs
<1>7. SystemOk(f \o m)
  BY <1>1, <1>2, <1>3, <1>5, <1>6 DEF SystemOk
<1>8. f \o m # <<>>
  <2>1. ToSet(SysButtons) # {}
    BY MenuAssumption DEF ToSet
  <2>2. Keys(f \o m) # {}
    BY <1>2, <1>3, <1>5, <1>6, <2>1
  <2>3. Keys(<<>>) = {}
    BY DEF Keys
  <2>4. QED BY <2>2, <2>3
<1>9. QED BY <1>4, <1>6, <1>7, <1>8 DEF ScreenForms

-----------------------------------------------------------------------------
AsRow(it) == IF it.kind = "miniapp" THEN [it EXCEPT !.ok = FALSE] ELSE it

LEMMA RowIs ==
  ASSUME NEW it \in Button
  PROVE  /\ AsRow(it) \in Button /\ AsRow(it).kind = it.kind
         /\ it.kind = "miniapp" => ~AsRow(it).ok
         /\ it.kind # "miniapp" => AsRow(it) = it
<1>1. CASE it.kind = "miniapp"
  <2>1. AsRow(it) = [key |-> it.key, kind |-> it.kind, on |-> it.on, ok |-> FALSE]
    BY <1>1 DEF AsRow, Button
  <2>2. QED BY <1>1, <2>1 DEF Button
<1>2. CASE it.kind # "miniapp"
  BY <1>2 DEF AsRow
<1>3. QED BY <1>1, <1>2

LEMMA RowsAre ==
  ASSUME NEW q \in Seq(Button)
  PROVE  /\ AsStored(q) \in SavedCabinets /\ Len(AsStored(q)) = Len(q)
         /\ \A n \in 1 .. Len(q) : AsStored(q)[n] = AsRow(q[n])
<1>1. Len(q) \in Nat /\ DOMAIN q = 1 .. Len(q) /\ \A n \in 1 .. Len(q) : q[n] \in Button
  OBVIOUS
<1>2. AsStored(q) = [n \in 1 .. Len(q) |-> AsRow(q[n])]
  BY <1>1 DEF AsStored, AsRow
<1>3. \A n \in 1 .. Len(q) : AsRow(q[n]) \in Button
  BY <1>1, RowIs
<1>4. AsStored(q) \in Seq(Button) /\ Len(AsStored(q)) = Len(q) /\ DOMAIN AsStored(q) = 1 .. Len(q)
  BY <1>1, <1>2, <1>3
<1>5. \A n \in 1 .. Len(q) : AsStored(q)[n] = AsRow(q[n])
  BY <1>2
<1>6. \A n \in 1 .. Len(q) : AsStored(q)[n].kind = "miniapp" => ~AsStored(q)[n].ok
  BY <1>1, <1>5, RowIs
<1>7. QED BY <1>4, <1>5, <1>6 DEF SavedCabinets, ToSet

LEMMA RowsMore ==
  ASSUME NEW q \in Seq(Button), NEW e \in Button
  PROVE  AsStored(Append(q, e)) = Append(AsStored(q), AsRow(e))
<1> DEFINE n == Len(q)
           t == Append(q, e)
           L == AsStored(t)
           R == Append(AsStored(q), AsRow(e))
<1>1. /\ n \in Nat /\ t \in Seq(Button) /\ Len(t) = n + 1
      /\ \A k \in 1 .. n : t[k] = q[k]
      /\ t[n + 1] = e
  BY TwoMore
<1>2. /\ AsStored(q) \in Seq(Button) /\ Len(AsStored(q)) = n
      /\ \A k \in 1 .. n : AsStored(q)[k] = AsRow(q[k])
  BY RowsAre DEF SavedCabinets
<1> HIDE DEF n, t
<1>3. L \in Seq(Button) /\ Len(L) = n + 1 /\ \A k \in 1 .. n + 1 : L[k] = AsRow(t[k])
  BY <1>1, RowsAre DEF SavedCabinets
<1>4. /\ R \in Seq(Button) /\ Len(R) = n + 1
      /\ \A k \in 1 .. n : R[k] = AsStored(q)[k]
      /\ R[n + 1] = AsRow(e)
  BY <1>2, RowIs, TwoMore
<1> HIDE DEF L, R
<1>5. ASSUME NEW k \in 1 .. n + 1 PROVE L[k] = R[k]
  <2>1. CASE k \in 1 .. n
    BY <1>1, <1>2, <1>3, <1>4, <2>1
  <2>2. CASE k = n + 1
    BY <1>1, <1>3, <1>4, <2>2
  <2>3. QED BY <1>1, <2>1, <2>2
<1>6. L = [k \in 1 .. n + 1 |-> L[k]] /\ R = [k \in 1 .. n + 1 |-> R[k]]
  BY <1>3, <1>4
<1>7. L = R
  BY <1>5, <1>6
<1>8. QED BY <1>7 DEF L, R, t

AllFine(q) == \A it \in ToSet(q) : it.ok
Fine == {it \in Button : it.ok}
Own == {it \in Button : it.kind # "miniapp"}

(* What is read of the stored rows is what was saved, but for the buttons  *)
(* of the web app.                                                         *)
LEMMA FineRows ==
  ASSUME NEW s \in Seq(Button), AllFine(s)
  PROVE  Among(AsStored(s), Fine) = Among(s, Own)
<1> DEFINE Good == {q \in Seq(Button) : AllFine(q) => Among(AsStored(q), Fine) = Among(q, Own)}
<1>1. <<>> \in Good
  <2>1. AsStored(<<>>) = <<>>
    BY DEF AsStored
  <2>2. QED BY <2>1, AmongNone
<1>2. ASSUME NEW q \in Seq(Button), NEW e \in Button, q \in Good PROVE Append(q, e) \in Good
  <2>1. Append(q, e) \in Seq(Button) /\ ToSet(Append(q, e)) = ToSet(q) \cup {e}
    BY TwoMore, SetOfAppended
  <2>2. SUFFICES ASSUME AllFine(Append(q, e))
                 PROVE  Among(AsStored(Append(q, e)), Fine) = Among(Append(q, e), Own)
    BY <2>1
  <2>3. AllFine(q) /\ e.ok
    BY <2>1, <2>2 DEF AllFine
  <2>4. Among(AsStored(q), Fine) = Among(q, Own)
    BY <1>2, <2>3
  <2>5. AsRow(e) \in Button /\ AsStored(q) \in Seq(Button)
    BY RowIs, RowsAre DEF SavedCabinets
  <2>6. Among(Append(AsStored(q), AsRow(e)), Fine)
          = IF AsRow(e) \in Fine THEN Append(Among(AsStored(q), Fine), AsRow(e))
            ELSE Among(AsStored(q), Fine)
    BY <2>5, AmongMore
  <2>7. Among(Append(q, e), Own)
          = IF e \in Own THEN Append(Among(q, Own), e) ELSE Among(q, Own)
    BY AmongMore
  <2>8. AsStored(Append(q, e)) = Append(AsStored(q), AsRow(e))
    BY RowsMore
  <2>9. CASE e.kind = "miniapp"
    <3>1. AsRow(e) \notin Fine /\ e \notin Own
      BY <2>9, RowIs DEF Fine, Own
    <3>2. QED BY <2>4, <2>6, <2>7, <2>8, <3>1
  <2>10. CASE e.kind # "miniapp"
    <3>1. AsRow(e) = e /\ e \in Fine /\ e \in Own
      BY <2>3, <2>10, RowIs DEF Fine, Own
    <3>2. QED BY <2>4, <2>6, <2>7, <2>8, <3>1
  <2>11. QED BY <2>9, <2>10
<1> HIDE DEF Good
<1>3. Seq(Button) \subseteq Good
  BY <1>1, <1>2, ByAppending
<1>4. QED BY <1>3 DEF Good

LEMMA ElementsOf ==
  ASSUME NEW X, NEW q \in Seq(X)
  PROVE  ToSet(q) \subseteq X
  BY DEF ToSet

LEMMA ShownAsSaved ==
  ASSUME NEW q \in CabinetForms, Acceptable(q), NEW off
  PROVE  CabinetScreen(AsStored(q), off)
           = Among(Shown(q, off), {it \in ToSet(q) : it.kind # "miniapp"})
<1> DEFINE rows == AsStored(q)
           kept == Among(q, Own)
           Visible == {it \in Button : it.on /\ it.key \notin off}
<1>1. /\ q \in Seq(Button) /\ Distinct(q) /\ HasOwn(q, "app")
      /\ ToSet(q) \subseteq Button
  BY ElementsOf DEF CabinetForms
<1>2. AllFine(q)
  BY DEF Acceptable, AllFine, ToSet
<1>3. rows \in Seq(Button) /\ ToSet(rows) \subseteq Button
  BY <1>1, RowsAre, ElementsOf DEF SavedCabinets
<1>4. Among(rows, {it \in ToSet(rows) : it.ok}) = kept
  <2>1. Among(rows, {it \in ToSet(rows) : it.ok}) = Among(rows, Fine)
    <3>1. \A it \in ToSet(rows) : it \in {x \in ToSet(rows) : x.ok} <=> it \in Fine
      BY <1>3 DEF Fine
    <3> HIDE DEF rows
    <3>2. QED BY <1>3, <3>1, AmongSame
  <2>2. QED BY <1>1, <1>2, <2>1, FineRows
<1>5. kept \in Seq(Button) /\ ToSet(kept) = ToSet(q) \cap Own /\ Distinct(kept)
  BY <1>1, AmongIs, AmongDistinct
<1>6. KeptItems(rows) = kept
  BY <1>4, <1>5, FirstIs DEF KeptItems
<1>7. Keys(kept) = {it.key : it \in ToSet(kept)}
  BY <1>5 DEF Keys, ToSet
<1>8. {"app", "back"} \subseteq Keys(kept) /\ kept # <<>>
  <2>1. HasOwn(q, "app") /\ HasOwn(q, "back")
    BY DEF CabinetForms
  <2>2. {"app", "back"} \subseteq Keys(kept)
    BY <1>1, <1>5, <1>7, <2>1 DEF HasOwn, Own
  <2>3. Keys(<<>>) = {}
    BY DEF Keys
  <2> HIDE DEF kept
  <2>4. QED BY <2>2, <2>3
<1> HIDE DEF kept, rows
<1>9. Parse(rows) = kept
  BY <1>6, <1>8 DEF Parse, AppBeforeBack, BackLast
<1>10. CabinetScreen(rows, off) = Among(kept, Visible)
  <2>1. CabinetScreen(rows, off) = Among(kept, {it \in ToSet(kept) : it.on /\ it.key \notin off})
    BY <1>9 DEF CabinetScreen, Shown
  <2>2. ToSet(kept) \subseteq Button
    BY <1>5, ElementsOf
  <2>3. \A it \in ToSet(kept) :
          it \in {x \in ToSet(kept) : x.on /\ x.key \notin off} <=> it \in Visible
    BY <2>2
  <2> HIDE DEF Visible
  <2>4. QED BY <1>5, <2>1, <2>3, AmongSame
<1>11. Shown(q, off) = Among(q, Visible)
  <2>1. \A it \in ToSet(q) :
          it \in {x \in ToSet(q) : x.on /\ x.key \notin off} <=> it \in Visible
    BY <1>1
  <2> HIDE DEF Visible
  <2>2. QED BY <1>1, <2>1, AmongSame DEF Shown
<1> HIDE DEF Visible
<1>12. Among(kept, Visible) = Among(q, Own \cap Visible)
  BY <1>1, AmongAmong DEF kept
<1>13. Among(Among(q, Visible), {it \in ToSet(q) : it.kind # "miniapp"})
         = Among(q, Visible \cap {it \in ToSet(q) : it.kind # "miniapp"})
  BY <1>1, AmongAmong
<1>14. Among(q, Own \cap Visible)
         = Among(q, Visible \cap {it \in ToSet(q) : it.kind # "miniapp"})
  <2>1. \A it \in ToSet(q) :
          it \in Own \cap Visible <=> it \in Visible \cap {x \in ToSet(q) : x.kind # "miniapp"}
    BY <1>1 DEF Own
  <2>2. QED BY <1>1, <2>1, AmongSame
<1>15. QED BY <1>10, <1>11, <1>12, <1>13, <1>14 DEF rows

LEMMA KnownIs ==
  ASSUME NEW q \in ScreenForms
  PROVE  KnownOnly(q) \in SavedScreens
<1>1. q \in Seq(Button) /\ SystemOk(q)
  BY DEF ScreenForms
<1>2. KnownOnly(q) \in Seq(Button) /\ ToSet(KnownOnly(q)) \subseteq ToSet(q)
  BY <1>1, AmongIs DEF KnownOnly
<1>3. QED BY <1>1, <1>2 DEF SavedScreens, SystemOk

(* Whatever a screen is saved as, of the buttons a render carries none is  *)
(* lost that the owner did not switch off.                                 *)
LEMMA ScreenKeeps ==
  ASSUME NEW items \in SavedScreens, NEW have, have \subseteq ToSet(SysButtons)
  PROVE  LET live == Among(SysButtons, have)
             shownKeys == ScreenKeys(items, live)
         IN  /\ \A k \in have :
                  (\A n \in DOMAIN items :
                     items[n].key = k /\ items[n].kind = "builtin" => items[n].on)
                    => Contains(shownKeys, k)
             /\ have # {} => shownKeys # <<>>
<1> DEFINE live == Among(SysButtons, have)
           placed == Placed(items, live)
           names == [n \in DOMAIN placed |-> placed[n].key]
           rest == Unmentioned(items, live)
           shownKeys == ScreenKeys(items, live)
<1>1. live \in Seq(STRING) /\ ToSet(live) = have
  <2>1. SysButtons \in Seq(STRING)
    BY MenuAssumption
  <2>2. live \in Seq(STRING) /\ ToSet(live) = ToSet(SysButtons) \cap have
    BY <2>1, AmongIs
  <2>3. QED BY <2>2
<1>2. items \in Seq(Button) /\ SystemOk(items) /\ ToSet(items) \subseteq Button
  BY ElementsOf DEF SavedScreens
<1> HIDE DEF live
<1>3. /\ placed \in Seq(Button)
      /\ \A it \in ToSet(items) :
           it.on /\ it.ok /\ (it.kind # "builtin" \/ it.key \in have) => it \in ToSet(placed)
  BY <1>1, <1>2, AmongIs DEF Placed
<1>4. rest \in Seq(STRING) /\ ToSet(rest) = have \ Referenced(items)
  BY <1>1, AmongIs DEF Unmentioned
<1>5. names \in Seq(STRING) /\ ToSet(names) = {it.key : it \in ToSet(placed)}
  <2> HIDE DEF placed
  <2>1. Len(placed) \in Nat /\ DOMAIN placed = 1 .. Len(placed)
        /\ \A n \in 1 .. Len(placed) : placed[n] \in Button
    BY <1>3
  <2>2. \A n \in 1 .. Len(placed) : placed[n].key \in STRING
    BY <2>1 DEF Button
  <2>3. names \in Seq(STRING)
    BY <2>1, <2>2
  <2>4. DOMAIN names = DOMAIN placed /\ \A n \in DOMAIN placed : names[n] = placed[n].key
    OBVIOUS
  <2>5. QED BY <2>3, <2>4 DEF ToSet
<1>6. ASSUME NEW p \in Seq(STRING) PROVE \A k \in ToSet(p) : Contains(p, k)
  BY <1>6 DEF ToSet, Contains
<1> HIDE DEF placed, names, rest
<1>7. names \o rest \in Seq(STRING) /\ ToSet(names \o rest) = ToSet(names) \cup ToSet(rest)
  BY <1>4, <1>5, TwoJoined, SetOfJoined
<1>8. shownKeys = IF items = <<>> THEN live ELSE IF names \o rest = <<>> THEN live ELSE names \o rest
  BY DEF ScreenKeys, placed, names, rest
<1>9. shownKeys \in Seq(STRING)
  BY <1>1, <1>7, <1>8
<1> HIDE DEF shownKeys
<1>10. ASSUME NEW k \in have,
              \A n \in DOMAIN items :
                 items[n].key = k /\ items[n].kind = "builtin" => items[n].on
       PROVE  k \in ToSet(shownKeys)
  <2>1. k \in ToSet(names \o rest)
    <3>1. CASE k \in Referenced(items)
      <4>1. PICK n \in DOMAIN items : items[n].kind = "builtin" /\ items[n].key = k
        BY <3>1 DEF Referenced
      <4>2. items[n] \in ToSet(items) /\ items[n].on
        BY <1>10, <4>1 DEF ToSet
      <4>3. items[n].ok
        BY <1>2, <4>1, <4>2 DEF SystemOk
      <4>4. items[n] \in ToSet(placed)
        BY <1>3, <4>1, <4>2, <4>3
      <4>5. QED BY <1>5, <1>7, <4>1, <4>4
    <3>2. CASE k \notin Referenced(items)
      BY <1>4, <1>7, <3>2
    <3>3. QED BY <3>1, <3>2
  <2>2. names \o rest # <<>>
    BY <2>1 DEF ToSet
  <2>3. QED BY <1>1, <1>8, <2>1, <2>2
<1>11. have # {} => shownKeys # <<>>
  <2>1. have # {} => live # <<>>
    BY <1>1 DEF ToSet
  <2>2. CASE items = <<>>
    BY <1>8, <2>1, <2>2
  <2>3. CASE items # <<>> /\ names \o rest = <<>>
    BY <1>8, <2>1, <2>3
  <2>4. CASE items # <<>> /\ names \o rest # <<>>
    BY <1>8, <2>4
  <2>5. QED BY <2>2, <2>3, <2>4
<1>12. QED BY <1>6, <1>9, <1>10, <1>11 DEF shownKeys, live

-----------------------------------------------------------------------------
Trees == [Nodes -> Nodes \cup {Root}]

LEMMA InsertedAre ==
  ASSUME NEW t \in Trees
  PROVE  \E f : /\ f \in [0 .. Cardinality(Nodes) -> SUBSET Nodes] /\ f[0] = {}
                /\ \A k \in 1 .. Cardinality(Nodes) : f[k] = Grown(t, f[k - 1])
                /\ Inserted(t) = f[Cardinality(Nodes)]
<1> DEFINE n == Cardinality(Nodes)
           G == [p \in (1 .. n) \X SUBSET Nodes |-> Grown(t, p[2])]
           Recurs(f) == f = [k \in 0 .. n |-> IF k = 0 THEN {} ELSE Grown(t, f[k - 1])]
<1>1. n \in Nat
  BY MenuAssumption, FS_CardinalityType
<1>2. G \in [(1 .. n) \X SUBSET Nodes -> SUBSET Nodes]
  BY DEF Grown
<1>3. \A k \in 1 .. n : \A q \in SUBSET Nodes : G[<<k, q>>] = Grown(t, q)
  OBVIOUS
<1> HIDE DEF n, G
<1>4. PICK g : IsRun(g, n, SUBSET Nodes, {}, G)
  <2>1. {} \in SUBSET Nodes
    OBVIOUS
  <2>2. QED BY <1>1, <1>2, <2>1, Iterates
<1>5. /\ g \in [0 .. n -> SUBSET Nodes] /\ g[0] = {}
      /\ \A k \in 1 .. n : g[k] = Grown(t, g[k - 1])
  <2>1. \A k \in 1 .. n : k - 1 \in 0 .. n
    BY <1>1
  <2>2. QED BY <1>3, <1>4, <2>1 DEF IsRun
<1>6. Recurs(g)
  <2>1. \A k \in 0 .. n : g[k] = IF k = 0 THEN {} ELSE Grown(t, g[k - 1])
    BY <1>1, <1>5
  <2>2. g = [k \in 0 .. n |-> g[k]]
    BY <1>5
  <2>3. QED BY <2>1, <2>2
<1> DEFINE f == CHOOSE h : Recurs(h)
<1>7. Inserted(t) = f[n]
  BY DEF Inserted, n
<1>8. Recurs(f)
  <2> HIDE DEF Recurs
  <2>1. QED BY <1>6
<1> HIDE DEF f
<1>9. /\ f = [k \in 0 .. n |-> f[k]] /\ f[0] = {}
      /\ \A k \in 1 .. n : f[k] = Grown(t, f[k - 1])
  <2>1. f = [k \in 0 .. n |-> IF k = 0 THEN {} ELSE Grown(t, f[k - 1])]
    BY <1>8
  <2>2. \A k \in 0 .. n : f[k] = IF k = 0 THEN {} ELSE Grown(t, f[k - 1])
    BY <2>1
  <2>3. f = [k \in 0 .. n |-> f[k]]
    BY <2>1, <2>2
  <2>4. 0 \in 0 .. n /\ \A k \in 1 .. n : k \in 0 .. n /\ k # 0
    BY <1>1
  <2>5. f[0] = {} /\ \A k \in 1 .. n : f[k] = Grown(t, f[k - 1])
    BY <2>2, <2>4
  <2>6. QED BY <2>3, <2>5
<1> HIDE DEF Recurs
<1>10. f = g
  <2> DEFINE Good == {k \in 0 .. n : f[k] = g[k]}
  <2>1. 0 \in Good /\ \A k \in 0 .. n - 1 : k \in Good => k + 1 \in Good
    <3>1. \A k \in 0 .. n - 1 : k + 1 \in 1 .. n /\ k + 1 \in 0 .. n /\ (k + 1) - 1 = k
      BY <1>1
    <3>2. 0 \in 0 .. n
      BY <1>1
    <3>3. QED BY <1>5, <1>9, <3>1, <3>2
  <2> HIDE DEF Good
  <2>2. \A k \in 0 .. n : k \in Good
    BY <1>1, <2>1, CountUp
  <2>3. \A k \in 0 .. n : f[k] = g[k]
    BY <2>2 DEF Good
  <2>4. g = [k \in 0 .. n |-> g[k]]
    BY <1>5
  <2>5. QED BY <1>9, <2>3, <2>4
<1>11. QED BY <1>5, <1>7, <1>10 DEF n

(* Round after round only what hangs from the root goes in: nodes that are *)
(* one another's parents never do.                                         *)
LEMMA NoRing ==
  ASSUME NEW t \in Trees, NEW ring \in SUBSET Nodes, \A x \in ring : t[x] \in ring
  PROVE  Inserted(t) \cap ring = {}
<1> DEFINE n == Cardinality(Nodes)
<1>1. n \in Nat
  BY MenuAssumption, FS_CardinalityType
<1>2. PICK f : /\ f \in [0 .. n -> SUBSET Nodes] /\ f[0] = {}
               /\ \A k \in 1 .. n : f[k] = Grown(t, f[k - 1])
               /\ Inserted(t) = f[n]
  BY InsertedAre
<1> HIDE DEF n
<1> DEFINE Good == {k \in 0 .. n : f[k] \cap ring = {}}
<1>3. 0 \in Good /\ \A k \in 0 .. n - 1 : k \in Good => k + 1 \in Good
  <2>1. 0 \in Good
    BY <1>1, <1>2
  <2>2. ASSUME NEW k \in 0 .. n - 1, k \in Good PROVE k + 1 \in Good
    <3>1. k + 1 \in 1 .. n /\ k + 1 \in 0 .. n /\ (k + 1) - 1 = k
      BY <1>1
    <3>2. f[k + 1] = Grown(t, f[k]) /\ f[k] \cap ring = {}
      BY <1>2, <2>2, <3>1
    <3>3. Root \notin ring
      BY MenuAssumption
    <3>4. Grown(t, f[k]) \cap ring = {}
      BY <3>2, <3>3 DEF Grown
    <3>5. QED BY <3>1, <3>2, <3>4
  <2>3. QED BY <2>1, <2>2
<1> HIDE DEF Good
<1>4. n \in Good
  <2>1. \A k \in 0 .. n : k \in Good
    BY <1>1, <1>3, CountUp
  <2>2. QED BY <1>1, <2>1
<1>5. QED BY <1>2, <1>4 DEF Good

-----------------------------------------------------------------------------
(* What is stored is what some form or import can have left there; an open *)
(* form shows every key once, "app" and "back" among them; a form being    *)
(* written was acceptable.                                                 *)
Blob == [cabinet : SavedCabinets, screen : SavedScreens]
Row == Nat \X Nodes \X (Nodes \cup {Root})
GoodForms == {q \in CabinetForms : Acceptable(q)}
OpenForms == [at : {"cabinet"}, items : CabinetForms]
CabinetWrites == [at : {"writing cabinet"}, items : GoodForms]
ScreenDesks == [at : {"screen", "writing screen"}, items : ScreenForms]
TreeWrites == [at : {"writing tree"}, save : Nat, gone : SUBSET Row]
Desks == {Nothing} \cup OpenForms \cup CabinetWrites \cup ScreenDesks \cup TreeWrites

FormsTyped ==
    /\ stored \in Blob
    /\ cache = Nothing \/ cache \in Blob
    /\ desk \in [Editors -> Desks]
    /\ tree \subseteq Row
    /\ saves \in Nat

(* The cabinet stored is the one that was shown when it was saved: with    *)
(* ShownAsSaved, which says what is read of it, this is WhatIsSavedIsShown. *)
MeantIsStored ==
    meant = Nothing \/ /\ meant.items \in GoodForms
                       /\ stored.cabinet = AsStored(meant.items)

InsertsTree(e) == desk[e].at = "writing tree"

(* A save of the tree in progress has a number of its own, and its DELETE  *)
(* saw all the rows of another save or none of them: so that its commit    *)
(* takes no menu apart.                                                    *)
OneSaveAtATime(e) ==
    /\ desk[e].save <= saves /\ \A r \in desk[e].gone : r[1] <= saves
    /\ \A r \in tree : r[1] # desk[e].save
    /\ \A f \in Editors : InsertsTree(f) =>
         /\ f # e => desk[f].save # desk[e].save
         /\ \A r \in desk[f].gone : r[1] # desk[e].save
    /\ \A r, q \in tree : r[1] = q[1] /\ r \in desk[e].gone => q \in desk[e].gone

TreeInv ==
    /\ \A r \in tree : r[1] <= saves
    /\ \A e \in Editors : InsertsTree(e) => OneSaveAtATime(e)
    /\ MenuIsWhole

MenuInv == FormsTyped /\ MeantIsStored /\ TreeInv

LEMMA MenuStart == BotMenuInit => MenuInv
<1> SUFFICES ASSUME BotMenuInit PROVE MenuInv
  OBVIOUS
<1>1. stored \in Blob
  <2>1. PICK known \in {<<>>, <<BuiltIn(Head(BuiltIns), TRUE)>>} :
          stored = [cabinet |-> known, screen |-> <<>>]
    BY DEF BotMenuInit
  <2> DEFINE it == BuiltIn(Head(BuiltIns), TRUE)
  <2>2. BuiltIns # <<>> /\ BuiltIns \in Seq(STRING)
    BY MenuAssumption DEF ToSet
  <2>3. Head(BuiltIns) \in STRING
    BY <2>2
  <2>4. it \in Button /\ it.kind = "builtin"
    BY <2>3, BuiltInIs
  <2> HIDE DEF it
  <2>5. <<it>> \in SavedCabinets /\ <<>> \in SavedCabinets /\ <<>> \in SavedScreens
    BY <2>4 DEF SavedCabinets, SavedScreens, SystemOk, ToSet
  <2>6. QED BY <2>1, <2>5 DEF Blob, it
<1>2. FormsTyped
  BY <1>1 DEF BotMenuInit, FormsTyped, Desks
<1>3. TreeInv
  BY DEF BotMenuInit, TreeInv, MenuIsWhole, InsertsTree, Nothing
<1>4. QED BY <1>2, <1>3 DEF BotMenuInit, MenuInv, MeantIsStored

LEMMA DeskIs ==
  ASSUME FormsTyped, NEW e \in Editors
  PROVE  /\ \/ desk[e].at = "nothing" /\ desk[e] = Nothing
            \/ desk[e].at = "cabinet" /\ desk[e] \in OpenForms
            \/ desk[e].at = "writing cabinet" /\ desk[e] \in CabinetWrites
            \/ desk[e].at \in {"screen", "writing screen"} /\ desk[e] \in ScreenDesks
            \/ desk[e].at = "writing tree" /\ desk[e] \in TreeWrites
<1> DEFINE d == desk[e]
<1>1. d \in {Nothing} \cup OpenForms \cup CabinetWrites \cup ScreenDesks \cup TreeWrites
  BY DEF FormsTyped, Desks
<1> HIDE DEF d
<1>2. d = Nothing => d.at = "nothing"
  BY DEF Nothing
<1>3. d \in OpenForms => d.at = "cabinet"
  BY DEF OpenForms
<1>4. d \in CabinetWrites => d.at = "writing cabinet"
  BY DEF CabinetWrites
<1>5. d \in ScreenDesks => d.at \in {"screen", "writing screen"}
  BY DEF ScreenDesks
<1>6. d \in TreeWrites => d.at = "writing tree"
  BY DEF TreeWrites
<1>7. QED BY <1>1, <1>2, <1>3, <1>4, <1>5, <1>6 DEF d

(* Who only fills in a form or saves one leaves the menus alone.           *)
LEMMA TreeKept ==
  ASSUME FormsTyped, TreeInv, tree' = tree, saves' \in Nat, saves <= saves',
         \A e \in Editors : InsertsTree(e)' => desk'[e] = desk[e]
  PROVE  TreeInv'
<1>1. saves \in Nat /\ tree \subseteq Row
  BY DEF FormsTyped
<1>2. \A r \in tree' : r[1] <= saves'
  BY <1>1 DEF TreeInv, Row
<1>3. MenuIsWhole'
  BY DEF TreeInv, MenuIsWhole
<1>4. ASSUME NEW e \in Editors, InsertsTree(e)' PROVE OneSaveAtATime(e)'
  <2>1. desk'[e] = desk[e] /\ InsertsTree(e)
    BY <1>4 DEF InsertsTree
  <2>2. OneSaveAtATime(e)
    BY <2>1 DEF TreeInv
  <2>3. desk[e] \in TreeWrites
    BY <2>1, DeskIs DEF InsertsTree
  <2>4. desk'[e].save <= saves' /\ \A r \in desk'[e].gone : r[1] <= saves'
    <3>1. desk[e].save \in Nat /\ \A r \in desk[e].gone : r[1] \in Nat
      BY <2>3 DEF TreeWrites, Row
    <3>2. QED BY <1>1, <2>1, <2>2, <3>1 DEF OneSaveAtATime
  <2>5. ASSUME NEW f \in Editors, InsertsTree(f)' PROVE desk'[f] = desk[f] /\ InsertsTree(f)
    BY <2>5 DEF InsertsTree
  <2>6. QED BY <2>1, <2>2, <2>4, <2>5 DEF OneSaveAtATime
<1>5. QED BY <1>2, <1>3, <1>4 DEF TreeInv

LEMMA ServedStep == MenuInv /\ (ReadRows \/ CacheExpires) => MenuInv'
<1> SUFFICES ASSUME MenuInv, ReadRows \/ CacheExpires PROVE MenuInv'
  OBVIOUS
<1>1. UNCHANGED <<stored, tree, desk, meant, saves>> /\ (cache' = stored \/ cache' = Nothing)
  BY DEF ReadRows, CacheExpires
<1>2. FormsTyped'
  BY <1>1 DEF MenuInv, FormsTyped
<1>3. MeantIsStored'
  BY <1>1 DEF MenuInv, MeantIsStored
<1>4. TreeInv'
  BY <1>1, TreeKept DEF MenuInv, FormsTyped, InsertsTree
<1>5. QED BY <1>2, <1>3, <1>4 DEF MenuInv

(* A form is opened, changed, written or closed.                           *)
LEMMA FormMoved ==
  ASSUME MenuInv, NEW e \in Editors,
         desk' \in [Editors -> Desks], ~InsertsTree(e)',
         \A f \in Editors \ {e} : desk'[f] = desk[f],
         tree' = tree, saves' \in Nat, saves <= saves',
         cache' = cache \/ cache' = Nothing,
         stored' \in Blob, MeantIsStored'
  PROVE  MenuInv'
<1>1. FormsTyped'
  BY DEF MenuInv, FormsTyped
<1>2. TreeInv'
  <2>1. \A f \in Editors : InsertsTree(f)' => desk'[f] = desk[f]
    OBVIOUS
  <2>2. QED BY <2>1, TreeKept DEF MenuInv
<1>3. QED BY <1>1, <1>2 DEF MenuInv

LEMMA NotInserting ==
  ASSUME NEW d \in {Nothing} \cup OpenForms \cup CabinetWrites \cup ScreenDesks
  PROVE  d.at # "writing tree"
<1>1. CASE d = Nothing
  BY <1>1 DEF Nothing
<1>2. CASE d \in OpenForms
  BY <1>2 DEF OpenForms
<1>3. CASE d \in CabinetWrites
  BY <1>3 DEF CabinetWrites
<1>4. CASE d \in ScreenDesks
  BY <1>4 DEF ScreenDesks
<1>5. QED BY <1>1, <1>2, <1>3, <1>4

LEMMA MeantKept ==
  ASSUME MenuInv, stored' = stored, meant' = meant, saves' = saves \/ saves' = saves + 1
  PROVE  stored' \in Blob /\ MeantIsStored' /\ saves' \in Nat /\ saves <= saves'
  BY DEF MenuInv, MeantIsStored, FormsTyped

LEMMA OpenStep == ASSUME MenuInv, NEW e \in Editors, OpenForm(e) PROVE MenuInv'
<1>1. /\ desk[e] = Nothing /\ cache # Nothing
      /\ UNCHANGED <<stored, tree, cache, meant, saves>>
  BY DEF OpenForm
<1>2. PICK form \in {"cabinet", "screen"} :
        desk' = [desk EXCEPT ![e] = [at |-> form, items |->
                    IF form = "cabinet" THEN EditorView(cache.cabinet)
                    ELSE ScreenView(cache.screen)]]
  BY DEF OpenForm
<1>3. cache.cabinet \in SavedCabinets /\ cache.screen \in SavedScreens
  BY <1>1 DEF MenuInv, FormsTyped, Blob
<1>4. desk'[e] \in OpenForms \cup ScreenDesks
  <2>1. desk \in [Editors -> Desks]
    BY DEF MenuInv, FormsTyped
  <2>2. CASE form = "cabinet"
    <3>1. EditorView(cache.cabinet) \in CabinetForms
      BY <1>3, EditorIs
    <3>2. QED BY <1>2, <2>1, <2>2, <3>1 DEF OpenForms
  <2>3. CASE form = "screen"
    <3>1. ScreenView(cache.screen) \in ScreenForms
      BY <1>3, ScreenViewIs
    <3>2. QED BY <1>2, <2>1, <2>3, <3>1 DEF ScreenDesks
  <2>4. QED BY <2>2, <2>3
<1>5. desk' \in [Editors -> Desks] /\ \A f \in Editors \ {e} : desk'[f] = desk[f]
  <2>1. desk \in [Editors -> Desks]
    BY DEF MenuInv, FormsTyped
  <2>2. desk' = [desk EXCEPT ![e] = desk'[e]]
    BY <1>2, <2>1
  <2>3. QED BY <1>4, <2>1, <2>2 DEF Desks
<1>6. ~InsertsTree(e)'
  BY <1>4, NotInserting DEF InsertsTree
<1>7. QED BY <1>1, <1>5, <1>6, FormMoved, MeantKept

(* A change of an open form leaves it one that can be shown.               *)
LEMMA FlippedIs ==
  ASSUME NEW q \in Seq(Button), NEW n \in DOMAIN q
  PROVE  LET p == Flipped(q, n)
         IN  /\ p \in Seq(Button) /\ DOMAIN p = DOMAIN q
             /\ \A m \in DOMAIN q : /\ p[m].key = q[m].key /\ p[m].kind = q[m].kind
                                    /\ p[m].ok = q[m].ok
<1> DEFINE p == Flipped(q, n)
           now == [q[n] EXCEPT !.on = ~@]
<1>1. q[n] \in Button
  OBVIOUS
<1>2. now = [key |-> q[n].key, kind |-> q[n].kind, on |-> ~q[n].on, ok |-> q[n].ok]
  BY <1>1 DEF Button
<1>3. now \in Button /\ now.key = q[n].key /\ now.kind = q[n].kind /\ now.ok = q[n].ok
  BY <1>1, <1>2 DEF Button
<1>4. p = [q EXCEPT ![n] = now]
  BY DEF Flipped
<1> HIDE DEF now, p
<1>5. p \in Seq(Button) /\ DOMAIN p = DOMAIN q
  BY <1>3, <1>4
<1>6. \A m \in DOMAIN q : p[m] = IF m = n THEN now ELSE q[m]
  BY <1>4
<1>7. QED BY <1>3, <1>5, <1>6 DEF p

LEMMA RotatedIs ==
  ASSUME NEW q \in Seq(Button), q # <<>>
  PROVE  LET p == Append(Tail(q), Head(q))
         IN  /\ p \in Seq(Button) /\ p # <<>> /\ ToSet(p) = ToSet(q)
             /\ Distinct(q) => Distinct(p)
<1> DEFINE h == Head(q)
           t == Tail(q)
           one == <<h>>
<1>1. h \in Button /\ t \in Seq(Button) /\ one \in Seq(Button)
  OBVIOUS
<1>2. q = one \o t
  <2> DEFINE n == Len(q)
  <2>1. n \in Nat /\ n > 0 /\ q = [k \in 1 .. n |-> q[k]]
    OBVIOUS
  <2>2. Len(one) = 1 /\ one[1] = q[1]
    OBVIOUS
  <2>3. Len(t) = n - 1 /\ \A k \in 1 .. n - 1 : t[k] = q[k + 1]
    OBVIOUS
  <2> HIDE DEF one, t, n
  <2>4. /\ one \o t \in Seq(Button) /\ Len(one \o t) = Len(one) + Len(t)
        /\ \A k \in 1 .. Len(one) : (one \o t)[k] = one[k]
        /\ \A k \in 1 .. Len(t) : (one \o t)[Len(one) + k] = t[k]
    BY <1>1, TwoJoined
  <2>5. Len(one \o t) = n /\ (one \o t)[1] = q[1]
    BY <2>1, <2>2, <2>3, <2>4
  <2>6. ASSUME NEW k \in 1 .. n PROVE (one \o t)[k] = q[k]
    <3>1. CASE k = 1
      BY <2>5, <3>1
    <3>2. CASE k # 1
      <4> DEFINE l == k - 1
      <4>1. l \in 1 .. n - 1 /\ k = 1 + l /\ k = l + 1
        BY <2>1, <3>2
      <4> HIDE DEF l
      <4>2. (one \o t)[k] = t[l] /\ t[l] = q[k]
        BY <2>2, <2>3, <2>4, <4>1
      <4>3. QED BY <4>2
    <3>3. QED BY <3>1, <3>2
  <2>7. one \o t = [k \in 1 .. n |-> (one \o t)[k]]
    <3> DEFINE r == one \o t
    <3>1. r \in Seq(Button) /\ Len(r) = n
      BY <2>4, <2>5
    <3> HIDE DEF r
    <3>2. r = [k \in 1 .. n |-> r[k]]
      BY <3>1
    <3>3. QED BY <3>2 DEF r
  <2>8. QED BY <2>1, <2>6, <2>7
<1>3. ToSet(one) = {h} /\ Keys(one) = {h.key}
  BY DEF ToSet, Keys
<1> HIDE DEF one, t, h
<1>4. ToSet(q) = {h} \cup ToSet(t)
  BY <1>1, <1>2, <1>3, SetOfJoined
<1>5. Distinct(q) => Distinct(t) /\ h.key \notin Keys(t)
  BY <1>1, <1>2, <1>3, JoinedIs
<1>6. /\ Append(t, h) \in Seq(Button) /\ ToSet(Append(t, h)) = ToSet(t) \cup {h}
      /\ Len(Append(t, h)) = Len(t) + 1
  BY <1>1, TwoMore, SetOfAppended
<1>7. Append(t, h) # <<>>
  BY <1>6 DEF ToSet
<1>8. Distinct(t) /\ h.key \notin Keys(t) => Distinct(Append(t, h))
  BY <1>1, DistinctMore
<1>9. QED BY <1>4, <1>5, <1>6, <1>7, <1>8 DEF t, h

LEMMA WaysToChange ==
  ASSUME NEW form, NEW q, NEW p \in Changes(form, q)
  PROVE  \/ \E n \in DOMAIN q : p = Flipped(q, n)
         \/ p = Append(Tail(q), Head(q))
         \/ \E e \in NewItems(form, q) : p = Append(q, e)
  BY DEF Changes

LEMMA ChangedCabinet ==
  ASSUME NEW q \in CabinetForms, NEW p \in Changes("cabinet", q)
  PROVE  p \in CabinetForms
<1>1. /\ q \in Seq(Button) /\ Distinct(q) /\ HasOwn(q, "app") /\ HasOwn(q, "back")
  BY DEF CabinetForms
<1>2. ASSUME NEW n \in DOMAIN q, p = Flipped(q, n) PROVE p \in CabinetForms
  <2>1. /\ p \in Seq(Button) /\ DOMAIN p = DOMAIN q
        /\ \A m \in DOMAIN q : p[m].key = q[m].key /\ p[m].kind = q[m].kind
    BY <1>1, <1>2, FlippedIs
  <2>2. Distinct(p)
    BY <1>1, <2>1 DEF Distinct
  <2>3. HasOwn(p, "app") /\ HasOwn(p, "back")
    BY <1>1, <2>1 DEF HasOwn, ToSet
  <2>4. QED BY <2>1, <2>2, <2>3 DEF CabinetForms
<1>3. ASSUME p = Append(Tail(q), Head(q)) PROVE p \in CabinetForms
  <2>1. q # <<>>
    BY <1>1 DEF HasOwn, ToSet
  <2>2. p \in Seq(Button) /\ ToSet(p) = ToSet(q) /\ Distinct(p)
    BY <1>1, <1>3, <2>1, RotatedIs
  <2>3. QED BY <1>1, <2>2 DEF CabinetForms, HasOwn
<1>4. ASSUME NEW e \in NewItems("cabinet", q), p = Append(q, e) PROVE p \in CabinetForms
  <2>1. e \in Button /\ e.key \notin Keys(q)
    BY MenuAssumption DEF NewItems, Button, KindsOf
  <2>2. p \in Seq(Button) /\ ToSet(p) = ToSet(q) \cup {e}
    BY <1>1, <1>4, <2>1, TwoMore, SetOfAppended
  <2>3. Distinct(p)
    BY <1>1, <1>4, <2>1, DistinctMore
  <2>4. QED BY <1>1, <2>2, <2>3 DEF CabinetForms, HasOwn
<1>5. QED BY <1>2, <1>3, <1>4, WaysToChange

LEMMA ChangedScreen ==
  ASSUME NEW q \in ScreenForms, NEW p \in Changes("screen", q)
  PROVE  p \in ScreenForms
<1>1. q \in Seq(Button) /\ SystemOk(q) /\ q # <<>>
  BY DEF ScreenForms
<1>2. ASSUME NEW n \in DOMAIN q, p = Flipped(q, n) PROVE p \in ScreenForms
  <2>1. /\ p \in Seq(Button) /\ DOMAIN p = DOMAIN q
        /\ \A m \in DOMAIN q : p[m].kind = q[m].kind /\ p[m].ok = q[m].ok
    BY <1>1, <1>2, FlippedIs
  <2>2. SystemOk(p)
    BY <1>1, <2>1 DEF SystemOk, ToSet
  <2>3. p # <<>>
    BY <1>2, <2>1
  <2>4. QED BY <2>1, <2>2, <2>3 DEF ScreenForms
<1>3. ASSUME p = Append(Tail(q), Head(q)) PROVE p \in ScreenForms
  <2>1. p \in Seq(Button) /\ ToSet(p) = ToSet(q) /\ p # <<>>
    BY <1>1, <1>3, RotatedIs
  <2>2. QED BY <1>1, <2>1 DEF ScreenForms, SystemOk
<1>4. ASSUME NEW e \in NewItems("screen", q), p = Append(q, e) PROVE p \in ScreenForms
  <2>1. e \in Button /\ e.kind # "builtin"
    BY MenuAssumption DEF NewItems, Button, KindsOf
  <2>2. p \in Seq(Button) /\ ToSet(p) = ToSet(q) \cup {e} /\ Len(p) = Len(q) + 1
    BY <1>1, <1>4, <2>1, TwoMore, SetOfAppended
  <2>3. p # <<>>
    BY <2>2 DEF ToSet
  <2>4. QED BY <1>1, <2>1, <2>2, <2>3 DEF ScreenForms, SystemOk
<1>5. QED BY <1>2, <1>3, <1>4, WaysToChange

LEMMA ChangeStep == ASSUME MenuInv, NEW e \in Editors, ChangeForm(e) PROVE MenuInv'
<1>1. desk[e].at \in {"cabinet", "screen"} /\ UNCHANGED <<stored, tree, cache, meant, saves>>
  BY DEF ChangeForm
<1>2. PICK p \in Changes(desk[e].at, desk[e].items) : desk' = [desk EXCEPT ![e].items = p]
  BY DEF ChangeForm
<1>3. desk \in [Editors -> Desks]
  BY DEF MenuInv, FormsTyped
<1>4. desk'[e] \in OpenForms \cup ScreenDesks
  <2>1. desk'[e] = [desk[e] EXCEPT !.items = p]
    BY <1>2, <1>3
  <2>2. CASE desk[e].at = "cabinet"
    <3>1. desk[e] \in OpenForms
      BY <2>2, DeskIs DEF MenuInv
    <3>2. p \in CabinetForms
      BY <1>2, <2>2, <3>1, ChangedCabinet DEF OpenForms
    <3>3. QED BY <2>1, <3>1, <3>2 DEF OpenForms
  <2>3. CASE desk[e].at = "screen"
    <3>1. desk[e] \in ScreenDesks
      BY <2>3, DeskIs DEF MenuInv
    <3>2. p \in ScreenForms
      BY <1>2, <2>3, <3>1, ChangedScreen DEF ScreenDesks
    <3>3. QED BY <2>1, <3>1, <3>2 DEF ScreenDesks
  <2>4. QED BY <1>1, <2>2, <2>3
<1>5. desk' \in [Editors -> Desks] /\ \A f \in Editors \ {e} : desk'[f] = desk[f]
  BY <1>2, <1>3, <1>4 DEF Desks
<1>6. ~InsertsTree(e)'
  BY <1>4, NotInserting DEF InsertsTree
<1>7. QED BY <1>1, <1>5, <1>6, FormMoved, MeantKept

LEMMA WriteStep == ASSUME MenuInv, NEW e \in Editors, WriteRows(e) PROVE MenuInv'
<1> DEFINE form == desk[e].at
<1>1. /\ form \in {"cabinet", "screen"} /\ Acceptable(desk[e].items)
      /\ desk' = [desk EXCEPT ![e].at = Writing(form)]
      /\ saves' = saves + 1 /\ cache' = Nothing /\ UNCHANGED <<stored, tree, meant>>
  BY DEF WriteRows
<1>2. desk \in [Editors -> Desks] /\ saves \in Nat
  BY DEF MenuInv, FormsTyped
<1>3. desk'[e] \in CabinetWrites \cup ScreenDesks
  <2>1. desk'[e] = [desk[e] EXCEPT !.at = Writing(form)]
    BY <1>1, <1>2
  <2>2. CASE form = "cabinet"
    <3>1. desk[e] \in OpenForms
      BY <2>2, DeskIs DEF MenuInv
    <3>2. desk[e].items \in GoodForms
      BY <1>1, <3>1 DEF OpenForms, GoodForms
    <3>3. desk'[e] = [desk[e] EXCEPT !.at = "writing cabinet"]
      BY <2>1, <2>2 DEF Writing
    <3> HIDE DEF form
    <3>4. QED BY <3>1, <3>2, <3>3 DEF OpenForms, CabinetWrites
  <2>3. CASE form = "screen"
    <3>1. desk[e] \in ScreenDesks
      BY <2>3, DeskIs DEF MenuInv
    <3>2. desk'[e] = [desk[e] EXCEPT !.at = "writing screen"]
      BY <2>1, <2>3 DEF Writing
    <3> HIDE DEF form
    <3>3. QED BY <3>1, <3>2 DEF ScreenDesks
  <2>4. QED BY <1>1, <2>2, <2>3
<1>4. desk' \in [Editors -> Desks] /\ \A f \in Editors \ {e} : desk'[f] = desk[f]
  BY <1>1, <1>2, <1>3 DEF Desks
<1>5. ~InsertsTree(e)'
  BY <1>3, NotInserting DEF InsertsTree
<1>6. QED BY <1>1, <1>4, <1>5, FormMoved, MeantKept

LEMMA DiscardStep == ASSUME MenuInv, NEW e \in Editors, Discard(e) PROVE MenuInv'
<1>1. desk' = [desk EXCEPT ![e] = Nothing] /\ UNCHANGED <<stored, tree, cache, meant, saves>>
  BY DEF Discard
<1>2. desk \in [Editors -> Desks]
  BY DEF MenuInv, FormsTyped
<1>3. /\ desk' \in [Editors -> Desks] /\ desk'[e] = Nothing
      /\ \A f \in Editors \ {e} : desk'[f] = desk[f]
  BY <1>1, <1>2 DEF Desks
<1>4. ~InsertsTree(e)'
  BY <1>3, NotInserting DEF InsertsTree
<1>5. QED BY <1>1, <1>3, <1>4, FormMoved, MeantKept

LEMMA CommitStep == ASSUME MenuInv, NEW e \in Editors, CommitForm(e) PROVE MenuInv'
<1>1. desk' = [desk EXCEPT ![e] = Nothing] /\ UNCHANGED <<tree, cache, saves>>
  BY DEF CommitForm
<1>2. desk \in [Editors -> Desks] /\ stored \in Blob
  BY DEF MenuInv, FormsTyped
<1>3. /\ desk' \in [Editors -> Desks] /\ desk'[e] = Nothing
      /\ \A f \in Editors \ {e} : desk'[f] = desk[f]
  BY <1>1, <1>2 DEF Desks
<1>4. stored' \in Blob /\ MeantIsStored'
  <2>1. CASE desk[e].at = "writing cabinet"
    <3>1. /\ stored' = [stored EXCEPT !.cabinet = AsStored(desk[e].items)]
          /\ meant' = [at |-> "meant", items |-> desk[e].items]
      BY <2>1 DEF CommitForm
    <3>2. desk[e].items \in GoodForms
      BY <2>1, DeskIs DEF MenuInv, CabinetWrites
    <3>3. AsStored(desk[e].items) \in SavedCabinets
      BY <3>2, RowsAre DEF GoodForms, CabinetForms
    <3>4. stored' \in Blob /\ stored'.cabinet = AsStored(desk[e].items)
      BY <1>2, <3>1, <3>3 DEF Blob
    <3>5. meant'.items = desk[e].items
      BY <3>1
    <3>6. QED BY <3>2, <3>4, <3>5 DEF MeantIsStored
  <2>2. CASE desk[e].at = "writing screen"
    <3>1. stored' = [stored EXCEPT !.screen = KnownOnly(desk[e].items)] /\ meant' = meant
      BY <2>2 DEF CommitForm
    <3>2. desk[e].items \in ScreenForms
      BY <2>2, DeskIs DEF MenuInv, ScreenDesks
    <3>3. KnownOnly(desk[e].items) \in SavedScreens
      BY <3>2, KnownIs
    <3>4. stored' \in Blob /\ stored'.cabinet = stored.cabinet
      BY <1>2, <3>1, <3>3 DEF Blob
    <3>5. QED BY <3>1, <3>4 DEF MenuInv, MeantIsStored
  <2>3. QED BY <2>1, <2>2 DEF CommitForm
<1>5. ~InsertsTree(e)'
  BY <1>3, NotInserting DEF InsertsTree
<1>6. saves' \in Nat /\ saves <= saves'
  BY <1>1 DEF MenuInv, FormsTyped
<1>7. QED BY <1>1, <1>3, <1>4, <1>5, <1>6, FormMoved

LEMMA ImportStep == MenuInv /\ ImportSettings => MenuInv'
<1> SUFFICES ASSUME MenuInv, ImportSettings PROVE MenuInv'
  OBVIOUS
<1>1. saves' = saves + 1 /\ cache' = Nothing /\ meant' = Nothing /\ UNCHANGED <<tree, desk>>
  BY DEF ImportSettings
<1>2. stored \in Blob /\ saves \in Nat /\ desk \in [Editors -> Desks]
  BY DEF MenuInv, FormsTyped
<1>3. stored' \in Blob
  <2>1. PICK k \in Customs, ok \in BOOLEAN :
          LET twice == <<Item(k, "link", TRUE, ok), Item(k, "action", TRUE, TRUE)>>
          IN  \/ stored' = [stored EXCEPT !.cabinet = twice]
              \/ stored' = [stored EXCEPT !.screen = <<BuiltIn(Head(SysButtons), FALSE)>> \o twice]
              \/ stored' = [cabinet |-> <<>>, screen |-> <<>>]
    BY DEF ImportSettings
  <2> DEFINE link == Item(k, "link", TRUE, ok)
             action == Item(k, "action", TRUE, TRUE)
             first == BuiltIn(Head(SysButtons), FALSE)
             twice == <<link, action>>
             one == <<first>>
  <2>2. link \in Button /\ action \in Button /\ link.kind = "link" /\ action.kind = "action"
    BY MenuAssumption DEF Item, Button
  <2>3. Head(SysButtons) \in STRING
    BY MenuAssumption
  <2>4. first \in Button /\ first.kind = "builtin" /\ first.ok
    BY <2>3, BuiltInIs
  <2> HIDE DEF link, action, first
  <2>5. twice \in Seq(Button) /\ ToSet(twice) = {link, action}
    BY <2>2 DEF ToSet
  <2>6. one \in Seq(Button) /\ ToSet(one) = {first}
    BY <2>4 DEF ToSet
  <2>7. twice \in SavedCabinets
    BY <2>2, <2>5 DEF SavedCabinets
  <2> HIDE DEF twice, one
  <2>8. one \o twice \in Seq(Button) /\ ToSet(one \o twice) = {first, link, action}
    <3>1. one \o twice \in Seq(Button)
      BY <2>5, <2>6, TwoJoined
    <3>2. ToSet(one \o twice) = ToSet(one) \cup ToSet(twice)
      BY <2>5, <2>6, SetOfJoined
    <3>3. QED BY <2>5, <2>6, <3>1, <3>2
  <2>9. one \o twice \in SavedScreens
    BY <2>2, <2>4, <2>8 DEF SavedScreens, SystemOk
  <2>10. <<>> \in SavedCabinets /\ <<>> \in SavedScreens
    BY DEF SavedCabinets, SavedScreens, SystemOk, ToSet
  <2>11. \/ stored' = [stored EXCEPT !.cabinet = twice]
         \/ stored' = [stored EXCEPT !.screen = one \o twice]
         \/ stored' = [cabinet |-> <<>>, screen |-> <<>>]
    BY <2>1 DEF twice, one, link, action, first
  <2> DEFINE joined == one \o twice
  <2> HIDE DEF joined
  <2>12. CASE stored' = [stored EXCEPT !.cabinet = twice]
    BY <1>2, <2>7, <2>12 DEF Blob
  <2>13. CASE stored' = [stored EXCEPT !.screen = joined]
    <3>1. joined \in SavedScreens
      BY <2>9 DEF joined
    <3>2. QED BY <1>2, <2>13, <3>1 DEF Blob
  <2>14. CASE stored' = [cabinet |-> <<>>, screen |-> <<>>]
    BY <2>10, <2>14 DEF Blob
  <2>15. QED BY <2>11, <2>12, <2>13, <2>14 DEF joined
<1>4. FormsTyped'
  BY <1>1, <1>2, <1>3 DEF MenuInv, FormsTyped
<1>5. MeantIsStored'
  BY <1>1 DEF MeantIsStored
<1>6. TreeInv'
  <2>1. saves' \in Nat /\ saves <= saves'
    BY <1>1, <1>2
  <2>2. QED BY <1>1, <2>1, TreeKept DEF MenuInv, InsertsTree
<1>7. QED BY <1>4, <1>5, <1>6 DEF MenuInv

LEMMA DeleteStep == ASSUME MenuInv, NEW e \in Editors, DeleteTree(e) PROVE MenuInv'
<1>1. /\ desk[e] = Nothing /\ saves' = saves + 1
      /\ desk' = [desk EXCEPT ![e] = [at |-> "writing tree", save |-> saves', gone |-> tree]]
      /\ UNCHANGED <<stored, tree, cache, meant>>
  BY DEF DeleteTree
<1>2. /\ desk \in [Editors -> Desks] /\ saves \in Nat /\ saves' \in Nat /\ tree \subseteq Row
      /\ stored \in Blob /\ (cache = Nothing \/ cache \in Blob)
  <2>1. saves \in Nat
    BY DEF MenuInv, FormsTyped
  <2>2. saves' = saves + 1
    BY <1>1
  <2>3. saves' \in Nat
    BY <2>1, <2>2
  <2>4. QED BY <2>3 DEF MenuInv, FormsTyped
<1>3. /\ desk'[e].at = "writing tree" /\ desk'[e].save = saves' /\ desk'[e].gone = tree
      /\ desk'[e] \in TreeWrites
      /\ \A f \in Editors \ {e} : desk'[f] = desk[f]
  BY <1>1, <1>2 DEF TreeWrites
<1>0. saves' <= saves' /\ \A i \in Nat : i <= saves => i <= saves' /\ i # saves'
  <2>1. saves \in Nat /\ saves' \in Nat
    BY <1>2
  <2>2. saves' = saves + 1
    BY <1>1
  <2>3. \A i \in Nat : i <= saves => i <= saves + 1 /\ i # saves + 1
    BY <2>1
  <2>4. QED BY <2>1, <2>2, <2>3
<1>4. desk' \in [Editors -> Desks]
  <2>1. desk' = [desk EXCEPT ![e] = desk'[e]]
    BY <1>1, <1>2
  <2>2. desk'[e] \in Desks
    BY <1>3 DEF Desks
  <2>3. QED BY <1>2, <2>1, <2>2
<1>5. FormsTyped'
  BY <1>1, <1>2, <1>4 DEF FormsTyped
<1>6. MeantIsStored'
  BY <1>1 DEF MenuInv, MeantIsStored
<1>7. \A r \in tree : r[1] \in Nat /\ r[1] <= saves
  BY <1>2 DEF MenuInv, TreeInv, Row
<1>8. \A f \in Editors \ {e} : InsertsTree(f)' =>
         /\ InsertsTree(f) /\ OneSaveAtATime(f) /\ desk'[f] = desk[f]
         /\ desk[f].save \in Nat /\ \A r \in desk[f].gone : r[1] \in Nat
  <2> SUFFICES ASSUME NEW f \in Editors \ {e}, InsertsTree(f)'
               PROVE  /\ InsertsTree(f) /\ OneSaveAtATime(f) /\ desk'[f] = desk[f]
                      /\ desk[f].save \in Nat /\ \A r \in desk[f].gone : r[1] \in Nat
    OBVIOUS
  <2>1. desk'[f] = desk[f] /\ InsertsTree(f)
    BY <1>3 DEF InsertsTree
  <2>2. desk[f] \in TreeWrites
    BY <2>1, DeskIs DEF MenuInv, InsertsTree
  <2>3. QED BY <2>1, <2>2 DEF MenuInv, TreeInv, TreeWrites, Row
<1>9. OneSaveAtATime(e)'
  <2>1. desk'[e].save <= saves' /\ \A r \in desk'[e].gone : r[1] <= saves'
    <3>1. desk'[e].save <= saves'
      BY <1>0, <1>3
    <3>2. \A r \in tree : r[1] <= saves'
      BY <1>0, <1>7
    <3>3. QED BY <1>3, <3>1, <3>2
  <2>2. \A r \in tree' : r[1] # desk'[e].save
    BY <1>0, <1>1, <1>3, <1>7
  <2>3. ASSUME NEW f \in Editors, InsertsTree(f)'
        PROVE  /\ f # e => desk'[f].save # desk'[e].save
               /\ \A r \in desk'[f].gone : r[1] # desk'[e].save
    <3>1. CASE f = e
      BY <1>0, <1>3, <1>7, <3>1
    <3>2. CASE f # e
      <4>1. /\ OneSaveAtATime(f) /\ desk'[f] = desk[f]
            /\ desk[f].save \in Nat /\ \A r \in desk[f].gone : r[1] \in Nat
        BY <1>8, <2>3, <3>2
      <4>2. desk[f].save <= saves /\ \A r \in desk[f].gone : r[1] <= saves
        BY <4>1 DEF OneSaveAtATime
      <4>3. QED BY <1>0, <1>3, <4>1, <4>2
    <3>3. QED BY <3>1, <3>2
  <2>4. \A r, q \in tree' : r[1] = q[1] /\ r \in desk'[e].gone => q \in desk'[e].gone
    BY <1>1, <1>3
  <2>5. QED BY <2>1, <2>2, <2>3, <2>4 DEF OneSaveAtATime
<1>10. ASSUME NEW f \in Editors, f # e, InsertsTree(f)' PROVE OneSaveAtATime(f)'
  <2>1. /\ InsertsTree(f) /\ OneSaveAtATime(f) /\ desk'[f] = desk[f]
        /\ desk[f].save \in Nat /\ \A r \in desk[f].gone : r[1] \in Nat
    BY <1>8, <1>10
  <2>2. desk'[f].save <= saves' /\ \A r \in desk'[f].gone : r[1] <= saves'
    <3>1. desk[f].save <= saves /\ \A r \in desk[f].gone : r[1] <= saves
      BY <2>1 DEF OneSaveAtATime
    <3>2. QED BY <1>0, <2>1, <3>1
  <2>3. ASSUME NEW g \in Editors, InsertsTree(g)'
        PROVE  /\ g # f => desk'[g].save # desk'[f].save
               /\ \A r \in desk'[g].gone : r[1] # desk'[f].save
    <3>1. CASE g = e
      <4>1. desk[f].save <= saves /\ \A r \in tree : r[1] # desk[f].save
        BY <2>1 DEF OneSaveAtATime
      <4>2. QED BY <1>0, <1>3, <2>1, <3>1, <4>1
    <3>2. CASE g # e
      BY <1>8, <2>1, <2>3, <3>2 DEF OneSaveAtATime
    <3>3. QED BY <3>1, <3>2
  <2>4. QED BY <1>1, <2>1, <2>2, <2>3 DEF OneSaveAtATime
<1>11. TreeInv'
  <2>1. \A r \in tree' : r[1] <= saves'
    BY <1>0, <1>1, <1>7
  <2>2. MenuIsWhole'
    BY <1>1 DEF MenuInv, TreeInv, MenuIsWhole
  <2>3. QED BY <1>9, <1>10, <2>1, <2>2 DEF TreeInv
<1>12. QED BY <1>5, <1>6, <1>11 DEF MenuInv

(* The rows of one save, put in whole. *)
RowsOf(s, t) == {<<s, n, t[n]>> : n \in Nodes}

LEMMA WholeIfInsertable ==
  ASSUME NEW t \in Trees, Insertable(t), NEW s
  PROVE  /\ {r[2] : r \in RowsOf(s, t)} = Nodes
         /\ \A ring \in SUBSET Nodes : ring # {} =>
              \E r \in RowsOf(s, t) : r[2] \in ring /\ r[3] \notin ring
<1>1. {r[2] : r \in RowsOf(s, t)} = Nodes
  <2>1. \A n \in Nodes : <<s, n, t[n]>> \in RowsOf(s, t) /\ <<s, n, t[n]>>[2] = n
    BY DEF RowsOf
  <2>2. \A r \in RowsOf(s, t) : r[2] \in Nodes
    BY DEF RowsOf
  <2>3. QED BY <2>1, <2>2
<1>2. ASSUME NEW ring \in SUBSET Nodes, ring # {}
      PROVE  \E r \in RowsOf(s, t) : r[2] \in ring /\ r[3] \notin ring
  <2>1. PICK n \in ring : t[n] \notin ring
    <3>1. ASSUME \A n \in ring : t[n] \in ring PROVE FALSE
      <4>1. Inserted(t) \cap ring = {}
        BY <3>1, NoRing
      <4>2. QED BY <1>2, <4>1 DEF Insertable
    <3>2. QED BY <3>1
  <2>2. <<s, n, t[n]>> \in RowsOf(s, t)
    BY DEF RowsOf
  <2>3. QED BY <2>1, <2>2
<1>3. QED BY <1>1, <1>2

LEMMA InsertStep == ASSUME MenuInv, NEW e \in Editors, CommitTree(e) PROVE MenuInv'
<1>1. /\ InsertsTree(e) /\ desk' = [desk EXCEPT ![e] = Nothing]
      /\ UNCHANGED <<stored, cache, meant, saves>>
  BY DEF CommitTree, InsertsTree
<1>2. desk \in [Editors -> Desks] /\ saves \in Nat /\ tree \subseteq Row
  BY DEF MenuInv, FormsTyped
<1>3. /\ desk' \in [Editors -> Desks] /\ desk'[e] = Nothing
      /\ \A f \in Editors \ {e} : desk'[f] = desk[f]
  BY <1>1, <1>2 DEF Desks
<1>4. ~InsertsTree(e)'
  BY <1>3, NotInserting DEF InsertsTree
<1>5. CASE tree' = tree
  <2>1. saves' \in Nat /\ saves <= saves' /\ stored' \in Blob /\ MeantIsStored'
    BY <1>1, MeantKept
  <2>2. QED BY <1>1, <1>3, <1>4, <1>5, <2>1, FormMoved
<1>6. ASSUME NEW t \in Trees, Insertable(t),
             tree' = (tree \ desk[e].gone) \cup {<<desk[e].save, n, t[n]>> : n \in Inserted(t)}
      PROVE  MenuInv'
  <2> DEFINE s == desk[e].save
             kept == tree \ desk[e].gone
             new == RowsOf(s, t)
  <2>1. desk[e] \in TreeWrites /\ OneSaveAtATime(e)
    BY <1>1, DeskIs DEF MenuInv, TreeInv, InsertsTree
  <2>2. s \in Nat /\ s <= saves /\ \A r \in tree : r[1] # s
    BY <2>1 DEF TreeWrites, OneSaveAtATime
  <2>3. tree' = kept \cup new
    BY <1>6 DEF Insertable, RowsOf
  <2>4. new \subseteq Row /\ \A r \in new : r[1] = s
    BY <2>2 DEF RowsOf, Row, Trees
  <2>5. FormsTyped'
    BY <1>1, <1>2, <1>3, <2>3, <2>4 DEF MenuInv, FormsTyped
  <2>6. MeantIsStored'
    BY <1>1 DEF MenuInv, MeantIsStored
  <2>7. \A r, q \in tree : r[1] = q[1] /\ r \in kept => q \in kept
    BY <2>1 DEF OneSaveAtATime
  <2> HIDE DEF s, kept
  <2>8. kept \subseteq tree
    BY DEF kept
  <2>9. \A r \in tree' : r[1] <= saves'
    BY <1>1, <2>2, <2>3, <2>4, <2>8 DEF MenuInv, TreeInv
  <2>10. MenuIsWhole'
    <3> SUFFICES ASSUME NEW i \in {r[1] : r \in tree'}
                 PROVE  LET rows == {r \in tree' : r[1] = i}
                        IN  /\ {r[2] : r \in rows} = Nodes
                            /\ \A ring \in SUBSET Nodes : ring # {} =>
                                 \E r \in rows : r[2] \in ring /\ r[3] \notin ring
      BY DEF MenuIsWhole
    <3>1. CASE i = s
      <4>1. {r \in tree' : r[1] = i} = new
        BY <2>2, <2>3, <2>4, <2>8, <3>1
      <4>2. QED BY <1>6, <4>1, WholeIfInsertable
    <3>2. CASE i # s
      <4>1. PICK q \in kept : q[1] = i
        BY <2>3, <2>4, <3>2
      <4>2. {r \in tree' : r[1] = i} = {r \in tree : r[1] = i}
        BY <2>3, <2>4, <2>7, <2>8, <3>2, <4>1
      <4>3. i \in {r[1] : r \in tree}
        BY <2>8, <4>1
      <4>4. QED BY <4>2, <4>3 DEF MenuInv, TreeInv, MenuIsWhole
    <3>3. QED BY <3>1, <3>2
  <2>11. ASSUME NEW f \in Editors, InsertsTree(f)' PROVE OneSaveAtATime(f)'
    <3>1. f # e /\ desk'[f] = desk[f] /\ InsertsTree(f) /\ OneSaveAtATime(f)
      BY <1>3, <1>4, <2>11 DEF MenuInv, TreeInv, InsertsTree
    <3>2. desk[f].save # s /\ \A r \in desk[f].gone : r[1] # s
      BY <2>1, <3>1 DEF OneSaveAtATime, s
    <3>3. desk'[f].save <= saves' /\ \A r \in desk'[f].gone : r[1] <= saves'
      BY <1>1, <3>1 DEF OneSaveAtATime
    <3>4. \A r \in tree' : r[1] # desk'[f].save
      BY <2>3, <2>4, <2>8, <3>1, <3>2 DEF OneSaveAtATime
    <3>5. ASSUME NEW g \in Editors, InsertsTree(g)'
          PROVE  /\ g # f => desk'[g].save # desk'[f].save
                 /\ \A r \in desk'[g].gone : r[1] # desk'[f].save
      <4>1. desk'[g] = desk[g] /\ InsertsTree(g)
        BY <1>3, <1>4, <3>5 DEF InsertsTree
      <4>2. QED BY <3>1, <4>1 DEF OneSaveAtATime
    <3>6. ASSUME NEW r \in tree', NEW q \in tree', r[1] = q[1], r \in desk'[f].gone
          PROVE  q \in desk'[f].gone
      <4>1. r \in tree
        BY <2>3, <2>4, <2>8, <3>1, <3>2, <3>6
      <4>2. q \in tree
        BY <2>2, <2>3, <2>4, <2>8, <3>6, <4>1
      <4>3. QED BY <3>1, <3>6, <4>1, <4>2 DEF OneSaveAtATime
    <3>7. QED BY <3>3, <3>4, <3>5, <3>6 DEF OneSaveAtATime
  <2>12. TreeInv'
    BY <2>9, <2>10, <2>11 DEF TreeInv
  <2>13. QED BY <2>5, <2>6, <2>12 DEF MenuInv
<1>7. QED BY <1>5, <1>6 DEF CommitTree, Trees

LEMMA MenuStep == MenuInv /\ [BotMenuNext]_menuVars => MenuInv'
<1> SUFFICES ASSUME MenuInv, [BotMenuNext]_menuVars PROVE MenuInv'
  OBVIOUS
<1>1. CASE UNCHANGED menuVars
  <2>1. stored' = stored /\ tree' = tree /\ cache' = cache /\ desk' = desk
        /\ meant' = meant /\ saves' = saves
    BY <1>1 DEF menuVars
  <2>2. FormsTyped' /\ MeantIsStored'
    BY <2>1 DEF MenuInv, FormsTyped, MeantIsStored
  <2>3. saves' \in Nat /\ saves <= saves'
    BY <2>1 DEF MenuInv, FormsTyped
  <2>4. TreeInv'
    BY <2>1, <2>3, TreeKept DEF MenuInv
  <2>5. QED BY <2>2, <2>4 DEF MenuInv
<1>2. CASE BotMenuNext
  <2>1. ASSUME NEW e \in Editors,
               OpenForm(e) \/ ChangeForm(e) \/ WriteRows(e) \/ Discard(e) \/ CommitForm(e)
        PROVE  MenuInv'
    BY <2>1, OpenStep, ChangeStep, WriteStep, DiscardStep, CommitStep
  <2>2. ASSUME NEW e \in Editors, DeleteTree(e) \/ CommitTree(e) PROVE MenuInv'
    BY <2>2, DeleteStep, InsertStep
  <2>3. QED BY <1>2, <2>1, <2>2, ServedStep, ImportStep DEF BotMenuNext
<1>3. QED BY <1>1, <1>2

LEMMA MenuHolds == MenuInv => WhatIsSavedIsShown /\ NothingVanishes /\ MenuIsWhole
<1> SUFFICES ASSUME MenuInv PROVE WhatIsSavedIsShown /\ NothingVanishes /\ MenuIsWhole
  OBVIOUS
<1>1. WhatIsSavedIsShown
  <2> SUFFICES ASSUME meant # Nothing, NEW off
               PROVE  CabinetScreen(stored.cabinet, off)
                        = Among(Shown(meant.items, off),
                                {it \in ToSet(meant.items) : it.kind # "miniapp"})
    BY DEF WhatIsSavedIsShown
  <2>1. /\ meant.items \in CabinetForms /\ Acceptable(meant.items)
        /\ stored.cabinet = AsStored(meant.items)
    BY DEF MenuInv, MeantIsStored, GoodForms
  <2>2. QED BY <2>1, ShownAsSaved
<1>2. NothingVanishes
  <2> SUFFICES ASSUME NEW have \in SUBSET ToSet(SysButtons)
               PROVE  LET shownKeys == ScreenKeys(stored.screen, Among(SysButtons, have))
                      IN  /\ \A k \in have : ~SwitchedOff(k) => Contains(shownKeys, k)
                          /\ have # {} => shownKeys # <<>>
    BY DEF NothingVanishes
  <2>1. stored.screen \in SavedScreens
    BY DEF MenuInv, FormsTyped, Blob
  <2>2. \A k : ~SwitchedOff(k) =>
          \A n \in DOMAIN stored.screen :
             stored.screen[n].key = k /\ stored.screen[n].kind = "builtin" => stored.screen[n].on
    BY DEF SwitchedOff
  <2>3. QED BY <2>1, <2>2, ScreenKeeps
<1>3. QED BY <1>1, <1>2 DEF MenuInv, TreeInv

-----------------------------------------------------------------------------
(* All of them together.                                                   *)

BackofficeInv ==
    /\ SessionsInv /\ ArrivalsInv /\ DoorsInv
    /\ ConfigInv /\ CastsInv /\ DeskInv
    /\ NoticesInv /\ BackupsInv /\ MenuInv

LEMMA BackofficeStart == MCInit => BackofficeInv
  BY SessionsStart, ArrivalsStart, DoorsStart, ConfigStart, CastsStart, DeskStart,
     NoticesStart, BackupsStart, MenuStart
     DEF MCInit, BackofficeInv

LEMMA OneOfThem ==
  [MCNext]_<<part, Backoffice>> =>
      /\ [CabinetNext]_sessionVars /\ [ArrivalsNext]_arrivalVars /\ [WebLoginNext]_loginVars
      /\ [BotConfigNext]_configVars /\ [BroadcastsNext]_castVars /\ [DeskNext]_deskVars
      /\ [NoticesNext]_noticeVars /\ [BackupsNext]_backupVars /\ [BotMenuNext]_menuVars
  BY DEF MCNext, Backoffice

LEMMA BackofficeStep == BackofficeInv /\ [MCNext]_<<part, Backoffice>> => BackofficeInv'
<1> SUFFICES ASSUME BackofficeInv, [MCNext]_<<part, Backoffice>> PROVE BackofficeInv'
  OBVIOUS
<1>1. /\ [CabinetNext]_sessionVars /\ [ArrivalsNext]_arrivalVars /\ [WebLoginNext]_loginVars
      /\ [BotConfigNext]_configVars /\ [BroadcastsNext]_castVars /\ [DeskNext]_deskVars
      /\ [NoticesNext]_noticeVars /\ [BackupsNext]_backupVars /\ [BotMenuNext]_menuVars
  BY OneOfThem
<1>2. SessionsInv' /\ ArrivalsInv' /\ DoorsInv'
  BY <1>1, SessionsStep, ArrivalsStep, DoorsStep DEF BackofficeInv
<1>3. ConfigInv' /\ CastsInv' /\ DeskInv'
  BY <1>1, ConfigStep, CastsStep, DeskStep DEF BackofficeInv
<1>4. NoticesInv' /\ BackupsInv' /\ MenuInv'
  BY <1>1, NoticesStep, BackupsStep, MenuStep DEF BackofficeInv
<1>5. QED BY <1>2, <1>3, <1>4 DEF BackofficeInv

(* Each of these components keeps its inductive invariant, for any         *)
(* instance.                                                               *)
THEOREM BackofficeHolds == MCSpec => []BackofficeInv
  BY BackofficeStart, BackofficeStep, PTL DEF MCSpec

(* However many tabs ask at once, a login of the cabinet has one line of   *)
(* tokens that ends with it (CabinetSessions); however registrations,      *)
(* links and codes overlap, each way in leads to one account and an        *)
(* address is confirmed by who read its mail (WebLogin); and of all the    *)
(* updates of a newcomer one opens the account (Arrivals).                 *)
THEOREM EveryoneComesHome == MCSpec => []SignInHolds
<1>1. BackofficeInv => SignInHolds
  BY SessionsHold, DoorsHold, ArrivalsHold DEF BackofficeInv, SignInHolds
<1>2. QED BY <1>1, BackofficeHolds, PTL

(* No notice is told twice, missed in its window, or brings a spent offer  *)
(* back (Notices); who writes to the support, while the AI is up, is       *)
(* answered by what has read the message, or a person is in the ticket or  *)
(* called to it, unless that call was lost (SupportDesk); a broadcast's    *)
(* books add up (Broadcasts); the archives that should be there are, and   *)
(* leave the host once a day (Backups); and a parameter read is one that   *)
(* was saved CACHE_TTL ago or later (BotConfig): however runs, jobs,       *)
(* processes and people overlap, fail and restart.                         *)
THEOREM OfficeRuns == MCSpec => []OfficeInOrder
<1>1. BackofficeInv => NoticesHold /\ NobodyLeftAlone /\ CastAddsUp
  BY NoticesAreRight, DeskHolds, CastsHold DEF BackofficeInv
<1>2. BackofficeInv => BackupsHold /\ ConfigIsRecent
  BY BackupsAreRight, ConfigHolds DEF BackofficeInv
<1>3. BackofficeInv => OfficeInOrder
  BY <1>1, <1>2 DEF OfficeInOrder
<1>4. QED BY <1>3, BackofficeHolds, PTL

(* Whoever reads the menus, and whenever: the cabinet's buttons are those  *)
(* of the form saved last and in its order, but for the buttons of the web *)
(* app where none is configured; of the buttons a screen's code gives, none*)
(* is lost that the owner did not switch off; and the tree of a menu is    *)
(* one save's whole and hangs together from its root, however editors'     *)
(* forms, saves and imports overlap (BotMenu).                             *)
THEOREM WhatIsSavedStands == MCSpec => []ScreensAreAsSaved
<1>1. BackofficeInv => ScreensAreAsSaved
  BY MenuHolds DEF BackofficeInv, ScreensAreAsSaved
<1>2. QED BY <1>1, BackofficeHolds, PTL
=============================================================================
