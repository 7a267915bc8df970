------------------------------ MODULE WebLogin ------------------------------
(***************************************************************************)
(* The doors of the web cabinet (cabinet_auth.py, cabinet_link.py,         *)
(* oauth.py and the deep links of start.py): password, guest purchase,     *)
(* provider identities and Telegram, and how they are attached to and      *)
(* detached from an account.  No handler locks a row: each reads in one    *)
(* transaction and writes under the unique indexes of users.email and      *)
(* linked_accounts.  What a login mints is CabinetSessions; merging a web  *)
(* account into a Telegram one is AccountLink.                             *)
(***************************************************************************)
EXTENDS Naturals

CONSTANTS
    UserRows,             \* ids of users
    TelegramRows,     \* users who came by the bot
    Mails, NoMail,
    Identities,       \* accounts at Google, Yandex and VK
    Vouched,          \* the e-mail an identity's provider vouches for, or NoMail
    Visits,           \* requests in flight
    NoRowId,
    VerifyMail,       \* CABINET_EMAIL_VERIFICATION
    MaxGuesses        \* _MAX_CODE_ATTEMPTS

ASSUME UserRowsAssumption ==
    /\ UserRows \subseteq Nat /\ TelegramRows \subseteq UserRows /\ NoRowId \notin UserRows
    /\ NoMail \notin Mails /\ Vouched \in [Identities -> Mails \cup {NoMail}]

VARIABLES
    account,          \* the rows of users
    holder,           \* the account an identity is linked to
    mailCode,         \* link_email:<user> in Redis
    inside,           \* accounts somebody has entered; the end of a session,
                      \* which only takes options away, is CabinetSessions'
    visit,            \* each request: how far it is and what it read
    proved,           \* <<a, e>>: somebody in a has shown to read e's mail
    crossed           \* accounts two identities of which were unlinked at once

loginVars == <<account, holder, mailCode, inside, visit, proved, crossed>>

Absent == [there |-> FALSE, mail |-> NoMail, verified |-> FALSE,
           secret |-> FALSE, telegram |-> FALSE, verifyToken |-> FALSE]
NoCode == [mail |-> NoMail, guesses |-> 0]
Away == [at |-> "away", who |-> NoRowId, mail |-> NoMail, by |-> NoMail, guesses |-> 0]

WebLoginInit ==
    /\ account = [a \in UserRows |-> IF a \in TelegramRows
                     THEN [Absent EXCEPT !.there = TRUE, !.telegram = TRUE] ELSE Absent]
    /\ holder = [i \in Identities |-> NoRowId]
    /\ mailCode = [a \in UserRows |-> NoCode]
    /\ inside = {}
    /\ visit = [q \in Visits |-> Away]
    /\ proved = {} /\ crossed = {}

TakenByOther(e, a) == \E b \in UserRows \ {a} : account[b].mail = e
Taken(e) == e # NoMail /\ \E b \in UserRows : account[b].mail = e
FreeRow(a) == ~account[a].there /\ \A b \in UserRows : b < a => account[b].there

Arrive(q, r) == visit[q] = Away /\ visit' = [visit EXCEPT ![q] = r]
Depart(q) == visit' = [visit EXCEPT ![q] = Away]
Refused(q) ==
    /\ Depart(q)
    /\ UNCHANGED <<account, holder, mailCode, inside, proved, crossed>>

-----------------------------------------------------------------------------
(* register and guest_purchase: the address is looked up first.  A guest   *)
(* whose address is known only gets an invoice.                            *)
AskByMail(q, e) ==
    /\ ~Taken(e)
    /\ \E kind \in {"register", "guest"} :
         Arrive(q, [Away EXCEPT !.at = kind, !.mail = e])
    /\ UNCHANGED <<account, holder, mailCode, inside, proved, crossed>>

GuestIsVerified(kind) == ~VerifyMail \/ kind = "guest"          \* mutant
BornVerified(kind) == ~VerifyMail

(* The insert is refused by uq_users_email, or the row is there: a guest   *)
(* gets an automatic login and a password nobody knows.                    *)
CreateByMail(q) ==
    LET v == visit[q] IN
    /\ v.at \in {"register", "guest"}
    /\ ~Taken(v.mail)
    /\ \E a \in UserRows :
         /\ FreeRow(a)
         /\ account' = [account EXCEPT ![a] =
                [Absent EXCEPT !.there = TRUE, !.mail = v.mail,
                   !.verified = BornVerified(v.at), !.secret = v.at = "register",
                   !.verifyToken = VerifyMail /\ v.at = "register"]]
         /\ inside' = IF v.at = "guest" \/ ~VerifyMail THEN inside \cup {a} ELSE inside
    /\ Depart(q)
    /\ UNCHANGED <<holder, mailCode, proved, crossed>>

MailRefused(q) ==
    /\ visit[q].at \in {"register", "guest"} /\ Taken(visit[q].mail)
    /\ Refused(q)

(* verify_email: the link of the registration's mail. *)
ClickVerify(a) ==
    /\ account[a].verifyToken
    /\ account' = [account EXCEPT ![a].verified = TRUE, ![a].verifyToken = FALSE]
    /\ inside' = inside \cup {a}
    /\ proved' = proved \cup {<<a, account[a].mail>>}
    /\ UNCHANGED <<holder, mailCode, visit, crossed>>

PasswordLogin(a) ==
    /\ account[a].verified /\ account[a].secret
    /\ inside' = inside \cup {a}
    /\ UNCHANGED <<account, holder, mailCode, visit, proved, crossed>>

(* login_auto: the token a guest was given, while the account is as it was. *)
AutomaticLogin(a) ==
    /\ account[a].there /\ account[a].mail # NoMail
    /\ ~account[a].verified /\ ~account[a].verifyToken
    /\ inside' = inside \cup {a}
    /\ UNCHANGED <<account, holder, mailCode, visit, proved, crossed>>

-----------------------------------------------------------------------------
(* oauth_callback without a session, after its single-use state: the       *)
(* identity is known; or its vouched address is an account's, which must   *)
(* be a confirmed one; or a newcomer.                                      *)
KnownIdentity(i) ==
    /\ holder[i] # NoRowId
    /\ inside' = inside \cup {holder[i]}
    /\ UNCHANGED <<account, holder, mailCode, visit, proved, crossed>>

LookUpIdentity(q, i) ==
    /\ holder[i] = NoRowId
    /\ \/ /\ ~Taken(Vouched[i])
          /\ Arrive(q, [Away EXCEPT !.at = "newcomer", !.mail = Vouched[i], !.by = i])
       \/ \E a \in UserRows :
            /\ Vouched[i] # NoMail /\ account[a].mail = Vouched[i]
            /\ account[a].verified
            /\ Arrive(q, [Away EXCEPT !.at = "attach", !.who = a, !.by = i])
    /\ UNCHANGED <<account, holder, mailCode, inside, proved, crossed>>

IdentityTaken(q) ==
    /\ visit[q].at \in {"newcomer", "attach", "link"}
    /\ \/ holder[visit[q].by] # NoRowId
       \/ visit[q].mail # NoMail /\ TakenByOther(visit[q].mail, visit[q].who)
    /\ Refused(q)

Attached(q, a) ==
    /\ holder[visit[q].by] = NoRowId
    /\ visit[q].mail = NoMail \/ ~TakenByOther(visit[q].mail, a)
    /\ holder' = [holder EXCEPT ![visit[q].by] = a]
    /\ inside' = inside \cup {a}
    /\ proved' = IF visit[q].mail = NoMail THEN proved
                 ELSE proved \cup {<<a, visit[q].mail>>}
    /\ Depart(q)
    /\ UNCHANGED <<mailCode, crossed>>

CreateByIdentity(q) ==
    /\ visit[q].at = "newcomer"
    /\ \E a \in UserRows :
         /\ FreeRow(a) /\ Attached(q, a)
         /\ account' = [account EXCEPT ![a] =
                [Absent EXCEPT !.there = TRUE, !.mail = visit[q].mail,
                               !.verified = visit[q].mail # NoMail]]

(* oauth_callback with a session's state: an account without an address    *)
(* inherits the vouched one, unless it was taken when looked up.           *)
AskToLink(q, a, i) ==
    /\ a \in inside /\ holder[i] = NoRowId
    /\ Arrive(q, [Away EXCEPT !.at = "link", !.who = a, !.by = i, !.mail =
                    IF account[a].mail = NoMail /\ ~Taken(Vouched[i])
                    THEN Vouched[i] ELSE NoMail])
    /\ UNCHANGED <<account, holder, mailCode, inside, proved, crossed>>

CommitLink(q) ==
    LET owner == visit[q].who IN
    /\ visit[q].at \in {"attach", "link"}
    /\ Attached(q, owner)
    /\ account' = IF visit[q].mail = NoMail THEN account
                  ELSE [account EXCEPT ![owner].mail = visit[q].mail, ![owner].verified = TRUE]

(* unlink_oauth: some way in must remain, as far as it can see. *)
OthersRemain(a, i) == \E j \in Identities \ {i} : holder[j] = a
MayUnlink(a, i) ==
    \/ OthersRemain(a, i)
    \/ account[a].verified /\ account[a].secret
    \/ account[a].telegram

AskToUnlink(q, a, i) ==
    /\ a \in inside /\ holder[i] = a
    /\ MayUnlink(a, i)
    /\ Arrive(q, [Away EXCEPT !.at = "unlink", !.who = a, !.by = i])
    /\ UNCHANGED <<account, holder, mailCode, inside, proved, crossed>>

CommitUnlink(q) ==
    LET v == visit[q] IN
    /\ v.at = "unlink"
    /\ holder' = IF holder[v.by] = v.who THEN [holder EXCEPT ![v.by] = NoRowId] ELSE holder
    /\ crossed' = IF \E r \in Visits \ {q} : visit[r].at = "unlink" /\ visit[r].who = v.who
                  THEN crossed \cup {v.who} ELSE crossed
    /\ Depart(q)
    /\ UNCHANGED <<account, mailCode, inside, proved>>

-----------------------------------------------------------------------------
(* link_email: a code goes to the address. *)
AskMailCode(a, e) ==
    /\ a \in inside /\ ~account[a].verified
    /\ ~TakenByOther(e, a)
    /\ mailCode' = [mailCode EXCEPT ![a] = [mail |-> e, guesses |-> 0]]
    /\ UNCHANGED <<account, holder, inside, visit, proved, crossed>>

(* link_email_confirm: the code is read, compared, and written back one    *)
(* attempt older or deleted later, whatever it is by then.                 *)
ReadMailCode(q, a) ==
    /\ a \in inside /\ mailCode[a] # NoCode
    /\ mailCode[a].guesses < MaxGuesses
    /\ \E at \in {"confirm", "guess"} :
         Arrive(q, [Away EXCEPT !.at = at, !.who = a, !.mail = mailCode[a].mail,
                                !.guesses = mailCode[a].guesses])
    /\ UNCHANGED <<account, holder, mailCode, inside, proved, crossed>>

TooManyGuesses(a) ==
    /\ a \in inside /\ mailCode[a].guesses >= MaxGuesses
    /\ mailCode' = [mailCode EXCEPT ![a] = NoCode]
    /\ UNCHANGED <<account, holder, inside, visit, proved, crossed>>

WrongCode(q) ==
    LET v == visit[q] IN
    /\ v.at = "guess"
    /\ mailCode' = [mailCode EXCEPT ![v.who] = [mail |-> v.mail, guesses |-> v.guesses + 1]]
    /\ Depart(q)
    /\ UNCHANGED <<account, holder, inside, proved, crossed>>

ConfirmMail(q) ==
    LET v == visit[q] IN
    /\ v.at = "confirm" /\ ~TakenByOther(v.mail, v.who)
    /\ account' = [account EXCEPT ![v.who].mail = v.mail, ![v.who].verified = TRUE,
                                  ![v.who].secret = TRUE]
    /\ proved' = proved \cup {<<v.who, v.mail>>}
    /\ visit' = [visit EXCEPT ![q].at = "spend"]
    /\ UNCHANGED <<holder, mailCode, inside, crossed>>

ConfirmTooLate(q) ==
    /\ visit[q].at = "confirm" /\ TakenByOther(visit[q].mail, visit[q].who)
    /\ Refused(q)

SpendCode(q) ==
    /\ visit[q].at = "spend"
    /\ mailCode' = [mailCode EXCEPT ![visit[q].who] = NoCode]
    /\ Depart(q)
    /\ UNCHANGED <<account, holder, inside, proved, crossed>>

-----------------------------------------------------------------------------
(* telegram_login_start, the button of weblogin_confirm and the poll: the  *)
(* code is the browser's own until its poll, so they are one step here,    *)
(* and whoever presses the button has come by the bot.                     *)
TapInBot(a) == account[a].there /\ account[a].telegram
TelegramLogin(a) ==
    /\ TapInBot(a)
    /\ inside' = inside \cup {a}
    /\ UNCHANGED <<account, holder, mailCode, visit, proved, crossed>>

(* Codes are written with a TTL, and a handler may die. *)
CodeExpires ==
    /\ \E a \in UserRows : mailCode[a] # NoCode /\ mailCode' = [mailCode EXCEPT ![a] = NoCode]
    /\ UNCHANGED <<account, holder, inside, visit, proved, crossed>>

WebLoginNext ==
    \/ \E q \in Visits :
         \/ CreateByMail(q) \/ MailRefused(q) \/ CreateByIdentity(q) \/ IdentityTaken(q)
         \/ CommitLink(q) \/ CommitUnlink(q) \/ WrongCode(q) \/ ConfirmMail(q)
         \/ ConfirmTooLate(q) \/ SpendCode(q)
         \/ \E e \in Mails : AskByMail(q, e)
         \/ \E i \in Identities : LookUpIdentity(q, i)
         \/ \E a \in UserRows : ReadMailCode(q, a)
         \/ \E a \in UserRows, i \in Identities : AskToLink(q, a, i) \/ AskToUnlink(q, a, i)
    \/ \E a \in UserRows :
         \/ ClickVerify(a) \/ PasswordLogin(a) \/ AutomaticLogin(a)
         \/ TooManyGuesses(a) \/ TelegramLogin(a)
         \/ \E e \in Mails : AskMailCode(a, e)
    \/ \E i \in Identities : KnownIdentity(i)
    \/ CodeExpires

WebLoginSpec == WebLoginInit /\ [][WebLoginNext]_loginVars

-----------------------------------------------------------------------------
WayIn(a) ==
    \/ account[a].telegram \/ account[a].verified
    \/ \E i \in Identities : holder[i] = a

(* Whatever requests overlap, one address opens one account; an address    *)
(* counts as confirmed only in an account somebody entered or confirmed by *)
(* reading its mail; and every account keeps a way in (cabinet_link.py:    *)
(* "never drop the last way into the account"), unless its address still   *)
(* waits to be confirmed or two of its identities were unlinked at once.   *)
DoorsLeadHome ==
    /\ \A a, b \in UserRows : account[a].mail = account[b].mail => a = b \/ account[a].mail = NoMail
    /\ VerifyMail => \A a \in UserRows : account[a].verified => <<a, account[a].mail>> \in proved
    /\ \A a \in UserRows : account[a].there =>
         WayIn(a) \/ account[a].mail # NoMail \/ a \in crossed
=============================================================================
