---------------------------- MODULE AccountLink -----------------------------
(***************************************************************************)
(* Merging a web account into a Telegram account (account_link.py, spent   *)
(* by the bot's acclink_confirm) while payments of both are settled.       *)
(*                                                                         *)
(* A merge takes the link code (GETDEL), locks the two user rows in id     *)
(* order, adds the web wallet to the other, hands over the web account's   *)
(* transactions and referrals, deletes it and commits.  A settlement locks *)
(* its transaction, then the payer's row and then the referrer's as it     *)
(* credits them.  The two orders cross: PostgreSQL aborts one of them, a   *)
(* settlement comes again, a person asks for a new code.  Variables show   *)
(* committed data.                                                         *)
(***************************************************************************)
EXTENDS Naturals, FiniteSets, Functions

CONSTANTS
    Accounts,         \* users, numbered by id
    WebAccount,       \* the account that is absorbed
    Invoices,         \* paid deposits
    PayerOf,          \* whose they are before any merge
    InviterOf,        \* who invited each account, NoAccount if nobody
    Confirms,         \* taps on «link», with the account that taps
    Tapper,
    NoAccount, NoWorker,
    MaxBreaks         \* bound: failures of a unit of work

ASSUME AccountsAssumption ==
    /\ Accounts \subseteq Nat /\ WebAccount \in Accounts /\ NoAccount \notin Accounts
    /\ PayerOf \in [Invoices -> Accounts]
    /\ InviterOf \in [Accounts -> Accounts \cup {NoAccount}]
    /\ \A u \in Accounts : InviterOf[u] # u
    /\ IsFiniteSet(Accounts) /\ IsFiniteSet(Invoices)
    /\ Tapper \in [Confirms -> Accounts \ {WebAccount}]
    /\ Invoices \cap Confirms = {} /\ NoWorker \notin Invoices \cup Confirms

Workers == Invoices \cup Confirms
Deposit == 10         \* kopecks of a deposit
Share == 1            \* and of the commission on it

VARIABLES
    exists,           \* the web account's row is there
    funds,            \* balance_minor of each account
    owner,            \* transactions.user_id
    inviter,          \* the referral binding of each account
    credited,         \* deposits COMPLETED
    rewarded,         \* those that brought a commission
    link,             \* each worker: how far it is
    userOwner, txnOwner,   \* row locks
    seenOwner, seenInviter, seenFunds,   \* what a worker read
    breaks

linkRows == <<exists, funds, owner, inviter, credited, rewarded>>
linkSeen == <<seenOwner, seenInviter, seenFunds>>
linkLocks == <<userOwner, txnOwner>>
linkVars == <<linkRows, link, linkLocks, linkSeen, breaks>>

LinkInit ==
    /\ exists = TRUE
    /\ funds = [u \in Accounts |-> 0]
    /\ owner = PayerOf /\ inviter = InviterOf
    /\ credited = {} /\ rewarded = {}
    /\ link = [x \in Workers |-> "idle"]
    /\ userOwner = [u \in Accounts |-> NoWorker]
    /\ txnOwner = [i \in Invoices |-> NoWorker]
    /\ seenOwner = [i \in Invoices |-> NoAccount]
    /\ seenInviter = [i \in Invoices |-> NoAccount]
    /\ seenFunds = [c \in Confirms |-> 0]
    /\ breaks = MaxBreaks

There(u) == u # WebAccount \/ exists
RowFree(u, x) == userOwner[u] \in {NoWorker, x}

LetGo(x) ==
    /\ userOwner' = [u \in Accounts |-> IF userOwner[u] = x THEN NoWorker ELSE userOwner[u]]
    /\ txnOwner' = [i \in Invoices |-> IF txnOwner[i] = x THEN NoWorker ELSE txnOwner[i]]

-----------------------------------------------------------------------------
(* PaymentService.process *)

LockInvoice(i) ==
    /\ link[i] = "idle" /\ i \notin credited
    /\ txnOwner[i] = NoWorker
    /\ txnOwner' = [txnOwner EXCEPT ![i] = i]
    /\ seenOwner' = [seenOwner EXCEPT ![i] = owner[i]]
    /\ link' = [link EXCEPT ![i] = "crediting"]
    /\ UNCHANGED <<linkRows, userOwner, seenInviter, seenFunds, breaks>>

(* The UPDATE of the payer's wallet takes its row. *)
CreditPayer(i) ==
    /\ link[i] = "crediting"
    /\ RowFree(seenOwner[i], i) /\ There(seenOwner[i])
    /\ userOwner' = [userOwner EXCEPT ![seenOwner[i]] = i]
    /\ seenInviter' = [seenInviter EXCEPT ![i] = inviter[seenOwner[i]]]
    /\ link' = [link EXCEPT ![i] = "rewarding"]
    /\ UNCHANGED <<linkRows, txnOwner, seenOwner, seenFunds, breaks>>

RewardInviter(i) ==
    /\ link[i] = "rewarding"
    /\ IF seenInviter[i] = NoAccount THEN UNCHANGED userOwner
       ELSE /\ RowFree(seenInviter[i], i) /\ There(seenInviter[i])
            /\ userOwner' = [userOwner EXCEPT ![seenInviter[i]] = i]
    /\ link' = [link EXCEPT ![i] = "committing"]
    /\ UNCHANGED <<linkRows, txnOwner, linkSeen, breaks>>

(* The inviter was merged away between the binding and its row: nobody is  *)
(* rewarded.                                                               *)
InviterMissed(i) ==
    /\ link[i] = "rewarding"
    /\ seenInviter[i] # NoAccount /\ ~There(seenInviter[i])
    /\ seenInviter' = [seenInviter EXCEPT ![i] = NoAccount]
    /\ link' = [link EXCEPT ![i] = "committing"]
    /\ UNCHANGED <<linkRows, linkLocks, seenOwner, seenFunds, breaks>>

SettleInvoice(i) ==
    /\ link[i] = "committing"
    /\ funds' = [u \in Accounts |->
                   funds[u] + (IF u = seenOwner[i] THEN Deposit ELSE 0)
                            + (IF u = seenInviter[i] THEN Share ELSE 0)]
    /\ credited' = credited \cup {i}
    /\ rewarded' = IF seenInviter[i] = NoAccount THEN rewarded ELSE rewarded \cup {i}
    /\ link' = [link EXCEPT ![i] = "idle"]
    /\ LetGo(i)
    /\ UNCHANGED <<exists, owner, inviter, linkSeen, breaks>>

-----------------------------------------------------------------------------
(* merge_web_into_telegram *)

SpendCode(c) ==
    /\ link[c] = "idle"
    /\ link' = [link EXCEPT ![c] = "locking"]
    /\ UNCHANGED <<linkRows, linkLocks, linkSeen, breaks>>

LocksTapper(c) == {Tapper[c]}                                   \* mutant
LocksBoth(c) == {Tapper[c], WebAccount}

(* The rows are taken one by one, the lower id first. *)
LockAccounts(c) ==
    /\ link[c] = "locking"
    /\ \E u \in LocksBoth(c) :
         /\ userOwner[u] = NoWorker
         /\ \A v \in LocksBoth(c) : v < u => userOwner[v] = c
         /\ userOwner' = [userOwner EXCEPT ![u] = c]
    /\ UNCHANGED <<linkRows, link, txnOwner, linkSeen, breaks>>

(* Under the locks: the web account is still there, with this balance. *)
ReadWeb(c) ==
    /\ link[c] = "locking" /\ \A u \in LocksBoth(c) : userOwner[u] = c
    /\ IF exists
       THEN /\ seenFunds' = [seenFunds EXCEPT ![c] = funds[WebAccount]]
            /\ link' = [link EXCEPT ![c] = "moving"]
            /\ UNCHANGED linkLocks
       ELSE /\ link' = [link EXCEPT ![c] = "refused"]
            /\ LetGo(c) /\ UNCHANGED seenFunds
    /\ UNCHANGED <<linkRows, seenOwner, seenInviter, breaks>>

(* UPDATE transactions SET user_id waits for every row it changes. *)
MoveRows(c) ==
    /\ link[c] = "moving"
    /\ \A i \in Invoices : owner[i] = WebAccount => txnOwner[i] \in {NoWorker, c}
    /\ txnOwner' = [i \in Invoices |-> IF owner[i] = WebAccount THEN c ELSE txnOwner[i]]
    /\ link' = [link EXCEPT ![c] = "merging"]
    /\ UNCHANGED <<linkRows, userOwner, linkSeen, breaks>>


(* People the web account invited are the survivor's now, who never        *)
(* becomes their own; the survivor's own inviter stays.                    *)
NewInviters(c) ==
    [u \in Accounts |->
       IF u = Tapper[c]
       THEN IF inviter[u] \notin {NoAccount, WebAccount} THEN inviter[u]
            ELSE IF inviter[WebAccount] # u THEN inviter[WebAccount] ELSE NoAccount
       ELSE IF inviter[u] = WebAccount THEN Tapper[c] ELSE inviter[u]]

KeepOwners(c) == owner                                          \* mutant
NewOwners(c) ==
    [i \in Invoices |-> IF owner[i] = WebAccount THEN Tapper[c] ELSE owner[i]]

Merge(c) ==
    /\ link[c] = "merging"
    /\ exists' = FALSE
    /\ funds' = [funds EXCEPT ![Tapper[c]] = @ + seenFunds[c], ![WebAccount] = 0]
    /\ owner' = NewOwners(c)
    /\ inviter' = NewInviters(c)
    /\ link' = [link EXCEPT ![c] = "merged"]
    /\ LetGo(c)
    /\ UNCHANGED <<credited, rewarded, linkSeen, breaks>>

-----------------------------------------------------------------------------
(* A settlement is retried; a merge needs a new code. *)
Rollback(x) ==
    /\ link' = [link EXCEPT ![x] = IF x \in Confirms THEN "refused" ELSE "idle"]
    /\ LetGo(x)
    /\ UNCHANGED <<linkRows, linkSeen>>

Breaks(x) ==
    /\ link[x] \notin {"idle", "merged", "refused"}
    /\ breaks > 0 /\ breaks' = breaks - 1
    /\ Rollback(x)

(* A wallet that is gone: the refresh after its UPDATE finds no row. *)
AccountGone(i) ==
    /\ \/ link[i] = "crediting" /\ ~There(seenOwner[i])
       \/ link[i] = "rewarding" /\ seenInviter[i] # NoAccount /\ ~There(seenInviter[i])
    /\ Rollback(i) /\ UNCHANGED breaks

(* The row locks a worker waits for belong to others. *)
WaitsFor(x, y) ==
    \/ x \in Invoices /\ link[x] = "crediting" /\ userOwner[seenOwner[x]] = y
    \/ x \in Invoices /\ link[x] = "rewarding" /\ seenInviter[x] # NoAccount
       /\ userOwner[seenInviter[x]] = y
    \/ x \in Invoices /\ link[x] = "idle" /\ x \notin credited /\ txnOwner[x] = y
    \/ x \in Confirms /\ link[x] = "locking" /\ \E u \in LocksBoth(x) :
         userOwner[u] = y /\ \A v \in LocksBoth(x) : v < u => userOwner[v] = x
    \/ x \in Confirms /\ link[x] = "moving"
       /\ \E i \in Invoices : owner[i] = WebAccount /\ txnOwner[i] = y

DeadlockVictim(x) ==
    /\ \E y \in Workers \ {x} :
         /\ WaitsFor(x, y)
         /\ \/ WaitsFor(y, x)
            \/ \E z \in Workers \ {x, y} : WaitsFor(y, z) /\ WaitsFor(z, x)
    /\ Rollback(x) /\ UNCHANGED breaks

SettleStep(i) ==
    \/ LockInvoice(i) \/ CreditPayer(i) \/ RewardInviter(i) \/ InviterMissed(i)
    \/ SettleInvoice(i) \/ AccountGone(i)

MergeStep(c) == LockAccounts(c) \/ ReadWeb(c) \/ MoveRows(c) \/ Merge(c)

LinkNext ==
    \/ \E i \in Invoices : SettleStep(i)
    \/ \E c \in Confirms : SpendCode(c) \/ MergeStep(c)
    \/ \E x \in Workers : Breaks(x) \/ DeadlockVictim(x)

(* A row lock goes to a request that waits for it when its holder ends. *)
LinkFairness ==
    /\ WF_linkVars(\E i \in Invoices : SettleStep(i))
    /\ \A c \in Confirms : SF_linkVars(MergeStep(c))
    /\ WF_linkVars(\E x \in Workers : DeadlockVictim(x))

LinkSpec == LinkInit /\ [][LinkNext]_linkVars /\ LinkFairness

-----------------------------------------------------------------------------
(* Money and history are never dropped (account_link.py:10): whatever      *)
(* settles while accounts are merged, the wallets hold every deposit and   *)
(* every commission, none of it in the account that is gone, and what is   *)
(* not settled yet belongs to an account that exists.                      *)
MergeKeepsMoney ==
    /\ SumFunctionOnSet(funds, Accounts)
         = Deposit * Cardinality(credited) + Share * Cardinality(rewarded)
    /\ exists \/ (funds[WebAccount] = 0 /\ \A i \in Invoices : owner[i] # WebAccount)

(* The survivor of a merge is nobody's inviter by mistake, its own least   *)
(* of all, and nobody was invited by an account that is gone               *)
(* (account_link.py:150-171).                                              *)
NobodyInvitesThemselves ==
    \A u \in Accounts :
        (exists \/ u # WebAccount) =>
            inviter[u] # u /\ (exists \/ inviter[u] # WebAccount)

(* What a merge owes to both accounts. *)
MergeKeepsBooks == MergeKeepsMoney /\ NobodyInvitesThemselves

(* Every deposit is credited, although merges and settlements take their   *)
(* rows in crossing orders.                                                *)
DepositsSurviveMerges == <>(credited = Invoices)
=============================================================================
