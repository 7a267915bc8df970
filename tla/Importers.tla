----------------------------- MODULE Importers -----------------------------
(***************************************************************************)
(* Moving in from another bot (admin/migration.py and the seven            *)
(* *_import.py services): the admin uploads a dump and runs the import, as *)
(* often as he likes, while the shop is already open.  One run is one unit *)
(* of work over the whole dump, without a lock: it reads what is there,    *)
(* adds what is missing, and either commits or loses to a unique index.    *)
(* One person of the dump is followed: a wallet, subscriptions of one      *)
(* tariff, all live, a paid invoice, an inviter.                           *)
(***************************************************************************)
EXTENDS Integers, FiniteSets

CONSTANTS
    Imports,        \* runs of the import
    Legacy,         \* the person's subscriptions in the dump
    Tagged,         \* those that carry an id of their own there
    LegacySum,      \* the wallet in the dump
    NoRow,
    MaxLive,        \* bound: what the person does in the open shop
    MaxAccidents    \* bound: panel errors and crashes

ASSUME ImportersAssumption ==
    /\ Tagged \subseteq Legacy /\ LegacySum \in Nat /\ 0 \notin Legacy
    /\ "own" \notin Imports
    /\ NoRow \notin (Legacy \cup {0}) \X (Imports \cup {"own"})

Sources == {"bedolaga", "remnashop", "shopbot", "minishop", "solobot", "jolymmiels",
            "threexui"}

VARIABLES
    source,         \* the bot the shop moves from
    named,          \* the old invoice names a gateway this shop knows
    person,         \* the users row: "none", "imported", "plain", "invited"
    inviter,        \* "none", "live" or "legacy"
    oldPurse, earnedLive, carried,  \* the wallet; its live part; times LegacySum came in
    subRows,           \* subscription rows
    pointer,        \* current_subscription_id
    history,        \* transaction rows of the old invoice
    tariff,         \* the tariff stands in the catalog
    panelHas,       \* accounts on the panel (3x-ui creates them itself)
    run,            \* each import: where it is, what it read, what it will write
    live, accidents

tables == <<source, named, person, inviter, oldPurse, earnedLive, carried, subRows,
            pointer, history, tariff, live>>

importVars == <<tables, panelHas, run, accidents>>

(* A row: the legacy subscription it stands for (0: bought here), its panel *)
(* account as the row knows it (0: none), who made it, whether it has the   *)
(* short id of the dump, its tariff link, and where its term comes from.    *)
Row(l, account, by, short, linked, term) ==
    [of |-> l, account |-> account, by |-> by, short |-> short, linked |-> linked,
     term |-> term]

Id(x) == <<x.of, x.by>>
Ids(have) == {Id(x) : x \in have}
Planless(have) == {x \in have : ~x.linked /\ x.of # 0}

IdleImport ==
    [at |-> "idle", person |-> "none", inviter |-> "none", purse |-> 0, current |-> NoRow,
     todo |-> {}, found |-> {}, added |-> {}, pays |-> FALSE, linked |-> {},
     newTariff |-> FALSE, raced |-> FALSE]

ImportersInit ==
    /\ source \in Sources /\ named \in BOOLEAN
    /\ person = "none" /\ inviter = "none"
    /\ oldPurse = 0 /\ earnedLive = 0 /\ carried = 0
    /\ subRows = {} /\ pointer = NoRow /\ history = {}
    /\ tariff \in BOOLEAN
    /\ panelHas = IF source = "threexui" THEN {} ELSE Legacy
    /\ run = [r \in Imports |-> IdleImport]
    /\ live = MaxLive /\ accidents = MaxAccidents

UnderWay(r) == run[r].at \notin {"idle", "done", "refused", "crashed"}

(* Whoever commits meanwhile races the runs under way. *)
Raced(f) == [r \in Imports |-> IF UnderWay(r) THEN [f[r] EXCEPT !.raced = TRUE] ELSE f[r]]

-----------------------------------------------------------------------------
(* The wallet a run leaves, from the row it found: the sources that have a *)
(* wallet hand it to a new row; solobot raises a smaller one.              *)
BedolagaPurse(seen, was) == IF seen = "none" THEN LegacySum ELSE was
ShopbotPurse(seen, was) == IF seen = "none" THEN LegacySum ELSE was
SolobotPurse(seen, was) == IF was >= LegacySum THEN was ELSE LegacySum
RemnashopPurse(seen, was) == was
MinishopPurse(seen, was) == was

PurseAfter(r) ==
    LET seen == run[r].person
        was == run[r].purse
    IN  CASE source = "bedolaga" -> BedolagaPurse(seen, was)
          [] source = "shopbot" -> ShopbotPurse(seen, was)
          [] source = "solobot" -> SolobotPurse(seen, was)
          [] source = "remnashop" -> RemnashopPurse(seen, was)
          [] OTHER -> MinishopPurse(seen, was)

(* The subRows a subscription of the dump may be found in: by the panel uuid   *)
(* the dump names, which solobot and jolymmiels may have to ask the panel   *)
(* for (up: it answers); without one jolymmiels takes any row of the        *)
(* person, solobot none.  3x-ui goes by the short id.                       *)
ByAccount(l, have) == {x \in have : x.account = l}
BedolagaFinds(l, have, up) == ByAccount(l, have)
RemnashopFinds(l, have, up) == ByAccount(l, have)
ShopbotFinds(l, have, up) == ByAccount(l, have)
MinishopFinds(l, have, up) == ByAccount(l, have)
SolobotFinds(l, have, up) == IF l \in Tagged \/ up THEN ByAccount(l, have) ELSE {}
JolymmielsFinds(l, have, up) == IF up THEN ByAccount(l, have) ELSE have
ThreexuiFinds(l, have, up) == {x \in have : x.of = l}

Finds(l, have, up) ==
    CASE source = "bedolaga" -> BedolagaFinds(l, have, up)
      [] source = "remnashop" -> RemnashopFinds(l, have, up)
      [] source = "shopbot" -> ShopbotFinds(l, have, up)
      [] source = "minishop" -> MinishopFinds(l, have, up)
      [] source = "solobot" -> SolobotFinds(l, have, up)
      [] source = "jolymmiels" -> JolymmielsFinds(l, have, up)
      [] source = "threexui" -> ThreexuiFinds(l, have, up)

KnowsAccount(l, up) ==
    CASE source = "solobot" -> l \in Tagged \/ up
      [] source = "jolymmiels" -> up
      [] OTHER -> TRUE

(* A jolymmiels customer has one subscription. *)
Carried == IF source = "jolymmiels" THEN {CHOOSE l \in Tagged : TRUE} ELSE Legacy

(* Whether the invoices come in with receipt_created_at, the marker that   *)
(* keeps them away from the receipt job.                                   *)
BedolagaStamps == TRUE
RemnashopStamps == TRUE
ShopbotStamps == TRUE
MinishopStamps == FALSE
SolobotStamps == FALSE
JolymmielsStamps == FALSE

Stamps ==
    CASE source = "bedolaga" -> BedolagaStamps
      [] source = "remnashop" -> RemnashopStamps
      [] source = "shopbot" -> ShopbotStamps
      [] source = "minishop" -> MinishopStamps
      [] source = "solobot" -> SolobotStamps
      [] OTHER -> JolymmielsStamps

-----------------------------------------------------------------------------
BeginImport(r) ==
    /\ run[r].at = "idle"
    /\ run' = [run EXCEPT ![r].at = IF source = "threexui" THEN "subs" ELSE "people",
                          ![r].todo = Carried]
    /\ UNCHANGED tables /\ UNCHANGED <<panelHas, accidents>>

(* What the run knows of the person from here on: its session keeps the row. *)
Sees(f, r) == [f EXCEPT ![r].person = person, ![r].inviter = inviter,
                        ![r].purse = oldPurse, ![r].current = pointer]

(* _import_users, _link_referrals *)
ReadPeople(r) ==
    /\ run[r].at = "people"
    /\ run' = [Sees(run, r) EXCEPT ![r].at = "subs"]
    /\ UNCHANGED tables /\ UNCHANGED <<panelHas, accidents>>

(* The short id of the dump is kept if it has one and nobody has it. *)
ShortIsFree(l) == l \in Tagged /\ ~\E x \in subRows : x.of = l /\ x.short

(* A subscription of the dump is found and refreshed, or added. *)
CarrySub(r, l) ==
    /\ run[r].at = "subs" /\ l \in run[r].todo /\ source # "threexui"
    /\ \E up \in BOOLEAN :
         LET have == Finds(l, subRows \cup run[r].added, up)
         IN  /\ up \/ (source \in {"solobot", "jolymmiels"} /\ accidents > 0)
             /\ accidents' = IF up THEN accidents ELSE accidents - 1
             /\ \/ \E x \in have :
                     run' = [run EXCEPT ![r].todo = @ \ {l}, ![r].found = @ \cup {Id(x)}]
                \/ /\ have = {}
                   /\ run' = [run EXCEPT ![r].todo = @ \ {l},
                         ![r].added = @ \cup {
                               Row(l, IF KnowsAccount(l, up) THEN l ELSE 0, r,
                                   ShortIsFree(l), FALSE, "dump")}]
    /\ UNCHANGED tables /\ UNCHANGED panelHas

(* 3x-ui: the account is created on the panel before anything is written  *)
(* here; one that is there already is refused and the client skipped.  A   *)
(* call that fails may have created it.                                    *)
ProvisionClient(r, l) ==
    /\ run[r].at = "subs" /\ l \in run[r].todo /\ source = "threexui"
    /\ \/ \E x \in Finds(l, subRows \cup run[r].added, TRUE) :
            /\ run' = [run EXCEPT ![r].todo = @ \ {l}, ![r].found = @ \cup {Id(x)}]
            /\ UNCHANGED <<panelHas, accidents>>
       \/ /\ Finds(l, subRows \cup run[r].added, TRUE) = {}
          /\ \/ /\ l \notin panelHas
                /\ panelHas' = panelHas \cup {l}
                /\ run' = [(IF run[r].added = {} THEN Sees(run, r) ELSE run) EXCEPT
                             ![r].todo = @ \ {l},
                             ![r].added = @ \cup {Row(l, l, r, TRUE, FALSE, "dump")}]
                /\ UNCHANGED accidents
             \/ /\ \/ /\ l \in panelHas
                      /\ UNCHANGED <<panelHas, accidents>>
                   \/ /\ l \notin panelHas /\ accidents > 0
                      /\ panelHas' \in {panelHas, panelHas \cup {l}}
                      /\ accidents' = accidents - 1
                /\ run' = [run EXCEPT ![r].todo = @ \ {l}]
    /\ UNCHANGED tables

(* An invoice that is not there yet comes in as COMPLETED. *)
CarryPayment(r) ==
    /\ run[r].at = "subs" /\ run[r].todo = {}
    /\ run' = [run EXCEPT ![r].at = "paid",
                          ![r].pays = history = {} /\ source # "threexui"]
    /\ UNCHANGED tables /\ UNCHANGED <<panelHas, accidents>>

(* rebuild_plans links plan-less subRows of this source to the tariff; of the  *)
(* live ones a person may have one.                                         *)
LinkAll(have) == {Ids(Planless(have))}                          \* mutant
LinkOne(have) ==
    IF Planless(have) = {} \/ \E x \in have : x.linked THEN {{}}
    ELSE {{i} : i \in Ids(Planless(have))}

RebuildPlans(r) ==
    LET have == subRows \cup run[r].added
    IN  /\ run[r].at = "paid"
        /\ \E chosen \in LinkOne(have) :
             run' = [run EXCEPT ![r].at = "built", ![r].linked = chosen,
                                ![r].newTariff = ~tariff /\ Planless(have) # {}]
        /\ UNCHANGED tables /\ UNCHANGED <<panelHas, accidents>>

(* The subRows as they will be: what was found gets the term of the dump. *)
RowsAfter(r) ==
    {[x EXCEPT !.linked = @ \/ Id(x) \in run[r].linked,
               !.term = IF Id(x) \in run[r].found THEN "dump" ELSE @] :
        x \in subRows \cup run[r].added}

NewPerson(r) == run[r].person = "none" /\ (source # "threexui" \/ run[r].added # {})

NewInviter(r) == run[r].inviter = "none" /\ source # "threexui"

(* The unique indexes: users.telegram_id, referrals.referred_id, short_id   *)
(* (carried over when the dump has one), uq_external_gateway, plans.name    *)
(* and uq_active_sub.  remnawave_uuid has none.                             *)
Unclashed(r) ==
    /\ NewPerson(r) => person = "none"
    /\ \A x \in run[r].added, y \in subRows :
         x.of = y.of => ~(x.short /\ y.short)
    /\ NewInviter(r) => inviter = "none"
    /\ run[r].pays /\ named => history = {}
    /\ run[r].newTariff => ~tariff
    /\ Cardinality({x \in RowsAfter(r) : x.linked}) <= 1

(* current_subscription_id is set where the run saw none; 3x-ui does not   *)
(* look at what it found.                                                   *)
CurrentAfter(r) ==
    LET best == Ids(run[r].added) \cup IF source = "threexui" THEN {} ELSE run[r].found
    IN  IF run[r].current = NoRow /\ best # {} THEN best ELSE {pointer}

CommitImport(r) ==
    /\ run[r].at = "built" /\ Unclashed(r)
    /\ person' = IF NewPerson(r) THEN "imported" ELSE person
    /\ inviter' = IF NewInviter(r) THEN "legacy" ELSE inviter
    /\ oldPurse' = IF PurseAfter(r) # run[r].purse THEN PurseAfter(r) ELSE oldPurse
    /\ carried' = IF PurseAfter(r) # run[r].purse THEN carried + 1 ELSE carried
    /\ subRows' = RowsAfter(r)
    /\ pointer' \in CurrentAfter(r)
    /\ history' = history \cup (IF run[r].pays THEN {[by |-> r, stamped |-> Stamps,
                                                      filed |-> FALSE]} ELSE {})
    /\ tariff' = (tariff \/ run[r].newTariff)
    /\ run' = [Raced(run) EXCEPT ![r] = [IdleImport EXCEPT !.at = "done",
                                                           !.raced = run[r].raced]]
    /\ UNCHANGED <<source, named, earnedLive, panelHas, live, accidents>>

(* An IntegrityError: the request fails and nothing was written here. *)
RefuseImport(r) ==
    /\ run[r].at = "built" /\ ~Unclashed(r)
    /\ run' = [run EXCEPT ![r] = [IdleImport EXCEPT !.at = "refused",
                                                    !.raced = run[r].raced]]
    /\ UNCHANGED tables /\ UNCHANGED <<panelHas, accidents>>

ImportCrashes(r) ==
    /\ UnderWay(r) /\ accidents > 0
    /\ accidents' = accidents - 1
    /\ run' = [run EXCEPT ![r] = [IdleImport EXCEPT !.at = "crashed"]]
    /\ UNCHANGED tables /\ UNCHANGED panelHas

-----------------------------------------------------------------------------
(* The open shop. *)
SignUp ==
    /\ person = "none"
    /\ person' \in {"plain", "invited"}
    /\ inviter' = IF person' = "invited" THEN "live" ELSE "none"
    /\ run' = Raced(run)
    /\ UNCHANGED <<source, named, oldPurse, earnedLive, carried, subRows, pointer,
                   history, tariff, panelHas, live, accidents>>

TopUpOrSpend ==
    /\ person # "none" /\ live > 0
    /\ live' = live - 1
    /\ \E d \in {-1, 1} :
         /\ oldPurse + d >= 0
         /\ oldPurse' = oldPurse + d /\ earnedLive' = earnedLive + d
    /\ UNCHANGED <<source, named, person, inviter, carried, subRows, pointer,
                   history, tariff, panelHas, run, accidents>>

(* The tariff is bought here: a current row with a panel account is renewed *)
(* and adopts the tariff, else there is a new row, the current one from now *)
(* on.  uq_active_sub refuses both when another row has the tariff.         *)
BuyHere ==
    LET mine == {x \in subRows : Id(x) = pointer /\ (x.of = 0 \/ x.account # 0)}
        bought == IF mine # {} THEN {[x EXCEPT !.linked = TRUE, !.term = "paid"] : x \in mine}
                  ELSE {Row(0, 0, "own", FALSE, TRUE, "paid")}
    IN  /\ person # "none" /\ tariff /\ live > 0
        /\ ~\E x \in subRows \ mine : x.linked
        /\ live' = live - 1
        /\ subRows' = (subRows \ mine) \cup bought
        /\ pointer' \in Ids(bought)
        /\ run' = Raced(run)
        /\ UNCHANGED <<source, named, person, inviter, oldPurse, earnedLive, carried,
                       history, tariff, panelHas, accidents>>

(* The receipt job takes completed, unstamped subRows (see Receipts). *)
FileHistory ==
    /\ \E p \in history :
         /\ named /\ ~p.stamped /\ ~p.filed
         /\ history' = (history \ {p}) \cup {[p EXCEPT !.filed = TRUE]}
    /\ UNCHANGED <<source, named, person, inviter, oldPurse, earnedLive, carried,
                   subRows, pointer, tariff, panelHas, run, live, accidents>>

ImportersNext ==
    \/ \E r \in Imports :
         \/ BeginImport(r) \/ ReadPeople(r) \/ CarryPayment(r) \/ RebuildPlans(r)
         \/ CommitImport(r) \/ RefuseImport(r) \/ ImportCrashes(r)
         \/ \E l \in Legacy : CarrySub(r, l) \/ ProvisionClient(r, l)
    \/ SignUp \/ TopUpOrSpend \/ BuyHere \/ FileHistory

ImportersSpec == ImportersInit /\ [][ImportersNext]_importVars

-----------------------------------------------------------------------------
(* Where an import and another commit overlapped, an index decides or the  *)
(* later write stands; everything below is about the rest.                 *)
Overlapped == \E r \in Imports : run[r].at = "done" /\ run[r].raced

(* solobot keys without a uuid and jolymmiels customers are matched by what *)
(* the panel answers that moment.                                           *)
Keyless(l) == source = "jolymmiels" \/ (source = "solobot" /\ l \notin Tagged)

(* A run may be repeated, die half-way, and go on while the shop is open:   *)
(* it is refused only for having raced with another commit; the old wallet  *)
(* comes in at most once and no other money changes (solobot, which raises  *)
(* a wallet, excepted); a subscription with a key has one row, and on 3x-ui *)
(* an account; what the person bought here keeps its term (except from      *)
(* jolymmiels) and stays current; an inviter of his own stays; and an old   *)
(* invoice that came in stamped is never filed as income.                   *)
ImportsAreRepeatable ==
    /\ \A r \in Imports : run[r].at = "refused" => run[r].raced
    /\ source # "solobot" => /\ carried <= 1
                             /\ oldPurse = earnedLive + carried * LegacySum
    /\ \A x, y \in subRows :
         x.of = y.of /\ x # y => Overlapped \/ Keyless(x.of)
    /\ source = "threexui" => \A x \in subRows : x.of # 0 => x.of \in panelHas
    /\ \A x \in subRows : x.of = 0 =>
         /\ x.term = "paid" \/ source = "jolymmiels"
         /\ pointer = Id(x) \/ Overlapped
    /\ person = "invited" => inviter = "live"
    /\ \A p \in history : p.filed => source \in {"minishop", "solobot", "jolymmiels"}
=============================================================================
