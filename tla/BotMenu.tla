------------------------------ MODULE BotMenu -------------------------------
(***************************************************************************)
(* The owner's editors of the bot's menu and screens (admin/menu.py), what *)
(* they store in bot_config_values and menu_nodes, and what the bot makes  *)
(* of it (cabinet_menu.py, screen_buttons.py, menu_render.py).  Editor and *)
(* renderer read one blob with two parsers, and forms are opened on a      *)
(* cache of the settings that is 15 seconds old at most.                   *)
(*                                                                         *)
(* A button is its key, kind, whether it is on and whether its target is   *)
(* one the renderer accepts; labels, colours and rows are left out.        *)
(***************************************************************************)
EXTENDS Naturals, FiniteSets, Sequences, SequencesExt

CONSTANTS
    BuiltIns,         \* the catalogue CABINET_BUTTONS, in order; "app", "back" in it
    Customs,          \* keys of buttons the owner adds
    SysButtons,       \* buttons a screen may carry, in order
    Nodes, Root,      \* client-side ids of a menu tree
    Editors,          \* admins at work
    MaxSaves, MaxTweaks

ASSUME MenuAssumption ==
    /\ BuiltIns \in Seq(STRING) /\ {"app", "back"} \subseteq ToSet(BuiltIns)
    /\ \A m, n \in DOMAIN BuiltIns : BuiltIns[m] = BuiltIns[n] => m = n
    /\ SysButtons \in Seq(STRING) /\ SysButtons # <<>>
    /\ Customs \subseteq STRING
    /\ IsFiniteSet(Nodes) /\ Root \notin Nodes
    /\ MaxSaves \in Nat

VARIABLES
    stored,           \* bot_config: CABINET_BUTTONS and one screen's SCREEN_BUTTONS
    tree,             \* menu_nodes: <<save, node, parent>>
    cache,            \* the settings the web process serves, or Nothing
    desk,             \* each editor: what it has open, or Nothing
    meant,            \* the cabinet as the editor showed it when it was saved
    saves, tweaks

menuVars == <<stored, tree, cache, desk, meant, saves, tweaks>>

Nothing == [at |-> "nothing"]
Item(k, kind, on, ok) == [key |-> k, kind |-> kind, on |-> on, ok |-> ok]
BuiltIn(k, on) == Item(k, "builtin", on, TRUE)
Keys(items) == {items[n].key : n \in DOMAIN items}
KindsOf(form) == {"action", "link"} \cup (IF form = "cabinet" THEN {"miniapp", "screen"} ELSE {})
Catalogue(keys, on) == [n \in DOMAIN keys |-> BuiltIn(keys[n], on)]

(* What of s is in some, in the order of s; the first item of each key.    *)
Among(s, some) ==
    LET kept[n \in 0 .. Len(s)] ==
            IF n = 0 THEN <<>>
            ELSE IF s[n] \in some THEN Append(kept[n - 1], s[n]) ELSE kept[n - 1]
    IN  kept[Len(s)]

Added(items, it) == IF it.key \in Keys(items) THEN items ELSE Append(items, it)
FirstOfEach(items) ==
    LET first[n \in 0 .. Len(items)] ==
            IF n = 0 THEN <<>> ELSE Added(first[n - 1], items[n])
    IN  first[Len(items)]

BotMenuInit ==
    /\ \E known \in {<<>>, <<BuiltIn(Head(BuiltIns), TRUE)>>} :    \* the older CSV form
         stored = [cabinet |-> known, screen |-> <<>>]
    /\ tree = {}
    /\ cache = Nothing
    /\ desk = [e \in Editors |-> Nothing]
    /\ meant = Nothing
    /\ saves = 0 /\ tweaks = MaxTweaks

-----------------------------------------------------------------------------
(* parse_config: the first valid item of a key counts; two buttons that    *)
(* older settings never heard of are slipped in; nothing means the whole   *)
(* catalogue.                                                              *)
KeptItems(items) == FirstOfEach(Among(items, {it \in ToSet(items) : it.ok}))

BackLast(items) == IF "back" \in Keys(items) THEN items ELSE Append(items, BuiltIn("back", TRUE))

AppBeforeBack(items) ==
    IF "app" \in Keys(items) THEN items
    ELSE LET back == {n \in DOMAIN items : items[n].key = "back"}
             at == IF back = {} THEN Len(items) + 1 ELSE CHOOSE n \in back : TRUE
         IN  InsertAt(items, at, BuiltIn("app", TRUE))

Parse(items) ==
    IF KeptItems(items) = <<>> THEN Catalogue(BuiltIns, TRUE)
    ELSE BackLast(AppBeforeBack(KeptItems(items)))

(* cabinet_rows: what the bot shows of it. *)
Shown(items, off) == Among(items, {it \in ToSet(items) : it.on /\ it.key \notin off})
CabinetScreen(items, off) == Shown(Parse(items), off)

(* get_cabinet_buttons: the editor adds what is missing, switched off. *)
Missing(all, items) == Among(all, {it \in ToSet(all) : it.key \notin Keys(items)})
MissingOff(items) == Missing(Catalogue(BuiltIns, FALSE), items)
EditorView(items) == Parse(items) \o MissingOff(Parse(items))

(* save_cabinet_buttons: a custom button needs an action the bot knows or  *)
(* a link; the web app's address is not stored with it, and cabinet_menu   *)
(* then drops a button without one.                                        *)
Acceptable(items) == \A n \in DOMAIN items : items[n].ok
OnlyEnabled(items) == Among(items, {it \in ToSet(items) : it.on})    \* mutant
AsStored(items) ==
    [n \in DOMAIN items |->
        IF items[n].kind = "miniapp" THEN [items[n] EXCEPT !.ok = FALSE] ELSE items[n]]

-----------------------------------------------------------------------------
(* apply_screen_buttons on a render that carries the buttons live. *)
Placed(items, live) ==
    Among(items, {it \in ToSet(items) :
                    it.on /\ it.ok /\ (it.kind # "builtin" \/ it.key \in ToSet(live))})
Referenced(items) == {items[n].key : n \in {m \in DOMAIN items : items[m].kind = "builtin"}}
Unmentioned(items, live) == Among(live, ToSet(live) \ Referenced(items))

ScreenKeys(items, live) ==
    IF items = <<>> THEN live
    ELSE LET placed == Placed(items, live)
             keys == [n \in DOMAIN placed |-> placed[n].key] \o Unmentioned(items, live)
         IN  IF keys = <<>> THEN live ELSE keys

(* get_screens: the editor adds what is missing, switched on; and          *)
(* save_screen_buttons, which drops system buttons it does not know.       *)
ScreenView(items) ==
    FirstOfEach(items) \o Missing(Catalogue(SysButtons, TRUE), items)
KnownOnly(items) ==
    Among(items, {it \in ToSet(items) : it.kind # "builtin" \/ it.key \in ToSet(SysButtons)})

-----------------------------------------------------------------------------
(* BotConfigService._effective: a miss reads the committed rows.  A cache  *)
(* ages out after 15 seconds.                                              *)
ReadRows ==
    /\ cache = Nothing
    /\ cache' = stored
    /\ UNCHANGED <<stored, tree, desk, meant, saves, tweaks>>

CacheExpires ==
    /\ cache # Nothing
    /\ cache' = Nothing
    /\ UNCHANGED <<stored, tree, desk, meant, saves, tweaks>>

-----------------------------------------------------------------------------
(* An editor opens a form on what its process serves, changes it, and      *)
(* saves the whole of it. *)
OpenForm(e) ==
    /\ desk[e] = Nothing /\ cache # Nothing
    /\ \E form \in {"cabinet", "screen"} :
         desk' = [desk EXCEPT ![e] = [at |-> form, items |->
                    IF form = "cabinet" THEN EditorView(cache.cabinet)
                    ELSE ScreenView(cache.screen)]]
    /\ UNCHANGED <<stored, tree, cache, meant, saves, tweaks>>

Flipped(items, n) == [items EXCEPT ![n].on = ~@]
NewItems(form, items) ==
    [key : Customs \ Keys(items), kind : KindsOf(form), on : {TRUE}, ok : BOOLEAN]
Changes(form, items) ==
    {Flipped(items, n) : n \in DOMAIN items}
    \cup {Append(Tail(items), Head(items))}
    \cup {Append(items, it) : it \in NewItems(form, items)}

ChangeForm(e) ==
    /\ desk[e].at \in {"cabinet", "screen"} /\ tweaks > 0
    /\ tweaks' = tweaks - 1
    /\ \E items \in Changes(desk[e].at, desk[e].items) : desk' = [desk EXCEPT ![e].items = items]
    /\ UNCHANGED <<stored, tree, cache, meant, saves>>

(* set_values: the rows are written and the cache is dropped before the    *)
(* commit; a second writer of the row waits for the first.                 *)
Writing(form) == IF form = "cabinet" THEN "writing cabinet" ELSE "writing screen"
NobodyWrites(row) == \A e \in Editors : desk[e] # Nothing => desk[e].at # row

WriteRows(e) ==
    LET form == desk[e].at IN
    /\ form \in {"cabinet", "screen"} /\ saves < MaxSaves
    /\ Acceptable(desk[e].items)
    /\ NobodyWrites(Writing(form))
    /\ saves' = saves + 1
    /\ desk' = [desk EXCEPT ![e].at = Writing(form)]
    /\ cache' = Nothing
    /\ UNCHANGED <<stored, tree, meant, tweaks>>

(* Unprocessable, or a closed form. *)
Discard(e) ==
    /\ desk[e].at \in {"cabinet", "screen"}
    /\ desk' = [desk EXCEPT ![e] = Nothing]
    /\ UNCHANGED <<stored, tree, cache, meant, saves, tweaks>>

CommitForm(e) ==
    /\ \/ /\ desk[e].at = "writing cabinet"
          /\ stored' = [stored EXCEPT !.cabinet = AsStored(desk[e].items)]
          /\ meant' = [at |-> "meant", items |-> desk[e].items]
       \/ /\ desk[e].at = "writing screen"
          /\ stored' = [stored EXCEPT !.screen = KnownOnly(desk[e].items)]
          /\ UNCHANGED meant
    /\ desk' = [desk EXCEPT ![e] = Nothing]
    /\ UNCHANGED <<tree, cache, saves, tweaks>>

(* import_menu: a snapshot of whatever is in its file, duplicates and half *)
(* a button included; reset: the override goes.                            *)
ImportSettings ==
    /\ saves < MaxSaves /\ saves' = saves + 1
    /\ NobodyWrites("writing cabinet") /\ NobodyWrites("writing screen")
    /\ \E k \in Customs, ok \in BOOLEAN :
         LET twice == <<Item(k, "link", TRUE, ok), Item(k, "action", TRUE, TRUE)>>
         IN  \/ stored' = [stored EXCEPT !.cabinet = twice]
             \/ stored' = [stored EXCEPT !.screen = <<BuiltIn(Head(SysButtons), FALSE)>> \o twice]
             \/ stored' = [cabinet |-> <<>>, screen |-> <<>>]
    /\ cache' = Nothing
    /\ meant' = Nothing
    /\ UNCHANGED <<tree, desk, tweaks>>

-----------------------------------------------------------------------------
(* _write_menu_tree: nodes go in parents first, round after round; one     *)
(* that finds no parent refuses the save.                                  *)
Grown(t, placed) == {n \in Nodes : t[n] \in placed \cup {Root}}
Inserted(t) ==
    LET round[k \in 0 .. Cardinality(Nodes)] ==
            IF k = 0 THEN {} ELSE Grown(t, round[k - 1])
    IN  round[Cardinality(Nodes)]
InsertSome(t) == Inserted(t) # {}                               \* mutant
Insertable(t) == Inserted(t) = Nodes

DeleteTree(e) ==
    /\ desk[e] = Nothing /\ saves < MaxSaves
    /\ tree # {} => NobodyWrites("writing tree")
    /\ saves' = saves + 1
    /\ desk' = [desk EXCEPT ![e] = [at |-> "writing tree", save |-> saves', gone |-> tree]]
    /\ UNCHANGED <<stored, tree, cache, meant, tweaks>>

(* The rows the DELETE saw go; save_menu, import_menu, bootstrap_menu and  *)
(* reset_default insert theirs.                                            *)
CommitTree(e) ==
    /\ desk[e].at = "writing tree"
    /\ \E t \in [Nodes -> Nodes \cup {Root}] :
         IF Insertable(t)
         THEN tree' = (tree \ desk[e].gone) \cup {<<desk[e].save, n, t[n]>> : n \in Inserted(t)}
         ELSE UNCHANGED tree
    /\ desk' = [desk EXCEPT ![e] = Nothing]
    /\ UNCHANGED <<stored, cache, meant, saves, tweaks>>

BotMenuNext ==
    \/ ReadRows \/ CacheExpires
    \/ \E e \in Editors :
         \/ OpenForm(e) \/ ChangeForm(e) \/ WriteRows(e) \/ Discard(e) \/ CommitForm(e)
         \/ DeleteTree(e) \/ CommitTree(e)
    \/ ImportSettings

BotMenuSpec == BotMenuInit /\ [][BotMenuNext]_menuVars

-----------------------------------------------------------------------------
(* The cabinet the bot shows is the one the editor showed when it was      *)
(* saved, whatever form the settings had before, whichever features are    *)
(* off, and whoever saved in between; but for buttons that open the web    *)
(* app, which cabinet_menu.py drops.                                       *)
WhatIsSavedIsShown ==
    meant # Nothing => \A off \in SUBSET {"app", Head(BuiltIns)} :
        CabinetScreen(stored.cabinet, off)
            = Among(Shown(meant.items, off), {it \in ToSet(meant.items) : it.kind # "miniapp"})

SwitchedOff(k) == \E n \in DOMAIN stored.screen :
    stored.screen[n].key = k /\ stored.screen[n].kind = "builtin" /\ ~stored.screen[n].on

(* No override makes a screen lose a button its owner did not switch off   *)
(* (screen_buttons.py: "Never drops a button the config didn't mention"),  *)
(* or leaves it without buttons.                                           *)
NothingVanishes ==
    \A have \in SUBSET ToSet(SysButtons) :
        LET live == Among(SysButtons, have)
            keys == ScreenKeys(stored.screen, live)
        IN  /\ \A k \in have : ~SwitchedOff(k) => Contains(keys, k)
            /\ have # {} => keys # <<>>

(* Each menu in the database is the whole of what somebody saved: every    *)
(* node, and every node under the root.                                    *)
MenuIsWhole ==
    \A s \in {r[1] : r \in tree} :
        LET rows == {r \in tree : r[1] = s}
        IN  /\ {r[2] : r \in rows} = Nodes
            /\ \A part \in SUBSET Nodes : part # {} =>
                 \E r \in rows : r[2] \in part /\ r[3] \notin part
=============================================================================
