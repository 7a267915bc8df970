----------------------------- MODULE BotConfig -----------------------------
(***************************************************************************)
(* The hot-reload parameters (bot_config.py): a registry of defaults, the  *)
(* overrides in the database, and in each process a cache of the merged   *)
(* values, dropped by the process's own writes and by its age.  Secrets    *)
(* are encrypted at rest and shown as a mask.                              *)
(*                                                                         *)
(* The registry is one switch and one secret; time is counted in ticks.    *)
(***************************************************************************)
EXTENDS Naturals

CONSTANTS
    Processes,    \* web, bot, worker: each with its cache
    Handlers,     \* requests of administrators under way
    Words,        \* what a secret may be
    Mask,
    Ttl,          \* CACHE_TTL in ticks
    MaxChanges,   \* bound: edits begun
    MaxMoments,   \* bound: on time
    MaxMisfortunes  \* bound: rollbacks, restarts, changes of APP__CRYPT_KEY

Empty == ""         \* a secret that is not set

ASSUME BotConfigAssumption ==
    /\ Mask \notin Words /\ Empty \notin Words \cup {Mask}
    /\ {Ttl, MaxChanges, MaxMoments, MaxMisfortunes} \subseteq Nat

VARIABLES
    override,   \* bot_config_values: a switch, an encrypted word, or Unset
    boxKey,     \* which APP__CRYPT_KEY the processes run with
    memo,       \* each process's _cache and its age
    edit,       \* what each handler is doing
    wanted,     \* what the administrators last saved
    ago,        \* ticks since each value was last the one wanted
    changes, moments, misfortunes   \* counters of the bounds

configVars == <<override, boxKey, memo, edit, wanted, ago, changes, moments, misfortunes>>

Unset == [box |-> 0, word |-> Empty]
Defaults == [switch |-> "off", secret |-> Empty]
Params == DOMAIN Defaults
ValuesOf == [switch |-> {"on", "off"}, secret |-> Words \cup {Empty, Mask}]
NoCache == [there |-> FALSE, age |-> 0, values |-> Defaults]
NoEdit == [at |-> "idle", by |-> CHOOSE p \in Processes : TRUE, key |-> "switch", raw |-> "off"]

BotConfigInit ==
    /\ override = [switch |-> "reset", secret |-> Unset]
    /\ boxKey = 1
    /\ memo = [p \in Processes |-> NoCache]
    /\ edit = [h \in Handlers |-> NoEdit]
    /\ wanted = Defaults
    /\ ago = [k \in Params |-> [v \in ValuesOf[k] |-> IF v = Defaults[k] THEN 0 ELSE Ttl + 1]]
    /\ changes = 0 /\ moments = 0 /\ misfortunes = 0

Misfortune == misfortunes < MaxMisfortunes /\ misfortunes' = misfortunes + 1

-----------------------------------------------------------------------------
(* The overrides over the defaults; a secret that the key does not open     *)
(* (rotated) counts as unset.                                               *)
Merged ==
    [switch |-> IF override.switch = "reset" THEN Defaults.switch ELSE override.switch,
     secret |-> IF override.secret.box = boxKey THEN override.secret.word ELSE Defaults.secret]

FreshForever(p) == memo[p].there
Fresh(p) == memo[p].there /\ memo[p].age <= Ttl

Effective(p) == IF Fresh(p) THEN memo[p].values ELSE Merged

Filled(p) == [there |-> TRUE, age |-> IF Fresh(p) THEN memo[p].age ELSE 0, values |-> Effective(p)]

(* Any handler of the process reads a parameter.                            *)
Read(p) ==
    /\ ~Fresh(p)
    /\ memo' = [memo EXCEPT ![p] = Filled(p)]
    /\ UNCHANGED <<override, boxKey, edit, wanted, ago, changes, moments, misfortunes>>

(* An administrator saves a value, or the mask as it was shown, or resets   *)
(* the parameter to its default.                                            *)
SaveValue(h, p, k, raw) ==
    /\ edit[h].at = "idle" /\ changes < MaxChanges
    /\ changes' = changes + 1
    /\ edit' = [edit EXCEPT ![h] = [at |-> "saving", by |-> p, key |-> k, raw |-> raw]]
    /\ UNCHANGED <<override, boxKey, memo, wanted, ago, moments, misfortunes>>

Turned(v) == IF v = "on" THEN "off" ELSE "on"

(* A button of the bot turns the switch round as its process knows it.      *)
Toggle(h, p) ==
    /\ edit[h].at = "idle" /\ changes < MaxChanges
    /\ changes' = changes + 1
    /\ memo' = [memo EXCEPT ![p] = Filled(p)]
    /\ edit' = [edit EXCEPT ![h] = [at |-> "saving", by |-> p, key |-> "switch",
                                    raw |-> Turned(Effective(p).switch)]]
    /\ UNCHANGED <<override, boxKey, wanted, ago, moments, misfortunes>>

Abandoned(h) == edit' = [edit EXCEPT ![h] = NoEdit]

(* set_values looks for the row.  A mask that comes back changes nothing,   *)
(* nor does the value the row has; a secret is encrypted anew each time.    *)
PresentRow(k) == IF k = "switch" THEN override.switch # "reset" ELSE override.secret # Unset

NeverUnchanged(h) == FALSE

Unchanged(h) == edit[h].raw = Mask

FindRow(h) ==
    /\ edit[h].at = "saving"
    /\ IF Unchanged(h) \/ (edit[h].key = "switch" /\ edit[h].raw = override.switch)
         THEN Abandoned(h) /\ memo' = [memo EXCEPT ![edit[h].by] = NoCache]
         ELSE /\ edit' = [edit EXCEPT ![h].at = IF PresentRow(edit[h].key) THEN "updating"
                                                ELSE "inserting"]
              /\ UNCHANGED memo
    /\ UNCHANGED <<override, boxKey, wanted, ago, changes, moments, misfortunes>>

(* The row is written, where another's write of it waits, and fails when    *)
(* the row came or went meanwhile; a reset deletes what there is.  The      *)
(* process's cache is dropped before the commit.                            *)
WriteRow(h) ==
    LET k == edit[h].key
    IN  /\ edit[h].at \in {"updating", "inserting"}
        /\ \A g \in Handlers : edit[g].at # "written" \/ edit[g].key # k
        /\ IF edit[h].raw = "reset" \/ PresentRow(k) = (edit[h].at = "updating")
             THEN /\ edit' = [edit EXCEPT ![h].at = "written"]
                  /\ memo' = [memo EXCEPT ![edit[h].by] = NoCache]
             ELSE Abandoned(h) /\ UNCHANGED memo
        /\ UNCHANGED <<override, boxKey, wanted, ago, changes, moments, misfortunes>>

(* A secret is encrypted unless it is empty; a reset deletes the row.       *)
RowFor(k, v) ==
    CASE k = "switch" -> v
      [] k = "secret" /\ v \in {Empty, "reset"} -> Unset
      [] OTHER -> [box |-> boxKey, word |-> v]

Means(k, v) == IF v = "reset" THEN Defaults[k] ELSE v

CommitEdit(h) ==
    /\ edit[h].at = "written"
    /\ LET k == edit[h].key
       IN  /\ override' = [override EXCEPT ![k] = RowFor(k, edit[h].raw)]
           /\ IF edit[h].raw = Mask THEN UNCHANGED <<wanted, ago>>
              ELSE /\ wanted' = [wanted EXCEPT ![k] = Means(k, edit[h].raw)]
                   /\ ago' = [ago EXCEPT ![k][Means(k, edit[h].raw)] = 0]
    /\ Abandoned(h)
    /\ UNCHANGED <<boxKey, memo, changes, moments, misfortunes>>

EditFails(h) ==
    /\ edit[h].at # "idle" /\ Misfortune
    /\ Abandoned(h)
    /\ UNCHANGED <<override, boxKey, memo, wanted, ago, changes, moments>>

(* A process restarts, or all of them with another APP__CRYPT_KEY.          *)
Restarted(ps) ==
    /\ memo' = [p \in Processes |-> IF p \in ps THEN NoCache ELSE memo[p]]
    /\ edit' = [h \in Handlers |-> IF edit[h].by \in ps THEN NoEdit ELSE edit[h]]

ProcessRestarts(p) ==
    /\ Misfortune
    /\ Restarted({p})
    /\ UNCHANGED <<override, boxKey, wanted, ago, changes, moments>>

KeyIsRotated ==
    /\ boxKey = 1 /\ Misfortune
    /\ boxKey' = 2
    /\ Restarted(Processes)
    /\ wanted' = [wanted EXCEPT !.secret = Empty]
    /\ ago' = [ago EXCEPT !.secret[Empty] = 0]
    /\ UNCHANGED <<override, changes, moments>>

Tick ==
    /\ moments < MaxMoments
    /\ moments' = moments + 1
    /\ memo' = [p \in Processes |-> IF Fresh(p) THEN [memo[p] EXCEPT !.age = @ + 1] ELSE memo[p]]
    /\ ago' = [k \in Params |-> [v \in ValuesOf[k] |->
                  IF v = wanted[k] THEN 0 ELSE IF ago[k][v] > Ttl THEN Ttl + 1 ELSE ago[k][v] + 1]]
    /\ UNCHANGED <<override, boxKey, edit, wanted, changes, misfortunes>>

BotConfigNext ==
    \/ \E p \in Processes : Read(p) \/ ProcessRestarts(p)
    \/ \E h \in Handlers, p \in Processes, k \in Params :
          \E raw \in (ValuesOf[k] \ {Empty}) \cup {"reset"} : SaveValue(h, p, k, raw)
    \/ \E h \in Handlers, p \in Processes : Toggle(h, p)
    \/ \E h \in Handlers : FindRow(h) \/ WriteRow(h) \/ CommitEdit(h) \/ EditFails(h)
    \/ KeyIsRotated \/ Tick

-----------------------------------------------------------------------------
(* Of bot_config.py ("15s keeps hot-reload honest", "masked round-trip").   *)
(* What a handler reads is what an administrator meant at most CACHE_TTL    *)
(* ago: a write of another process is seen by then, one that is rolled back *)
(* never, and a secret is neither the mask nor anything but the word saved, *)
(* or nothing when the key no longer opens it.                              *)
ConfigIsRecent ==
    \A p \in Processes, k \in Params : ago[k][Effective(p)[k]] <= Ttl
=============================================================================
