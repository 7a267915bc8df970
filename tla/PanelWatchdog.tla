--------------------------- MODULE PanelWatchdog ----------------------------
(***************************************************************************)
(* Automatic maintenance: every two minutes panel_watchdog (tasks.py)      *)
(* pings the VPN panel.  The third failure in a row switches the bot into  *)
(* maintenance and leaves a marker in Redis; the first answer with the     *)
(* marker there takes both back.  The flag is also an admin's, who         *)
(* switches it by hand (maintenance.py) between any two of these writes,   *)
(* in another process: the worker reads it through a cache of 15 s         *)
(* (BotConfig), which the task's first read has filled (tasks.py:916).     *)
(***************************************************************************)
EXTENDS Naturals

CONSTANTS
    MaxToggles,       \* bound: switches by an admin
    MaxDeaths         \* bound: crashes of the task and expiries of the marker

VARIABLES
    panelUp,
    fails,            \* panelwd:fails, up to the fourth
    marker,           \* panelwd:auto
    maintenance,      \* MAINTENANCE_MODE
    cached,           \* what the worker's cache says of it: "none", "on", "off"
    watch,            \* how far the task is
    byHand,           \* an admin switched it on, and no marker was there
    overlooked,       \* history: that switch fell where the watchdog does not look
    orphaned,         \* the marker was lost under the watchdog's own flag
    toggles, deaths

hand == <<byHand, overlooked, toggles>>
watchVars == <<panelUp, fails, marker, maintenance, cached, watch, hand, orphaned, deaths>>

WatchInit ==
    /\ panelUp = TRUE
    /\ fails = 0 /\ marker = FALSE
    /\ maintenance = FALSE /\ cached = "none"
    /\ byHand = FALSE /\ overlooked = FALSE
    /\ watch = "idle" /\ orphaned = FALSE
    /\ toggles = MaxToggles /\ deaths = MaxDeaths

PanelFlips ==
    /\ panelUp' = ~panelUp
    /\ UNCHANGED <<fails, marker, maintenance, cached, watch, hand, orphaned, deaths>>

(* Between the watchdog's two writes the flag is in its hands, whoever     *)
(* else sets it.                                                           *)
BetweenWrites == watch \in {"lifting", "mark"}

AdminSets(on) ==
    /\ toggles > 0 /\ toggles' = toggles - 1
    /\ maintenance' = on
    /\ byHand' = (on /\ (byHand \/ ~marker))
    /\ overlooked' = (on /\ (overlooked \/ BetweenWrites))
    /\ UNCHANGED <<panelUp, fails, marker, cached, watch, orphaned, deaths>>

InDatabase == IF maintenance THEN "on" ELSE "off"
Filled == IF cached = "none" THEN InDatabase ELSE cached

(* Other tasks of the worker read the parameters; 15 s pass. *)
CacheFills ==
    /\ cached = "none" /\ cached' = Filled
    /\ UNCHANGED <<panelUp, fails, marker, maintenance, watch, hand, orphaned, deaths>>

CacheAges ==
    /\ cached # "none" /\ cached' = "none"
    /\ UNCHANGED <<panelUp, fails, marker, maintenance, watch, hand, orphaned, deaths>>

(* set_values drops the cache; before the commit another task may fill it  *)
(* again.                                                                  *)
CacheDropped == cached' \in {"none", InDatabase}

PingAnswered ==
    /\ watch = "idle" /\ panelUp
    /\ cached' = Filled
    /\ fails' = 0
    /\ watch' = "answered"
    /\ UNCHANGED <<panelUp, marker, maintenance, hand, orphaned, deaths>>

AnyFlag == TRUE                                                 \* mutant
OwnFlag == marker

(* The marker goes first, then the flag. *)
Recognise ==
    /\ watch = "answered"
    /\ watch' = IF OwnFlag THEN "lifting" ELSE "idle"
    /\ marker' = (marker /\ ~OwnFlag)
    /\ UNCHANGED <<panelUp, fails, maintenance, cached, hand, orphaned, deaths>>

Lift ==
    /\ watch = "lifting"
    /\ maintenance' = FALSE /\ CacheDropped
    /\ watch' = "idle"
    /\ UNCHANGED <<panelUp, fails, marker, hand, orphaned, deaths>>

(* The third failure alerts, later ones do not. *)
PingFails ==
    /\ watch = "idle" /\ ~panelUp
    /\ cached' = Filled
    /\ fails' = IF fails = 4 THEN 4 ELSE fails + 1
    /\ watch' = IF fails + 1 = 3 THEN "third" ELSE "idle"
    /\ UNCHANGED <<panelUp, marker, maintenance, hand, orphaned, deaths>>

AlreadyOn == Filled = "on"

(* An admin's switch that the cache does not show yet is taken for none:   *)
(* the marker will stand over it.                                          *)
Raise ==
    /\ watch = "third"
    /\ IF AlreadyOn
       THEN cached' = Filled /\ watch' = "idle" /\ UNCHANGED maintenance
       ELSE CacheDropped /\ watch' = "mark" /\ maintenance' = TRUE
    /\ overlooked' = (overlooked \/ (byHand /\ cached = "off"))
    /\ UNCHANGED <<panelUp, fails, marker, byHand, toggles, orphaned, deaths>>

Mark ==
    /\ watch = "mark"
    /\ marker' = TRUE
    /\ watch' = "idle"
    /\ UNCHANGED <<panelUp, fails, maintenance, cached, hand, orphaned, deaths>>

(* fails lives half an hour, the marker a day. *)
CounterExpires ==
    /\ fails > 0 /\ watch = "idle"
    /\ deaths > 0 /\ deaths' = deaths - 1
    /\ fails' = 0
    /\ UNCHANGED <<panelUp, marker, maintenance, cached, watch, hand, orphaned>>

MarkerExpires ==
    /\ marker /\ deaths > 0 /\ deaths' = deaths - 1
    /\ marker' = FALSE /\ orphaned' = TRUE
    /\ UNCHANGED <<panelUp, fails, maintenance, cached, watch, hand>>

WatchDies ==
    /\ watch \in {"lifting", "mark", "third", "answered"}
    /\ deaths > 0 /\ deaths' = deaths - 1
    /\ orphaned' = (orphaned \/ BetweenWrites)
    /\ watch' = "idle"
    /\ UNCHANGED <<panelUp, fails, marker, maintenance, cached, hand>>

WatchStep ==
    PingAnswered \/ PingFails \/ Recognise \/ Lift \/ Raise \/ Mark

WatchNext ==
    \/ PanelFlips \/ WatchStep \/ CacheFills \/ CacheAges
    \/ \E on \in BOOLEAN : AdminSets(on)
    \/ CounterExpires \/ MarkerExpires \/ WatchDies

WatchFairness == WF_watchVars(WatchStep)

WatchSpec == WatchInit /\ [][WatchNext]_watchVars /\ WatchFairness

-----------------------------------------------------------------------------
(* Maintenance an admin switched on, with no marker of the watchdog's      *)
(* there, is never switched off by it (tasks.py:911-912).  Exceptions: a   *)
(* switch that the worker's cache did not show when the third ping failed, *)
(* and one between the watchdog's two writes.                              *)
HandKept == byHand => maintenance \/ overlooked

(* Maintenance the watchdog switched on does not outlast the outage, while *)
(* nobody loses the marker.                                                *)
OutageEnds ==
    maintenance ~> (~maintenance \/ ~panelUp \/ byHand \/ orphaned \/ toggles < MaxToggles)
=============================================================================
