------------------------------ MODULE Updater ------------------------------
(***************************************************************************)
(* Self-update: the check for a new revision every six hours (tasks.py),   *)
(* the buttons of the bot and of the admin cabinet, and the sidecar that   *)
(* carries the requests out (updater.sh, update.sh).  They talk through    *)
(* one marker file and a heartbeat in a shared volume, and tell a revision *)
(* once through a Redis key.                                               *)
(***************************************************************************)
EXTENDS Naturals

CONSTANTS
    LastRevision,  \* bound: revisions published
    MaxRequests,   \* bound: presses of the owner's buttons
    MaxBroken,     \* bound: updates that fail, sidecars and checks that die
    MaxFlips       \* bound: changes of AUTO_UPDATE_ENABLED

ASSUME UpdaterAssumption == {LastRevision, MaxRequests, MaxBroken, MaxFlips} \subseteq Nat

VARIABLES
    latest,     \* the head of the tracked branch
    running,    \* build_sha of the processes, or Unknown
    auto,       \* AUTO_UPDATE_ENABLED
    key,        \* update:notified:<revision>: none, short (6 h) or long (30 days)
    check,      \* check_for_updates, between its steps
    signal,     \* the request file
    sidecar,    \* the loop of updater.sh
    beat,       \* whether the heartbeat is fresh
    owed,       \* requests said to have started and not yet begun (see AskedIsBegun)
    requests, broken, flips   \* counters of the bounds

updaterVars == <<latest, running, auto, key, check, signal, sidecar, beat,
                 owed, requests, broken, flips>>

Revisions == 1 .. LastRevision
Unknown == 0
Asked == {"update", "restart"}
NoCheck == [at |-> "idle", auto |-> FALSE, seen |-> 0, new |-> FALSE]
Asleep == [at |-> "asleep", req |-> "none"]

UpdaterInit ==
    /\ latest = 1 /\ running \in {Unknown, 1}
    /\ auto \in BOOLEAN
    /\ key = [r \in Revisions |-> "none"]
    /\ check = NoCheck
    /\ signal = "none"
    /\ sidecar \in {Asleep, [Asleep EXCEPT !.at = "down"]}
    /\ beat = (sidecar.at = "asleep")
    /\ owed = {}
    /\ requests = 0 /\ broken = 0 /\ flips = 0

GoesWrong == broken < MaxBroken /\ broken' = broken + 1

-----------------------------------------------------------------------------
(* The application. *)

InHand == IF sidecar.at = "reading" THEN sidecar.req ELSE "none"

(* _write_marker: only to a sidecar that seems alive.  A request the file   *)
(* held is overwritten; one written while the sidecar is between reading    *)
(* the file and removing it is removed with what it read.                   *)
Push(what) ==
    /\ beat
    /\ signal' = what
    /\ owed' = IF sidecar.at = "reading" THEN owed \cap {InHand} ELSE {what}

(* The owner presses a button: request_update or request_restart.           *)
PressButton(what) ==
    /\ requests < MaxRequests
    /\ requests' = requests + 1
    /\ Push(what)
    /\ UNCHANGED <<latest, running, auto, key, check, sidecar, beat, broken, flips>>

(* check_for_updates reads the settings, then asks GitHub.                  *)
CheckStarts ==
    /\ check.at = "idle"
    /\ check' = [at |-> "asking", auto |-> auto, seen |-> 0, new |-> FALSE]
    /\ UNCHANGED <<latest, running, auto, key, signal, sidecar, beat, owed,
                   requests, broken, flips>>

(* _is_same_commit; an image without its revision is never the same.        *)
SameCommit(r, s) == r # Unknown /\ r = s

CheckAsks ==
    /\ check.at = "asking"
    /\ check' = IF SameCommit(running, latest) THEN NoCheck
                ELSE [check EXCEPT !.at = "deciding", !.seen = latest]
    /\ UNCHANGED <<latest, running, auto, key, signal, sidecar, beat, owed,
                   requests, broken, flips>>

(* The key is set if it is not there, for six hours when an install is      *)
(* going to start and for thirty days otherwise.                            *)
WillAuto == check.auto /\ beat

KeyForever == "long"

KeyFor == IF WillAuto THEN "short" ELSE "long"

CheckClaims ==
    /\ check.at = "deciding"
    /\ IF key[check.seen] # "none"
         THEN check' = NoCheck /\ UNCHANGED key
         ELSE /\ key' = [key EXCEPT ![check.seen] = KeyFor]
              /\ check' = [check EXCEPT !.at = "claimed", !.new = WillAuto]
    /\ UNCHANGED <<latest, running, auto, signal, sidecar, beat, owed,
                   requests, broken, flips>>

(* The install is requested, or the owners get a button.                    *)
CheckActs ==
    /\ check.at = "claimed"
    /\ check' = NoCheck
    /\ \/ check.new /\ Push("update")
       \/ /\ ~check.new \/ ~beat
          /\ UNCHANGED <<signal, owed>>
    /\ UNCHANGED <<latest, running, auto, key, sidecar, beat, requests, broken, flips>>

(* GitHub does not answer, or the worker dies.                              *)
CheckFails ==
    /\ check.at # "idle" /\ GoesWrong
    /\ check' = NoCheck
    /\ UNCHANGED <<latest, running, auto, key, signal, sidecar, beat, owed,
                   requests, flips>>

KeyExpires(r) ==
    /\ key[r] = "short"
    /\ key' = [key EXCEPT ![r] = "none"]
    /\ UNCHANGED <<latest, running, auto, check, signal, sidecar, beat, owed,
                   requests, broken, flips>>

FlipAuto ==
    /\ flips < MaxFlips
    /\ flips' = flips + 1
    /\ auto' = ~auto
    /\ UNCHANGED <<latest, running, key, check, signal, sidecar, beat, owed,
                   requests, broken>>

Release ==
    /\ latest < LastRevision
    /\ latest' = latest + 1
    /\ UNCHANGED <<running, auto, key, check, signal, sidecar, beat, owed,
                   requests, broken, flips>>

-----------------------------------------------------------------------------
(* The sidecar: touch the heartbeat, read the marker, remove it, run. *)

Sidecar(s) ==
    /\ sidecar' = s
    /\ UNCHANGED <<latest, auto, key, requests, flips>>

Wakes ==
    /\ sidecar.at = "asleep"
    /\ beat' = TRUE
    /\ Sidecar(IF signal = "none" THEN Asleep ELSE [at |-> "reading", req |-> signal])
    /\ UNCHANGED <<running, check, signal, owed, broken>>

(* The marker is removed before the command runs, so that one written       *)
(* while it runs is seen afterwards.                                        *)
Removes ==
    /\ sidecar.at = "reading"
    /\ signal' = "none"
    /\ owed' = owed \ {sidecar.req}
    /\ Sidecar([sidecar EXCEPT !.at = sidecar.req])
    /\ UNCHANGED <<running, check, beat, broken>>

(* A command that takes longer than a heartbeat is trusted, or a sidecar    *)
(* that is down.                                                            *)
BeatGoesStale ==
    /\ beat /\ sidecar.at \notin {"asleep", "reading"}
    /\ beat' = FALSE
    /\ UNCHANGED <<latest, running, auto, key, check, signal, sidecar, owed, requests,
                   broken, flips>>

UpdatesAndRemoves ==
    /\ sidecar.at = "update"
    /\ running' = latest /\ check' = NoCheck
    /\ signal' = "none"
    /\ Sidecar(Asleep)
    /\ UNCHANGED <<beat, owed, broken>>

(* update.sh pulls what is newest then, rebuilds and recreates the          *)
(* processes; a check under way ends with its worker.                       *)
UpdateSucceeds ==
    /\ sidecar.at = "update"
    /\ running' = latest /\ check' = NoCheck
    /\ Sidecar(Asleep)
    /\ UNCHANGED <<signal, beat, owed, broken>>

(* update.sh fails, and puts the old processes back on their feet.          *)
UpdateFails ==
    /\ sidecar.at = "update" /\ GoesWrong
    /\ Sidecar(Asleep)
    /\ UNCHANGED <<running, check, signal, beat, owed>>

Restarts ==
    /\ sidecar.at = "restart"
    /\ check' \in {check, NoCheck}
    /\ Sidecar(Asleep)
    /\ UNCHANGED <<running, signal, beat, owed, broken>>

(* What it had read dies with it when the file was overwritten since.       *)
SidecarDies ==
    /\ sidecar.at # "down" /\ GoesWrong
    /\ owed' = owed \cap {signal}
    /\ Sidecar([Asleep EXCEPT !.at = "down"])
    /\ UNCHANGED <<running, check, signal, beat>>

SidecarReturns ==
    /\ sidecar.at = "down"
    /\ Sidecar(Asleep)
    /\ UNCHANGED <<running, check, signal, beat, owed, broken>>

SidecarRuns == Wakes \/ Removes \/ UpdateSucceeds \/ Restarts
CheckStep == CheckStarts \/ CheckAsks \/ CheckClaims \/ CheckActs

UpdaterNext ==
    \/ \E what \in Asked : PressButton(what)
    \/ CheckStep \/ CheckFails
    \/ \E r \in Revisions : KeyExpires(r)
    \/ FlipAuto \/ Release
    \/ SidecarRuns \/ BeatGoesStale \/ UpdateFails \/ SidecarDies \/ SidecarReturns

-----------------------------------------------------------------------------
(* Of updater.py, updater.sh.  A request of which its owner was told that   *)
(* it started is begun later: until then it is in the file, or in the hand  *)
(* of the sidecar.  One made while a command runs is not lost with it; but  *)
(* see Push for those overwritten, or removed unread.                       *)
AskedIsBegun == owed \subseteq {signal, InHand}

(* Of check_for_updates ("so a FAILED install retries"): with automatic     *)
(* updates on and a sidecar that is there, the newest revision is installed *)
(* although installs fail, workers die after the revision was claimed and   *)
(* requests are overwritten.                                                *)
AutoInstalls == [](auto /\ beat) => <>[](running = latest)
=============================================================================
