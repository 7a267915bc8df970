------------------------------ MODULE Backups ------------------------------
(***************************************************************************)
(* Backups and daily reports.  The scheduler starts scheduled_backup and   *)
(* send_periodic_reports every five minutes; in the window of the day they *)
(* claim a Redis key, and a job dumps the database, packs the dump into an *)
(* encrypted archive, prunes the older ones and sends it to the owners     *)
(* (tasks.py, backup.py, reports.py).  A button queues the same job.       *)
(*                                                                         *)
(* One worker process runs all jobs (compose.prod.yml, --workers 1): what  *)
(* a job does between two awaits, packing and pruning, is one step.  Files *)
(* are named after the second in which a job began.                        *)
(***************************************************************************)
EXTENDS Integers, FiniteSets

CONSTANTS
    BackupRuns,      \* jobs
    Keep,            \* BACKUP_KEEP_LAST
    MaxSeconds, MaxDays, MaxButtons, MaxBreakdowns   \* bounds

ASSUME BackupsAssumption ==
    /\ {Keep, MaxSeconds} \subseteq Nat \ {0}
    /\ {MaxDays, MaxButtons, MaxBreakdowns} \subseteq Nat

VARIABLES
    second, day, window,  \* the clock, and whether it is time for the day's jobs
    dayKeys,              \* Redis keys backup:<day> and report:daily:<day>
    timer,                \* scheduled jobs that have claimed a key
    waiting,              \* run_backup in the queue
    backup,               \* each job
    dump,                 \* db_<second>.sql
    archive,              \* backup_<second>.zip
    packed,               \* <<s, t>>: the archive of s was written after that of t
    copies,               \* archives that reached the owners
    dailies,              \* what was started for each day
    pushes, breakdowns, collisions   \* counters

backupVars == <<second, day, window, dayKeys, timer, waiting, backup, dump, archive,
                packed, copies, dailies, pushes, breakdowns, collisions>>

Kinds == {"backup", "report"}
Channels == {"group", "admins"}
AtDump == {"dumping", "dumped"}
NoBackup == [at |-> "idle", stamp |-> 0, unreached |-> {}]

BackupsInit ==
    /\ second = 1 /\ day = 0 /\ window = FALSE
    /\ dayKeys = {} /\ timer = {} /\ waiting = 0
    /\ backup = [r \in BackupRuns |-> NoBackup]
    /\ dump = [s \in 1 .. MaxSeconds |-> "none"]
    /\ archive = [s \in 1 .. MaxSeconds |-> "none"]
    /\ packed = {} /\ copies = {}
    /\ dailies = [k \in Kinds |-> [d \in 1 .. MaxDays |-> 0]]
    /\ pushes = 0 /\ breakdowns = 0 /\ collisions = 0

Breaks(n) == breakdowns + n <= MaxBreakdowns /\ breakdowns' = breakdowns + n
Now(r, stage) == backup' = [backup EXCEPT ![r].at = stage]

-----------------------------------------------------------------------------
(* The clock. *)

NextSecond ==
    /\ second < MaxSeconds /\ second' = second + 1
    /\ UNCHANGED <<day, window, dayKeys, timer, waiting, backup, dump, archive,
                   packed, copies, dailies, pushes, breakdowns, collisions>>

(* _time_matches: five minutes of each day, never past midnight.            *)
WindowTurns ==
    /\ window \/ day < MaxDays
    /\ window' = ~window
    /\ day' = IF window THEN day ELSE day + 1
    /\ UNCHANGED <<second, dayKeys, timer, waiting, backup, dump, archive,
                   packed, copies, dailies, pushes, breakdowns, collisions>>

-----------------------------------------------------------------------------
(* scheduled_backup and send_periodic_reports *)

KeyUnchecked(k) == window
KeyUnset(k) == window /\ <<k, day>> \notin dayKeys

ClaimDay(k) ==
    /\ KeyUnset(k)
    /\ dayKeys' = dayKeys \cup {<<k, day>>}
    /\ timer' = timer \cup {<<k, day>>}
    /\ UNCHANGED <<second, day, window, waiting, backup, dump, archive, packed,
                   copies, dailies, pushes, breakdowns, collisions>>

(* kiq, or the summary of the day goes out.                                 *)
DoDaily(k, d) ==
    /\ <<k, d>> \in timer /\ timer' = timer \ {<<k, d>>}
    /\ dailies' = [dailies EXCEPT ![k][d] = @ + 1]
    /\ waiting' = IF k = "backup" THEN waiting + 1 ELSE waiting
    /\ UNCHANGED <<second, day, window, dayKeys, backup, dump, archive, packed,
                   copies, pushes, breakdowns, collisions>>

(* backup_now: the owner presses the button.                                *)
BackupNow ==
    /\ pushes < MaxButtons /\ pushes' = pushes + 1
    /\ waiting' = waiting + 1
    /\ UNCHANGED <<second, day, window, dayKeys, timer, backup, dump, archive,
                   packed, copies, dailies, breakdowns, collisions>>

-----------------------------------------------------------------------------
(* run_backup *)

(* pg_dump opens its file.  Two jobs of one second write into one file:     *)
(* what becomes of it is not a dump to be relied on.                        *)
DumpStarts(r) ==
    /\ backup[r].at = "idle" /\ waiting > 0
    /\ waiting' = waiting - 1
    /\ backup' = [backup EXCEPT ![r] = [NoBackup EXCEPT !.at = "dumping", !.stamp = second]]
    /\ IF \A q \in BackupRuns : backup[q].stamp # second \/ backup[q].at \notin AtDump
         THEN dump' = [dump EXCEPT ![second] = "part"] /\ UNCHANGED collisions
         ELSE dump' = [dump EXCEPT ![second] = "mixed"] /\ collisions' = collisions + 1
    /\ UNCHANGED <<second, day, window, dayKeys, timer, archive, packed, copies,
                   dailies, pushes, breakdowns>>

DumpEnds(r) ==
    /\ backup[r].at = "dumping" /\ Now(r, "dumped")
    /\ dump' = [dump EXCEPT ![backup[r].stamp] = IF @ = "part" THEN "whole" ELSE @]
    /\ UNCHANGED <<second, day, window, dayKeys, timer, waiting, archive, packed,
                   copies, dailies, pushes, breakdowns, collisions>>

DumpFails(r) ==
    /\ backup[r].at = "dumping" /\ Now(r, "failed") /\ Breaks(1)
    /\ dump' = [dump EXCEPT ![backup[r].stamp] = "none"]
    /\ UNCHANGED <<second, day, window, dayKeys, timer, waiting, archive, packed,
                   copies, dailies, pushes, collisions>>

(* prune_old_backups keeps those written last of the archives there are.    *)
Written == {s \in DOMAIN archive : <<s, s>> \in packed}
OldestOf(order, there) == {s \in there : Cardinality({t \in there : <<s, t>> \in order}) <= Keep}
NewestOf(order, there) == {s \in there : Cardinality({t \in there : t # s /\ <<t, s>> \in order}) < Keep}

(* What the archive gets of the dump: of one that is gone, nothing.         *)
Content(s) == IF dump[s] = "whole" THEN "whole" ELSE "broken"
PackedLast(s) == {p \in packed : s \notin {p[1], p[2]}} \cup {<<s, t>> : t \in Written \cup {s}}

Pack(r) ==
    LET s == backup[r].stamp
        there == {t \in DOMAIN archive : t = s \/ archive[t] # "none"}
    IN  /\ backup[r].at = "dumped"
        /\ \E stage \in {"sending", "kept"} : Now(r, stage)     \* BACKUP_ENCRYPTION_PASSWORD
        /\ dump' = [dump EXCEPT ![s] = "none"]
        /\ packed' = PackedLast(s)
        /\ archive' = [t \in DOMAIN archive |->
                          IF t \notin NewestOf(PackedLast(s), there) THEN "none"
                          ELSE IF t = s THEN Content(s) ELSE archive[t]]
        /\ UNCHANGED <<second, day, window, dayKeys, timer, waiting, copies, dailies,
                       pushes, breakdowns, collisions>>

(* send_topic_report: to the topic's group, if there is one, and to the     *)
(* administrators, if they are to have reports (REPORT_DM_ADMINS) and of a  *)
(* backup also when the group did not get it.                               *)
AdminsIfAsked(dm, group) == dm
AdminsToo(dm, group) == dm \/ ~group

SendArchive(r) ==
    /\ backup[r].at = "sending"
    /\ IF archive[backup[r].stamp] = "none"
         THEN Now(r, "missing") /\ UNCHANGED <<copies, breakdowns>>
         ELSE \E unreached \in SUBSET Channels, wired, dm \in BOOLEAN :
                LET group == wired /\ "group" \notin unreached
                    admins == AdminsToo(dm, group) /\ "admins" \notin unreached
                IN  /\ Breaks(Cardinality(unreached))
                    /\ backup' = [backup EXCEPT ![r].at = "sent", ![r].unreached = unreached]
                    /\ copies' = IF group \/ admins THEN copies \cup {backup[r].stamp} ELSE copies
    /\ UNCHANGED <<second, day, window, dayKeys, timer, waiting, dump, archive,
                   packed, dailies, pushes, collisions>>

(* The owner has switched the topic off.                                    *)
TopicIsOff(r) ==
    /\ backup[r].at = "sending" /\ Now(r, "kept")
    /\ UNCHANGED <<second, day, window, dayKeys, timer, waiting, dump, archive, packed,
                   copies, dailies, pushes, breakdowns, collisions>>

(* The worker is gone, with all its jobs, of which one may have been        *)
(* packing.                                                                 *)
WorkerDies ==
    /\ Breaks(1)
    /\ backup' = [r \in BackupRuns |->
                     IF backup[r].at \in AtDump \cup {"sending"}
                       THEN [backup[r] EXCEPT !.at = "dead"] ELSE backup[r]]
    /\ timer' = {}
    /\ \/ UNCHANGED <<archive, packed>>
       \/ \E r \in BackupRuns :
            /\ backup[r].at = "dumped"
            /\ archive' = [archive EXCEPT ![backup[r].stamp] = "broken"]
            /\ packed' = PackedLast(backup[r].stamp)
    /\ UNCHANGED <<second, day, window, dayKeys, waiting, dump, copies, dailies,
                   pushes, collisions>>

BackupsNext ==
    \/ NextSecond \/ WindowTurns \/ BackupNow \/ WorkerDies
    \/ \E k \in Kinds : ClaimDay(k) \/ \E d \in 1 .. MaxDays : DoDaily(k, d)
    \/ \E r \in BackupRuns :
         DumpStarts(r) \/ DumpEnds(r) \/ DumpFails(r) \/ Pack(r) \/ SendArchive(r)
         \/ TopicIsOff(r)

-----------------------------------------------------------------------------
LastArchivesStand ==
    \A s \in Written :
        Cardinality({t \in Written : t # s /\ <<t, s>> \in packed}) < Keep => archive[s] # "none"
BadOnesHaveCauses ==
    Cardinality({s \in DOMAIN archive : archive[s] = "broken"}) <= breakdowns + collisions
NothingInPlainText ==
    \A s \in DOMAIN dump : dump[s] # "none" =>
        \E r \in BackupRuns : backup[r].stamp = s /\ backup[r].at \in AtDump \cup {"dead"}

(* The last archives are kept, whichever jobs made them and died; only a    *)
(* death or a shared second makes a bad one, and a database lies about in   *)
(* plain text only while a job is at it, or has died there (tasks.py).      *)
ArchivesKept == LastArchivesStand /\ BadOnesHaveCauses /\ NothingInPlainText

(* "an operator who never wired a report group must still get an off-host   *)
(* copy" (reports.py), unless he could not be reached.                      *)
CopiesLeave ==
    \A r \in BackupRuns : backup[r].at = "sent"
        => backup[r].stamp \in copies \/ "admins" \in backup[r].unreached

(* However late the scheduled jobs come, a day has one of each.             *)
OnceADay == \A k \in Kinds, d \in 1 .. MaxDays : dailies[k][d] <= 1

(* The day's copy of the database is made once, kept, and out of the house.*)
BackupsHold == ArchivesKept /\ CopiesLeave /\ OnceADay
=============================================================================
