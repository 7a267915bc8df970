----------------------------- MODULE Telemetry -----------------------------
(***************************************************************************)
(* Crash telemetry: the reporter in every installation (telemetry.py),     *)
(* which merges errors by fingerprint and sends them in batches, and the   *)
(* vendor's ingest server (telemetry-server/server.py), which keeps one    *)
(* issue per fingerprint and alerts the team of a new or returned one.     *)
(*                                                                         *)
(* An event is a bug with the number of its occurrences and the time of    *)
(* the first of them; a batch maps every bug to its event, of number 0     *)
(* when there is none.  What an event says, which installations and        *)
(* versions an issue was seen on, and its last event rows are left out.    *)
(***************************************************************************)
EXTENDS Naturals, Sequences, FiniteSets, SequencesExt

CONSTANTS
    Sites,         \* installations
    Bugs,          \* fingerprints
    MaxPending,    \* _MAX_PENDING_FINGERPRINTS
    MaxCount,      \* MAX_COUNT_PER_EVENT
    MaxIssues,     \* MAX_ISSUE_ROWS
    MaxAlerts,     \* MAX_ALERT_QUEUE
    MaxReports,    \* bound: occurrences
    MaxDrops,      \* bound: batches refused, answers, alerts and processes lost
    MaxPresses     \* bound: the dashboard's resolve and reopen buttons

ASSUME TelemetryAssumption ==
    /\ IsFiniteSet(Sites) /\ IsFiniteSet(Bugs)
    /\ {MaxPending, MaxCount, MaxIssues, MaxAlerts, MaxReports, MaxDrops, MaxPresses} \subseteq Nat

VARIABLES
    pending,       \* the reporter's queue: a batch
    flight,        \* batches asked of the server, by the sender and by aclose
    closing,       \* installations whose aclose has begun
    issue,         \* the server's issues table
    alerts,        \* alerts not yet sent to the team: bugs
    told,          \* open issues the team has heard of
    quiet,         \* open issues that went unannounced, as the server accepts
    reported, twice, gone,   \* the occurrences of every bug (see OccurrencesAddUp)
    drops, presses           \* counters of the bounds

telemetryVars == <<pending, flight, closing, issue, alerts, told, quiet,
                   reported, twice, gone, drops, presses>>

Lanes == {"sender", "aclose"}
NoEvents == [b \in Bugs |-> [n |-> 0, ts |-> 0]]
NoFlight == [at |-> "none", of |-> NoEvents]
NoIssue == [known |-> FALSE, total |-> 0, last |-> 0, resolved |-> FALSE]

Counts(batch) == [b \in Bugs |-> batch[b].n]
Plus(f, g) == [b \in Bugs |-> f[b] + g[b]]
Named(batch) == {b \in Bugs : batch[b].n > 0}
Occurred == SumFunctionOnSet(reported, Bugs)

TelemetryInit ==
    /\ pending = [i \in Sites |-> NoEvents]
    /\ flight = [i \in Sites |-> [l \in Lanes |-> NoFlight]]
    /\ closing = {}
    /\ issue = [b \in Bugs |-> NoIssue]
    /\ alerts = <<>> /\ told = {} /\ quiet = {}
    /\ reported = [b \in Bugs |-> 0] /\ twice = reported /\ gone = reported
    /\ drops = 0 /\ presses = 0

-----------------------------------------------------------------------------
(* The reporter. *)

(* One event of a batch taken into the queue: merged into the event already *)
(* there, or new while the queue has room.                                  *)
Queued(queue, b, e) ==
    CASE queue[b].n > 0 -> [queue EXCEPT ![b].n = @ + e.n]
      [] queue[b].n = 0 /\ Cardinality(Named(queue)) < MaxPending -> [queue EXCEPT ![b] = e]
      [] OTHER -> queue

(* report: an occurrence; the clock is the number of occurrences so far.    *)
Report(i, b) ==
    /\ Occurred < MaxReports
    /\ reported' = [reported EXCEPT ![b] = @ + 1]
    /\ LET queue == IF i \in closing THEN pending[i]
                    ELSE Queued(pending[i], b, [n |-> 1, ts |-> Occurred + 1])
       IN  /\ pending' = [pending EXCEPT ![i] = queue]
           /\ gone' = IF queue = pending[i] THEN [gone EXCEPT ![b] = @ + 1] ELSE gone
    /\ UNCHANGED <<flight, closing, issue, alerts, told, quiet, twice, drops, presses>>

(* flush takes the whole queue and posts it.                                *)
Flush(i) ==
    /\ i \notin closing /\ flight[i]["sender"].at = "none" /\ Named(pending[i]) # {}
    /\ flight' = [flight EXCEPT ![i]["sender"] = [at |-> "asked", of |-> pending[i]]]
    /\ pending' = [pending EXCEPT ![i] = NoEvents]
    /\ UNCHANGED <<closing, issue, alerts, told, quiet, reported, twice, gone, drops, presses>>

PutBackOver(queue, batch, order) ==                             \* mutant
    [b \in Bugs |-> IF batch[b].n > 0 THEN batch[b] ELSE queue[b]]

(* A post that failed puts its events back one by one, merged with what    *)
(* came meanwhile and while there is room.                                 *)
PutBack(queue, batch, order) ==
    LET after[k \in 0 .. Len(order)] ==
            IF k = 0 THEN queue ELSE Queued(after[k - 1], order[k], batch[order[k]])
    IN  after[Len(order)]

Landed(i, l) == flight' = [flight EXCEPT ![i][l] = NoFlight]

(* What the queue holds after a post that failed, and the occurrences of    *)
(* the batch that found no room or nobody to put them back.                 *)
AfterFailure(i, l, order) ==
    IF flight[i][l].at = "asked" THEN PutBack(pending[i], flight[i][l].of, order)
    ELSE pending[i]

Unkept(i, l, order) ==
    [b \in Bugs |-> IF flight[i][l].at = "asked" /\ AfterFailure(i, l, order)[b].n > 0 THEN 0
                    ELSE flight[i][l].of[b].n]

(* aclose: the sender is cancelled, its answer heard by nobody and its      *)
(* events not put back; what is left in the queue is posted once more.      *)
Aclose(i) ==
    /\ i \notin closing /\ drops < MaxDrops
    /\ drops' = drops + 1
    /\ closing' = closing \cup {i}
    /\ LET cut  == flight[i]["sender"]
           last == [at |-> "asked", of |-> pending[i]]
       IN  flight' = [flight EXCEPT ![i] = [l \in Lanes |->
               CASE l = "sender" /\ cut.at = "asked" -> [cut EXCEPT !.at = "unheard"]
                 [] l = "sender" /\ cut.at # "asked" -> cut
                 [] l = "aclose" /\ Named(pending[i]) = {} -> NoFlight
                 [] OTHER -> last]]
    /\ pending' = [pending EXCEPT ![i] = NoEvents]
    /\ UNCHANGED <<issue, alerts, told, quiet, reported, twice, gone, presses>>

(* The process ends, and starts again with an empty queue.                  *)
StartsAgain(i) ==
    /\ i \in closing /\ \A l \in Lanes : flight[i][l].at = "none"
    /\ closing' = closing \ {i}
    /\ gone' = Plus(gone, Counts(pending[i]))
    /\ pending' = [pending EXCEPT ![i] = NoEvents]
    /\ UNCHANGED <<flight, issue, alerts, told, quiet, reported, twice, drops, presses>>

-----------------------------------------------------------------------------
(* The server: a batch is taken under a lock, in one transaction. *)

KnownIn(issues) == {b \in Bugs : issues[b].known}

(* Dropped when there are too many: resolved ones first, then the oldest.   *)
Victims(issues) ==
    LET Before(b, c) ==
            \/ issues[b].resolved /\ ~issues[c].resolved
            \/ issues[b].resolved = issues[c].resolved /\ issues[b].last < issues[c].last
        over == Cardinality(KnownIn(issues)) - MaxIssues
    IN  {c \in KnownIn(issues) : Cardinality({b \in KnownIn(issues) : Before(b, c)}) < over}

(* _alert: dropped when the queue is full.                                  *)
Alerted(s, b) ==
    IF Len(s.alerts) < MaxAlerts
      THEN [s EXCEPT !.alerts = Append(@, b)]
      ELSE [s EXCEPT !.quiet = @ \cup {b}]

Inserted(s, b, e) ==
    LET added == [s.issue EXCEPT ![b] = [known |-> TRUE, total |-> e.n, last |-> e.ts,
                                         resolved |-> FALSE]]
        out   == Victims(added)
    IN  Alerted([s EXCEPT !.issue = [c \in Bugs |-> IF c \in out THEN NoIssue ELSE added[c]],
                          !.gone = [c \in Bugs |-> @[c] + IF c \in out THEN added[c].total ELSE 0],
                          !.told = @ \ out, !.quiet = @ \ out], b)

Counted(s, b, e) ==
    [s EXCEPT !.issue[b] = [known |-> TRUE, total |-> @.total + e.n, last |-> e.ts,
                            resolved |-> FALSE]]

Updated(s, b, e) ==
    IF s.issue[b].resolved THEN Alerted(Counted(s, b, e), b) ELSE Counted(s, b, e)

(* An event whose number is too large is not valid and is passed over.      *)
Valid(e) == e.n \in 1 .. MaxCount

AppliedEvent(s, b, e) ==
    CASE ~Valid(e) -> s
      [] Valid(e) /\ s.issue[b].known -> Updated(s, b, e)
      [] OTHER -> Inserted(s, b, e)

Ingested(batch, order) ==
    LET after[k \in 0 .. Len(order)] ==
            IF k = 0
              THEN [issue |-> issue, alerts |-> alerts, told |-> told, quiet |-> quiet,
                    gone |-> [b \in Bugs |-> 0]]
              ELSE AppliedEvent(after[k - 1], order[k], batch[order[k]])
    IN  after[Len(order)]

Stored(s) == issue' = s.issue /\ alerts' = s.alerts /\ told' = s.told /\ quiet' = s.quiet

Accepted(batch) == [b \in Bugs |-> IF Valid(batch[b]) THEN batch[b].n ELSE 0]
Invalid(batch) == [b \in Bugs |-> IF Valid(batch[b]) THEN 0 ELSE batch[b].n]

(* The batch is stored, and whoever waits for the answer hears so.          *)
Ingest(i, l) ==
    /\ flight[i][l].at # "none"
    /\ Landed(i, l)
    /\ \E order \in SetToSeqs(Named(flight[i][l].of)) :
          LET s == Ingested(flight[i][l].of, order)
          IN  Stored(s) /\ gone' = Plus(gone, Plus(s.gone, Invalid(flight[i][l].of)))
    /\ UNCHANGED <<pending, closing, reported, twice, drops, presses>>

(* The batch is stored and the answer is lost: the events are put back.     *)
AnswerLost(i, l) ==
    /\ flight[i][l].at = "asked" /\ drops < MaxDrops
    /\ drops' = drops + 1
    /\ Landed(i, l)
    /\ twice' = Plus(twice, Accepted(flight[i][l].of))
    /\ \E order \in SetToSeqs(Named(flight[i][l].of)) :
          LET s == Ingested(flight[i][l].of, order)
          IN  /\ Stored(s) /\ gone' = Plus(gone, Plus(s.gone, Unkept(i, l, order)))
              /\ pending' = [pending EXCEPT ![i] = AfterFailure(i, l, order)]
    /\ UNCHANGED <<closing, reported, presses>>

(* The batch is not stored: no connection, too many requests, or a          *)
(* transaction rolled back whose alerts were already queued.                *)
NotStored(i, l) ==
    /\ flight[i][l].at # "none" /\ drops < MaxDrops
    /\ drops' = drops + 1
    /\ Landed(i, l)
    /\ \E order \in SetToSeqs(Named(flight[i][l].of)) :
          /\ pending' = [pending EXCEPT ![i] = AfterFailure(i, l, order)]
          /\ gone' = Plus(gone, Unkept(i, l, order))
          /\ alerts' \in {alerts, Ingested(flight[i][l].of, order).alerts}
    /\ UNCHANGED <<closing, issue, told, quiet, reported, twice, presses>>

(* An alert is sent, or lost on the way and not tried again.                *)
SendAlert ==
    /\ alerts # <<>>
    /\ alerts' = Tail(alerts)
    /\ \/ told' = told \cup {Head(alerts)} /\ UNCHANGED <<quiet, drops>>
       \/ /\ drops < MaxDrops /\ drops' = drops + 1
          /\ quiet' = quiet \cup {Head(alerts)} /\ UNCHANGED told
    /\ UNCHANGED <<pending, flight, closing, issue, reported, twice, gone, presses>>

(* The button of the dashboard turns the issue round, whatever the page     *)
(* showed when it was loaded.                                               *)
ToggleIssue(b) ==
    /\ issue[b].known /\ presses < MaxPresses
    /\ presses' = presses + 1
    /\ issue' = [issue EXCEPT ![b].resolved = ~@]
    /\ told' = told \ {b}
    /\ quiet' = IF issue[b].resolved THEN quiet \cup {b} ELSE quiet \ {b}
    /\ UNCHANGED <<pending, flight, closing, alerts, reported, twice, gone, drops>>

(* The server is restarted: its tables remain, its queue of alerts does not.*)
ServerRestart ==
    /\ alerts # <<>> /\ drops < MaxDrops
    /\ drops' = drops + 1
    /\ alerts' = <<>>
    /\ quiet' = quiet \cup ToSet(alerts)
    /\ UNCHANGED <<pending, flight, closing, issue, told, reported, twice, gone, presses>>

TelemetryNext ==
    \/ \E i \in Sites, b \in Bugs : Report(i, b)
    \/ \E i \in Sites : Flush(i) \/ Aclose(i) \/ StartsAgain(i)
    \/ \E i \in Sites, l \in Lanes : Ingest(i, l) \/ AnswerLost(i, l) \/ NotStored(i, l)
    \/ \E b \in Bugs : ToggleIssue(b)
    \/ SendAlert \/ ServerRestart

-----------------------------------------------------------------------------
(* Of telemetry.py and telemetry-server/server.py.  Every occurrence is     *)
(* somewhere: counted by an issue, in a queue or on its way.  None is       *)
(* forgotten when batches fail, overlap with new reports or are cut off, but *)
(* those the code gives up (gone: no room, a number that is not valid, an   *)
(* evicted issue, a process that ends), and none is counted twice but those *)
(* whose answer was lost (twice).                                           *)
OccurrencesAddUp ==
    \A b \in Bugs :
        reported[b] + twice[b] =
            issue[b].total + gone[b]
              + SumFunctionOnSet([i \in Sites |-> pending[i][b].n], Sites)
              + SumFunctionOnSet([f \in Sites \X Lanes |-> flight[f[1]][f[2]].of[b].n],
                                 Sites \X Lanes)

(* An open issue is one the team was alerted of since it was last closed,   *)
(* or an alert of it is queued; but those reopened by hand and those whose  *)
(* alert was dropped or lost (quiet).                                       *)
OpenIsAnnounced ==
    \A b \in KnownIn(issue) :
        issue[b].resolved \/ b \in told \cup quiet \cup ToSet(alerts)

(* What went wrong at a customer's reaches the team, counted right.        *)
TroublesAreTold == OccurrencesAddUp /\ OpenIsAnnounced
=============================================================================
