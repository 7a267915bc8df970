---------------------------- MODULE SupportDesk ----------------------------
(***************************************************************************)
(* Support tickets: what users write in the bot or the cabinet, what       *)
(* operators answer (admin/tickets.py) and the AI that answers first       *)
(* (ai_support.py).  Every message is a request of its own: it looks for   *)
(* an open ticket, saves, and then lets the AI read the whole ticket and   *)
(* think, for a minute or more, before it answers or calls a person.       *)
(* Nothing locks a ticket meanwhile.                                       *)
(*                                                                         *)
(* One user; texts, tools and the words of the answer are left out.        *)
(***************************************************************************)
EXTENDS Naturals, Sequences, FiniteSets

CONSTANTS
    Tickets,          \* ids
    NoTicket,
    Writings,         \* messages the user sends, 1 .. n in this order
    MaxTurns,         \* _MAX_AI_TURNS
    MaxStaff,         \* steps of operators: answers and changes of a status
    MaxHiccups        \* failures of the AI's handler and of its alerts

VARIABLES
    thread,           \* all ticket_messages, by id: ticket, author, what an answer had read
    ticket,           \* status of each ticket
    writing,          \* each message: how far its request is
    called,           \* tickets the owner was alerted about
    lapsed,           \* tickets where the AI was off or failed, or an alert was lost
    staffLeft, hiccups

deskVars == <<thread, ticket, writing, called, lapsed, staffLeft, hiccups>>

Unwritten == [at |-> "unwritten", in |-> NoTicket, was |-> "none", read |-> 0]
Said(t, by, read) == Append(thread, [in |-> t, by |-> by, read |-> read])

DeskInit ==
    /\ thread = <<>>
    /\ ticket = [t \in Tickets |-> "none"]
    /\ writing = [w \in Writings |-> Unwritten]
    /\ called = {} /\ lapsed = {}
    /\ staffLeft = MaxStaff /\ hiccups = 0

Active == {t \in Tickets : ticket[t] \in {"open", "waiting"}}

-----------------------------------------------------------------------------
(* user_message and support_send: the open ticket is read, and what is     *)
(* written depends on the status it was read with, as a status assigned    *)
(* again is not flushed. *)
Write(w) ==
    /\ writing[w] = Unwritten
    /\ \A v \in Writings : v < w => writing[v] # Unwritten
    /\ \/ Active = {} /\ writing' = [writing EXCEPT ![w].at = "saving"]
       \/ \E t \in Active :
            writing' = [writing EXCEPT ![w] = [@ EXCEPT !.at = "saving", !.in = t, !.was = ticket[t]]]
    /\ UNCHANGED <<thread, ticket, called, lapsed, staffLeft, hiccups>>

Save(w) ==
    LET v == writing[w] IN
    /\ v.at = "saving"
    /\ \E t \in Tickets :
         /\ IF v.in # NoTicket THEN t = v.in
            ELSE /\ ticket[t] = "none"
                 /\ \A o \in Tickets : ticket[o] = "none" => t <= o
         /\ ticket' = IF v.was = "open" THEN ticket ELSE [ticket EXCEPT ![t] = "open"]
         /\ thread' = Said(t, "user", 0)
         /\ writing' = [writing EXCEPT ![w].at = "asking", ![w].in = t]
    /\ UNCHANGED <<called, lapsed, staffLeft, hiccups>>

-----------------------------------------------------------------------------
(* handle_ticket, once the AI turns out to be on: it reads the ticket.     *)
(* With an operator in it the AI stays out, after enough answers of its    *)
(* own it calls a person, and otherwise it thinks about what it has read.  *)
Turns(t) == {n \in DOMAIN thread : thread[n].in = t /\ thread[n].by = "ai"}
OperatorIn(t) == \E n \in DOMAIN thread : thread[n].in = t /\ thread[n].by = "operator"
TooMany(t) == Cardinality(Turns(t)) >= MaxTurns

Ended(w) == [writing EXCEPT ![w].at = "done"]

(* The owner is alerted; an alert that fails is suppressed. *)
AlertLost(t) ==
    /\ hiccups < MaxHiccups
    /\ hiccups' = hiccups + 1
    /\ lapsed' = lapsed \cup {t}
Alerts(t) == \/ called' = called \cup {t} /\ UNCHANGED <<lapsed, hiccups>>
             \/ AlertLost(t) /\ UNCHANGED called
NoAlert == UNCHANGED <<called, lapsed, hiccups>>

AskAi(w) ==
    LET t == writing[w].in IN
    /\ writing[w].at = "asking"
    /\ \/ /\ OperatorIn(t)
          /\ writing' = Ended(w) /\ NoAlert
       \/ /\ ~OperatorIn(t) /\ TooMany(t)
          /\ writing' = Ended(w) /\ Alerts(t)
       \/ /\ ~OperatorIn(t) /\ ~TooMany(t)
          /\ writing' = [writing EXCEPT ![w].at = "thinking", ![w].read = Len(thread)]
          /\ NoAlert
    /\ UNCHANGED <<thread, ticket, staffLeft>>

(* generate_reply: nothing to answer when the last word the AI has read is *)
(* not the user's, as another message's answer came first; otherwise the   *)
(* model answers or asks for a person, and so does an error.               *)
LastReadIsUsers(w) ==
    LET mine == {n \in 1 .. writing[w].read : thread[n].in = writing[w].in}
    IN  thread[CHOOSE n \in mine : \A o \in mine : o <= n].by = "user"

(* What a bug would make of it: an answer that came first is taken for an  *)
(* answer to everything. *)
EscalateOrRest(w) ==
    /\ writing[w].at = "thinking"
    /\ writing' = Ended(w)
    /\ IF LastReadIsUsers(w) THEN Alerts(writing[w].in) ELSE NoAlert
    /\ UNCHANGED <<thread, ticket, staffLeft>>

Escalate(w) ==
    /\ writing[w].at = "thinking"
    /\ writing' = Ended(w)
    /\ Alerts(writing[w].in)
    /\ UNCHANGED <<thread, ticket, staffLeft>>

Reply(w) ==
    LET t == writing[w].in IN
    /\ writing[w].at = "thinking" /\ LastReadIsUsers(w)
    /\ thread' = Said(t, "ai", writing[w].read)
    /\ ticket' = [ticket EXCEPT ![t] = "waiting"]
    /\ writing' = Ended(w)
    /\ UNCHANGED <<called, lapsed, staffLeft, hiccups>>

(* The AI is off or has no key, or its handler fails on the database: the  *)
(* user is told the message was added, and nothing else happens. *)
Hiccup(w) ==
    /\ writing[w].at \in {"asking", "thinking"}
    /\ writing' = Ended(w)
    /\ AlertLost(writing[w].in)
    /\ UNCHANGED <<thread, ticket, called, staffLeft>>

-----------------------------------------------------------------------------
(* The cabinet of the administrators: reply_ticket and set_ticket_status.  *)
OperatorReply ==
    \E t \in Tickets :
        /\ ticket[t] # "none" /\ staffLeft > 0
        /\ thread' = Said(t, "operator", 0)
        /\ ticket' = [ticket EXCEPT ![t] = "waiting"]
        /\ staffLeft' = staffLeft - 1
        /\ UNCHANGED <<writing, called, lapsed, hiccups>>

SetStatus ==
    \E t \in Tickets, s \in {"open", "waiting", "closed"} :
        /\ ticket[t] \notin {"none", s} /\ staffLeft > 0
        /\ ticket' = [ticket EXCEPT ![t] = s]
        /\ staffLeft' = staffLeft - 1
        /\ UNCHANGED <<thread, writing, called, lapsed, hiccups>>

DeskNext ==
    \/ \E w \in Writings : \/ Write(w) \/ Save(w) \/ AskAi(w)
                           \/ Escalate(w) \/ Reply(w) \/ Hiccup(w)
    \/ OperatorReply \/ SetStatus

-----------------------------------------------------------------------------
Attended(n) ==
    LET t == thread[n].in IN
    \/ t \in called \/ OperatorIn(t)
    \/ \E m \in Turns(t) : thread[m].read >= n

(* Nobody is left alone: once every request has ended, each message of the *)
(* user was read by an answer of the AI, or an operator is in the ticket,  *)
(* or one was called to it; even when messages, answers and operators      *)
(* overlap (ai_support.py, handle_ticket: a message stored while another   *)
(* one is being answered).  Excepted are the tickets where the AI was off  *)
(* or failed, or where the call itself was lost: handle_ticket suppresses  *)
(* a failed notify_admins and still reports "escalate".                    *)
NobodyLeftAlone ==
    (\A w \in Writings : writing[w].at \in {"unwritten", "done"})
        => \A n \in DOMAIN thread :
              thread[n].by = "user" => Attended(n) \/ thread[n].in \in lapsed
=============================================================================
