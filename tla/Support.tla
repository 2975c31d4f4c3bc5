------------------------------ MODULE Support -------------------------------
(***************************************************************************)
(* A support ticket: its messages, and the status that staff set or that   *)
(* their first reply sets (support.services and api_views).                *)
(***************************************************************************)
EXTENDS Requests, Integers

CONSTANTS
  Ticket,     \* tickets
  MaxReplied  \* bound: replies to a ticket

ASSUME SupportAssumption == MaxReplied \in Nat

VARIABLES
  tickets,   \* tickets[t]: its status, "none" before it is there
  replies,   \* replies[t]: how many messages the customer and staff have sent
  chosen,    \* history: chosen[t]: the status set last on purpose
  undone     \* history: tickets moved by a reply that had loaded them before

supportVars == <<tickets, replies, chosen, undone>>

TicketStatus == {"open", "in_progress", "resolved", "closed"}

SupportJobs ==
  [do : {"describe"}, on : Ticket, row : {[status |-> "open"]}, old : BOOLEAN]
    \cup [do : {"reply", "progress"}, on : Ticket, row : [status : TicketStatus], old : BOOLEAN]

SupportTypeOK ==
  /\ tickets \in [Ticket -> TicketStatus \cup {"none"}]
  /\ replies \in [Ticket -> [customer : 0..MaxReplied + 1, staff : 0..MaxReplied]]
  /\ chosen \in [Ticket -> TicketStatus \cup {"none"}]
  /\ undone \subseteq Ticket

SupportInit ==
  /\ tickets = [t \in Ticket |-> "none"]
  /\ replies = [t \in Ticket |-> [customer |-> 0, staff |-> 0]]
  /\ chosen = [t \in Ticket |-> "none"]
  /\ undone = {}

-----------------------------------------------------------------------------
(* Actions *)

CreateTicket(c, t) ==
  /\ tickets[t] = "none"
  /\ tickets' = [tickets EXCEPT ![t] = "open"]
  /\ chosen' = [chosen EXCEPT ![t] = "open"]
  /\ Begin(c, Job("describe", t, [status |-> "open"]))
  /\ UNCHANGED <<replies, undone>>

\* The description is the ticket's first message, saved after the ticket.
DescribeTicket(c) ==
  /\ Does(c, "describe")
  /\ replies' = [replies EXCEPT ![calls[c].on].customer = @ + 1]
  /\ End(c)
  /\ UNCHANGED <<tickets, chosen, undone>>

CustomerReply(t) ==
  /\ tickets[t] # "none" /\ replies[t].customer < MaxReplied
  /\ replies' = [replies EXCEPT ![t].customer = @ + 1]
  /\ UNCHANGED <<calls, tickets, chosen, undone>>

LoadToReply(c, t) ==
  /\ tickets[t] # "none"
  /\ Begin(c, Job("reply", t, [status |-> tickets[t]]))
  /\ UNCHANGED supportVars

\* Mutant: every reply of staff puts the ticket in progress.
ProgressesAlways(status) == TRUE

\* The first reply of staff does: later ones leave the status alone.
Progresses(status) == status = "open"

StaffReply(c) ==
  LET t == calls[c].on IN
  /\ Does(c, "reply") /\ replies[t].staff < MaxReplied
  /\ replies' = [replies EXCEPT ![t].staff = @ + 1]
  /\ Goes(c, IF Progresses(calls[c].row.status) THEN [calls[c] EXCEPT !.do = "progress"] ELSE Idle)
  /\ UNCHANGED <<tickets, chosen, undone>>

\* By the status the reply's request had loaded.
StartProgress(c) ==
  LET t == calls[c].on IN
  /\ Does(c, "progress")
  /\ tickets' = [tickets EXCEPT ![t] = "in_progress"]
  /\ undone' = IF calls[c].old THEN undone \cup {t} ELSE undone
  /\ Saved(c, t, Idle)
  /\ UNCHANGED <<replies, chosen>>

\* Any status from any other.
SetStatus(t, status) ==
  /\ tickets[t] # "none"
  /\ tickets' = [tickets EXCEPT ![t] = status]
  /\ chosen' = [chosen EXCEPT ![t] = status]
  /\ undone' = undone \ {t}
  /\ SavedAtOnce(t)
  /\ UNCHANGED replies

LoseReply(c) == calls[c] # Idle /\ End(c) /\ UNCHANGED supportVars

-----------------------------------------------------------------------------
SupportNext ==
  \/ \E t \in Ticket : CustomerReply(t) \/ \E status \in TicketStatus : SetStatus(t, status)
  \/ \E c \in Call :
       \/ DescribeTicket(c) \/ StaffReply(c) \/ StartProgress(c) \/ LoseReply(c)
       \/ \E t \in Ticket : CreateTicket(c, t) \/ LoadToReply(c, t)

-----------------------------------------------------------------------------
(* What holds *)

\* A ticket has the status that staff set last, save that an open one that was
\* answered may be in progress; only a reply that had loaded the ticket before
\* its status was set may undo that.
StatusStands ==
  \A t \in Ticket :
    \/ tickets[t] = chosen[t]
    \/ tickets[t] = "in_progress" /\ replies[t].staff > 0 /\ (chosen[t] = "open" \/ t \in undone)

=============================================================================
