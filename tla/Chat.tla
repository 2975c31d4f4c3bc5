-------------------------------- MODULE Chat --------------------------------
(***************************************************************************)
(* One conversation: the sockets of its two parties (chat.consumers), the  *)
(* website's thread page, which polls (message_thread.js over              *)
(* chat.api_views), and the flag that says who is online (chat.services).  *)
(*                                                                         *)
(* A message is a row first and an event for the sockets after: a consumer *)
(* does one thing at a time and gets events in the order they were sent.   *)
(* Typing, presence and receipt events and the messages' read marks, which *)
(* nothing else depends on, are left out.                                  *)
(***************************************************************************)
EXTENDS Integers, Sequences, SequencesExt

CONSTANTS
  Party,        \* the customer and the counterpart
  Socket,       \* web sockets, each of one party
  PartyOf,      \* PartyOf[s]: whose socket it is
  Reader,       \* the parties that have the website's page open
  MaxMessages,  \* bound: messages ever sent
  PageSize      \* messages in the first page of the list, the only one polled

ASSUME ChatAssumption ==
  /\ PartyOf \in [Socket -> Party] /\ Reader \subseteq Party
  /\ MaxMessages \in Nat /\ PageSize \in Nat

VARIABLES
  messages,  \* the rows, by id: who sent each
  sockets,   \* sockets[s]: closed, joined (in the group), open, or leaving it
  inbox,     \* inbox[s]: events on their way to the consumer
  toSend,    \* toSend[s]: the event the consumer is to send, or None
  since,     \* history: since[s]: messages there were when s joined
  screen,    \* screen[s]: messages the client was sent
  shown,     \* shown[u]: messages on the page of u, in the order shown
  polled,    \* polled[u]: the answer that the page waits for, or NoAnswer
  posted,    \* posted[u]: what became of the message the page sends
  online,    \* online[u]: the cached flag
  lost       \* history: messages whose event was never sent

chatVars == <<messages, sockets, inbox, toSend, since, screen, shown, polled, posted, online, lost>>
sending == <<messages, toSend, posted, lost>>
onSockets == <<sockets, inbox, since, screen>>
onPages == <<shown, polled>>

Id == 1..MaxMessages
None == 0
NoAnswer == <<None>>
NotPosting == [id |-> None, step |-> "idle"]

ChatTypeOK ==
  /\ messages \in Seq(Party) /\ Len(messages) <= MaxMessages
  /\ sockets \in [Socket -> {"closed", "joined", "open", "leaving"}]
  /\ inbox \in [Socket -> Seq(Id)]
  /\ toSend \in [Socket -> Id \cup {None}]
  /\ since \in [Socket -> 0..MaxMessages]
  /\ screen \in [Socket -> Seq(Id)]
  /\ shown \in [Reader -> Seq(Id)]
  /\ polled \in [Reader -> Seq(Id) \cup {NoAnswer}]
  /\ posted \in [Reader -> [id : Id \cup {None}, step : {"idle", "created", "sent"}]]
  /\ online \in [Party -> BOOLEAN]
  /\ lost \subseteq Id

ChatInit ==
  /\ messages = <<>>
  /\ sockets = [s \in Socket |-> "closed"]
  /\ inbox = [s \in Socket |-> <<>>]
  /\ toSend = [s \in Socket |-> None]
  /\ since = [s \in Socket |-> 0]
  /\ screen = [s \in Socket |-> <<>>]
  /\ shown = [u \in Reader |-> <<>>]
  /\ polled = [u \in Reader |-> NoAnswer]
  /\ posted = [u \in Reader |-> NotPosting]
  /\ online = [u \in Party |-> FALSE]
  /\ lost = {}

-----------------------------------------------------------------------------
(* Connections and presence *)

Connected(u) == \E s \in Socket : PartyOf[s] = u /\ sockets[s] = "open"
Free(s) == sockets[s] = "open" /\ toSend[s] = None

\* Into the group first, then accepted.
Connect(s) ==
  /\ sockets[s] = "closed"
  /\ sockets' = [sockets EXCEPT ![s] = "joined"]
  /\ since' = [since EXCEPT ![s] = Len(messages)]
  /\ UNCHANGED <<inbox, screen, sending, onPages, online>>

SetOnline(s) ==
  /\ sockets[s] = "joined"
  /\ sockets' = [sockets EXCEPT ![s] = "open"]
  /\ online' = [online EXCEPT ![PartyOf[s]] = TRUE]
  /\ UNCHANGED <<inbox, since, screen, sending, onPages>>

Forget(s) ==
  /\ inbox' = [inbox EXCEPT ![s] = <<>>]
  /\ screen' = [screen EXCEPT ![s] = <<>>]
  /\ since' = [since EXCEPT ![s] = 0]

\* Out of the group: what was on its way is not sent to the client.
Disconnect(s) ==
  /\ Free(s)
  /\ sockets' = [sockets EXCEPT ![s] = "leaving"]
  /\ Forget(s)
  /\ UNCHANGED <<sending, onPages, online>>

\* Whether or not the party has another socket open.
SetOffline(s) ==
  /\ sockets[s] = "leaving"
  /\ sockets' = [sockets EXCEPT ![s] = "closed"]
  /\ online' = [online EXCEPT ![PartyOf[s]] = FALSE]
  /\ UNCHANGED <<inbox, since, screen, sending, onPages>>

\* The server's process is lost, and its sockets with it.
LoseSocket(s) ==
  /\ sockets[s] # "closed"
  /\ sockets' = [sockets EXCEPT ![s] = "closed"]
  /\ Forget(s)
  /\ toSend' = [toSend EXCEPT ![s] = None]
  /\ lost' = lost \cup ({toSend[s]} \ {None})
  /\ UNCHANGED <<messages, posted, onPages, online>>

\* Mutant: a heartbeat is taken for a message without text.
HeartbeatIgnored(s) == Free(s) /\ UNCHANGED chatVars

Heartbeat(s) ==
  /\ Free(s)
  /\ online' = [online EXCEPT ![PartyOf[s]] = TRUE]
  /\ UNCHANGED <<sending, onSockets, onPages>>

\* ONLINE_TTL_SECONDS without a heartbeat, which may come late.
ExpirePresence(u) ==
  /\ online[u]
  /\ online' = [online EXCEPT ![u] = FALSE]
  /\ UNCHANGED <<sending, onSockets, onPages>>

-----------------------------------------------------------------------------
(* Messages *)

NewMessage(u) ==
  /\ Len(messages) < MaxMessages
  /\ messages' = Append(messages, u)

\* Mutant: the event goes to the other party's sockets only.
GroupOfOthers(id) ==
  {s \in Socket : sockets[s] \in {"joined", "open"} /\ PartyOf[s] # messages[id]}

\* The sockets in the conversation's group, the sender's own among them.
Group(id) == {s \in Socket : sockets[s] \in {"joined", "open"}}

GroupSend(id) ==
  inbox' = [s \in Socket |-> IF s \in Group(id) THEN Append(inbox[s], id) ELSE inbox[s]]

CreateMessage(s) ==
  /\ Free(s) /\ NewMessage(PartyOf[s])
  /\ toSend' = [toSend EXCEPT ![s] = Len(messages')]
  /\ UNCHANGED <<posted, lost, onSockets, onPages, online>>

SendEvent(s) ==
  /\ toSend[s] # None
  /\ GroupSend(toSend[s])
  /\ toSend' = [toSend EXCEPT ![s] = None]
  /\ UNCHANGED <<messages, posted, lost, sockets, since, screen, onPages, online>>

DeliverEvent(s) ==
  /\ Free(s) /\ inbox[s] # <<>>
  /\ screen' = [screen EXCEPT ![s] = Append(@, Head(inbox[s]))]
  /\ inbox' = [inbox EXCEPT ![s] = Tail(@)]
  /\ UNCHANGED <<sockets, since, sending, onPages, online>>

-----------------------------------------------------------------------------
(* The page *)

PostMessage(u) ==
  /\ posted[u] = NotPosting /\ NewMessage(u)
  /\ posted' = [posted EXCEPT ![u] = [id |-> Len(messages'), step |-> "created"]]
  /\ UNCHANGED <<toSend, lost, onSockets, onPages, online>>

BroadcastPosted(u) ==
  /\ posted[u].step = "created"
  /\ GroupSend(posted[u].id)
  /\ posted' = [posted EXCEPT ![u].step = "sent"]
  /\ UNCHANGED <<messages, toSend, lost, sockets, since, screen, onPages, online>>

\* Mutant: the page shows whatever it is given.
AppendAlways(list, new) == list \o new

\* renderedIds: one after another, each unless it is on the page by then.
AppendNew(list, new) ==
  LET page[i \in 0..Len(new)] ==
        IF i = 0 THEN list
        ELSE IF Contains(page[i - 1], new[i]) THEN page[i - 1]
        ELSE Append(page[i - 1], new[i])
  IN page[Len(new)]

ShowPosted(u) ==
  /\ posted[u].step = "sent"
  /\ shown' = [shown EXCEPT ![u] = AppendNew(@, <<posted[u].id>>)]
  /\ posted' = [posted EXCEPT ![u] = NotPosting]
  /\ UNCHANGED <<messages, toSend, lost, onSockets, polled, online>>

\* The request fails: the customer sees an error, the row may be there.
LosePosted(u) ==
  /\ posted[u] # NotPosting
  /\ lost' = IF posted[u].step = "created" THEN lost \cup {posted[u].id} ELSE lost
  /\ posted' = [posted EXCEPT ![u] = NotPosting]
  /\ UNCHANGED <<messages, toSend, onSockets, onPages, online>>

\* Mutant: the list leaves out what the reader has sent.
FirstPageOfOthers(u) ==
  SelectSeq([i \in 1..Min({PageSize, Len(messages)}) |-> i], LAMBDA id : messages[id] # u)

\* The oldest messages: the page never asks for the next page of the list.
FirstPage(u) == [i \in 1..Min({PageSize, Len(messages)}) |-> i]

Poll(u) ==
  /\ polled[u] = NoAnswer
  /\ polled' = [polled EXCEPT ![u] = FirstPage(u)]
  /\ UNCHANGED <<sending, onSockets, shown, online>>

ShowPolled(u) ==
  /\ polled[u] # NoAnswer
  /\ shown' = [shown EXCEPT ![u] = AppendNew(@, polled[u])]
  /\ polled' = [polled EXCEPT ![u] = NoAnswer]
  /\ UNCHANGED <<sending, onSockets, online>>

LosePolled(u) ==
  /\ polled[u] # NoAnswer
  /\ polled' = [polled EXCEPT ![u] = NoAnswer]
  /\ UNCHANGED <<sending, onSockets, shown, online>>

\* The page is closed or loaded anew.
ReloadPage(u) ==
  /\ shown[u] # <<>>
  /\ shown' = [shown EXCEPT ![u] = <<>>]
  /\ polled' = [polled EXCEPT ![u] = NoAnswer]
  /\ posted[u] = NotPosting
  /\ UNCHANGED <<sending, onSockets, online>>

-----------------------------------------------------------------------------
ChatNext ==
  \/ \E s \in Socket :
       \/ Connect(s) \/ SetOnline(s) \/ Disconnect(s) \/ SetOffline(s) \/ LoseSocket(s)
       \/ Heartbeat(s) \/ CreateMessage(s) \/ SendEvent(s) \/ DeliverEvent(s)
  \/ \E u \in Reader :
       \/ PostMessage(u) \/ BroadcastPosted(u) \/ ShowPosted(u) \/ LosePosted(u)
       \/ Poll(u) \/ ShowPolled(u) \/ LosePolled(u) \/ ReloadPage(u)
  \/ \E u \in Party : ExpirePresence(u)

\* Consumers go on with what they do, clients send heartbeats and the page
\* polls by timers, answers are not lost for ever, and the cache drops what is
\* too old.
Fairness ==
  /\ \A s \in Socket : WF_chatVars(SetOffline(s)) /\ WF_chatVars(SendEvent(s)) /\ SF_chatVars(Heartbeat(s))
  /\ \A u \in Reader : WF_chatVars(Poll(u)) /\ SF_chatVars(ShowPolled(u))
  /\ \A u \in Party : WF_chatVars(ExpirePresence(u))

ChatSpec == ChatInit /\ [][ChatNext]_chatVars /\ Fairness

-----------------------------------------------------------------------------
(* What holds *)

OnTheWay(id, s) ==
  \/ Contains(inbox[s], id)
  \/ \E t \in Socket : toSend[t] = id
  \/ \E u \in Reader : posted[u] = [id |-> id, step |-> "created"]

\* An open socket's client has had every message since it joined, or will be
\* sent it, unless the process was lost between the row and its event; and no
\* message twice.
NothingMissed ==
  \A s \in Socket : sockets[s] = "open" =>
    /\ \A id \in DOMAIN messages : id > since[s] =>
         Contains(screen[s], id) \/ OnTheWay(id, s) \/ id \in lost
    /\ IsInjective(screen[s] \o inbox[s])

\* The page shows no message twice, though the answer to the customer's own
\* message and the answer to a poll both bring it, in either order.
ShownOnce == \A u \in Reader : IsInjective(shown[u])

\* Every message of the list's first page comes to be shown on the page,
\* however many answers are lost and whether or not its event was sent.
MessagesArrive ==
  \A u \in Reader : \A id \in 1..PageSize :
    (id \in DOMAIN messages) ~> Contains(shown[u], id)

\* A party that stays connected is taken for online again and again, even
\* after another of its tabs was closed; one that is gone for good comes to be
\* offline for good, even if its process was lost.
PresenceSettles ==
  \A u \in Party :
    /\ []<>(online[u] \/ ~Connected(u))
    /\ <>[](\A s \in Socket : PartyOf[s] = u => sockets[s] = "closed") => <>[]~online[u]

=============================================================================
