------------------------------- MODULE Entries -------------------------------
(***************************************************************************)
(* Rows that a request looks for and makes when they are missing: an entry *)
(* of a customer's wishlist (reviews.services.toggle_wishlist), an address *)
(* on the newsletter's list (marketing.services) and the conversation of a *)
(* customer with a store (chat.services.get_or_create_conversation).       *)
(*                                                                         *)
(* The look and the write are two statements.  A wish and an address have  *)
(* a unique constraint, a conversation has none.                           *)
(***************************************************************************)
EXTENDS Requests, FiniteSets, Naturals

CONSTANTS
  Wish,          \* a customer and a product
  Address,       \* e-mail addresses
  Conversation,  \* a customer and a store, or a ticket
  Pk,            \* primary keys
  NoRow          \* a row that is not there

VARIABLES
  rows,   \* rows[k]: the entry that row k is for, and is it active? or NoRow
  told,   \* told[e]: the last answer about entry e, or Idle
  raced   \* history: entries inserted after another insert was missed

entryVars == <<rows, told, raced>>

Entry == Wish \cup Address \cup Conversation
EntryRow == [entry : Entry, active : BOOLEAN]
Answer == [listed : BOOLEAN, old : BOOLEAN]
EntryJobs ==
  [do : {"wish", "unwish", "create", "activate", "deactivate", "start"},
   on : Entry, row : Pk \cup {NoRow}, old : BOOLEAN]

EntriesTypeOK ==
  /\ rows \in [Pk -> EntryRow \cup {NoRow}]
  /\ told \in [Entry -> Answer \cup {Idle}]
  /\ raced \subseteq Conversation

EntriesInit ==
  /\ rows = [k \in Pk |-> NoRow]
  /\ told = [e \in Entry |-> Idle]
  /\ raced = {}

-----------------------------------------------------------------------------
RowsOf(e) == {k \in Pk : rows[k] # NoRow /\ rows[k].entry = e}
Listed(e) == \E k \in RowsOf(e) : rows[k].active

\* A key that no request remembers.
Fresh(k) == rows[k] = NoRow /\ \A c \in Call : calls[c] # Idle => calls[c].row # k

Looks(c, do, e, k) == Begin(c, Job(do, e, k)) /\ UNCHANGED entryVars

\* The last statement of a request, and its answer.
Tells(e, listed, old) == told' = [told EXCEPT ![e] = [listed |-> listed, old |-> old]]
Writes(c, new, listed) ==
  /\ rows' = new
  /\ Saved(c, calls[c].on, Idle)
  /\ Tells(calls[c].on, listed, calls[c].old)

Insert(c) ==
  \E k \in Pk : Fresh(k) /\ Writes(c, [rows EXCEPT ![k] = [entry |-> calls[c].on, active |-> TRUE]], TRUE)

\* Nothing to write: found as asked.
TellsAtOnce(c, e, listed) == calls[c] = Idle /\ Tells(e, listed, FALSE) /\ UNCHANGED <<calls, rows, raced>>

-----------------------------------------------------------------------------
(* The wishlist *)

LookForWish(c, e) ==
  \/ RowsOf(e) = {} /\ Looks(c, "wish", e, NoRow)
  \/ \E k \in RowsOf(e) : Looks(c, "unwish", e, k)

\* Mutant: the table has no constraint.
UniqueNever(e) == e \in Entry

Unique(e) == RowsOf(e) = {}

AddWish(c) ==
  /\ Does(c, "wish") /\ Unique(calls[c].on)
  /\ Insert(c)
  /\ UNCHANGED raced

\* The row that was found, though it may be another's by now, or gone.
RemoveWish(c) ==
  /\ Does(c, "unwish")
  /\ Writes(c, [rows EXCEPT ![calls[c].row] = NoRow], FALSE)
  /\ UNCHANGED raced

-----------------------------------------------------------------------------
(* The newsletter *)

Subscribe(c, e) ==
  \/ RowsOf(e) = {} /\ Looks(c, "create", e, NoRow)
  \/ \E k \in RowsOf(e) :
       IF rows[k].active THEN TellsAtOnce(c, e, TRUE) ELSE Looks(c, "activate", e, k)

\* get_or_create: if somebody was faster, the row is looked for once more.
CreateAddress(c) ==
  LET e == calls[c].on IN
  /\ Does(c, "create") /\ UNCHANGED raced
  /\ \/ Unique(e) /\ Insert(c)
     \/ \E k \in RowsOf(e) :
          IF rows[k].active THEN End(c) /\ Tells(e, TRUE, FALSE) /\ UNCHANGED rows
          ELSE Goes(c, Job("activate", e, k)) /\ UNCHANGED <<rows, told>>

Unsubscribe(c, e) ==
  \/ ~Listed(e) /\ TellsAtOnce(c, e, FALSE)
  \/ \E k \in RowsOf(e) : rows[k].active /\ Looks(c, "deactivate", e, k)

\* save(update_fields=["is_active", ...]), to what was decided at the look.
SetActive(c) ==
  LET active == calls[c].do = "activate" IN
  /\ Does(c, "activate") \/ Does(c, "deactivate")
  /\ Writes(c, [rows EXCEPT ![calls[c].row].active = active], active)
  /\ UNCHANGED raced

-----------------------------------------------------------------------------
(* Conversations *)

\* get() wants one row: with two of them the request fails, and always will.
FindConversation(c, e) ==
  \/ RowsOf(e) = {} /\ Looks(c, "start", e, NoRow)
  \/ Cardinality(RowsOf(e)) = 1 /\ TellsAtOnce(c, e, TRUE)

StartConversation(c) ==
  /\ Does(c, "start")
  /\ Insert(c)
  /\ raced' = IF RowsOf(calls[c].on) # {} THEN raced \cup {calls[c].on} ELSE raced

-----------------------------------------------------------------------------
\* A violated constraint or a lost process.
DropLook(c) == calls[c] # Idle /\ End(c) /\ UNCHANGED entryVars

EntriesNext ==
  \E c \in Call :
    \/ \E e \in Wish : LookForWish(c, e)
    \/ \E e \in Address : Subscribe(c, e) \/ Unsubscribe(c, e)
    \/ \E e \in Conversation : FindConversation(c, e)
    \/ AddWish(c) \/ RemoveWish(c) \/ CreateAddress(c) \/ SetActive(c) \/ StartConversation(c)
    \/ DropLook(c)

-----------------------------------------------------------------------------
(* What holds *)

\* What a customer was told last is how it is: on the list or not, unless the
\* entry was written by somebody else between that request's look and its
\* write; and an entry has one row, "starting same conversation twice reuses it"
\* (chat/tests.py) too, unless a second start had looked before the first one
\* was written.
EntriesAsTold ==
  \A e \in Entry :
    /\ told[e] # Idle /\ ~told[e].old => (told[e].listed <=> Listed(e))
    /\ Cardinality(RowsOf(e)) > 1 => e \in raced

=============================================================================
