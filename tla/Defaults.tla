------------------------------ MODULE Defaults ------------------------------
(***************************************************************************)
(* A user's default address, for shipping and for billing: creating,       *)
(* changing, choosing and deleting addresses (accounts.services).          *)
(*                                                                         *)
(* Each request is a transaction under READ COMMITTED: a statement sees    *)
(* the rows committed when it starts and the transaction's own, and waits  *)
(* for rows that another transaction has written.  No constraint says that *)
(* a flag is set once: the services clear it everywhere, then set it.      *)
(***************************************************************************)
EXTENDS Integers, FiniteSets, FiniteSetsExt

CONSTANTS
  Item,   \* primary keys of the user's rows, numbers in the order of created_at
  Flag,   \* the flags, numbered in the order in which the services clear them
  Call,   \* the requests that may be running at one time
  Idle    \* what a call that is not running does

VARIABLES
  rows,    \* rows[i]: is the row there, and which flags has it?
  calls,   \* calls[c]: a request's transaction, or Idle
  used,    \* keys given so far: none is given twice
  unset,   \* history: flags the user took off the default row
  crossed  \* history: flags that may be wrong since requests overlapped

vars == <<rows, calls, used, unset, crossed>>

Row == [there : BOOLEAN, flags : SUBSET Flag]
Absent == [there |-> FALSE, flags |-> {}]
With(flags) == [there |-> TRUE, flags |-> flags]

\* on: the request's row; was: its flags as loaded; to: the flags to set;
\* left: those still to clear; found: rows a statement works on; wrote: the
\* uncommitted rows; locks: their keys; shared: did another request overlap?
Job ==
  [do : {"clear", "clearing", "create", "update", "choose", "delete", "replace", "promote"},
   then : {"create", "update", "choose", "delete"},
   on : Item, was : SUBSET Flag, to : SUBSET Flag, left : SUBSET Flag,
   found : SUBSET Item, wrote : [Item -> Row], locks : SUBSET Item, shared : BOOLEAN]

\* Keys and flags are numbers, and a request that runs is not idle.
Numbered ==
  /\ Item \subseteq Int /\ IsFiniteSet(Item)
  /\ Flag \subseteq Int /\ IsFiniteSet(Flag)
  /\ Idle \notin Job

TypeOK ==
  /\ rows \in [Item -> Row]
  /\ calls \in [Call -> Job \cup {Idle}]
  /\ used \subseteq Item /\ unset \subseteq Flag /\ crossed \subseteq Flag

Init ==
  /\ rows = [i \in Item |-> Absent]
  /\ calls = [c \in Call |-> Idle]
  /\ used = {} /\ unset = {} /\ crossed = {}

-----------------------------------------------------------------------------
(* Transactions *)

Does(c, what) == calls[c] # Idle /\ calls[c].do = what
Running == {c \in Call : calls[c] # Idle}

\* What a statement of c sees.
Seen(c, i) == IF i \in calls[c].locks THEN calls[c].wrote[i] ELSE rows[i]
There(c) == {i \in Item : Seen(c, i).there}

Locked(c, keys) == \E d \in Running \ {c} : calls[d].locks \cap keys # {}

Begin(c, then, i, was, to) ==
  /\ calls[c] = Idle
  /\ LET job == [do |-> IF to = {} \/ then = "delete" THEN then ELSE "clear", then |-> then,
                 on |-> i, was |-> was, to |-> to, left |-> to, found |-> {},
                 wrote |-> [k \in Item |-> Absent], locks |-> {}, shared |-> Running # {}]
     IN calls' = [d \in Call |->
          IF d = c THEN job
          ELSE IF calls[d] = Idle THEN Idle ELSE [calls[d] EXCEPT !.shared = TRUE]]
  /\ UNCHANGED <<rows, unset, crossed>>

Goes(c, next) == calls' = [calls EXCEPT ![c] = next] /\ UNCHANGED <<rows, used, unset, crossed>>

Writing(job, i, row) == [job EXCEPT !.wrote[i] = row, !.locks = @ \cup {i}]

\* The transaction writes its last row and commits: settled are the flags it
\* has set or cleared for certain, dropped those it took off by request.
Commit(c, i, row, settled, dropped) ==
  LET job == Writing(calls[c], i, row) IN
  /\ rows' = [k \in Item |-> IF k \in job.locks THEN job.wrote[k] ELSE rows[k]]
  /\ crossed' = IF job.shared THEN Flag ELSE crossed \ settled
  /\ unset' = (unset \ settled) \cup dropped
  /\ calls' = [calls EXCEPT ![c] = Idle]
  /\ UNCHANGED used

-----------------------------------------------------------------------------
(* Requests *)

\* The first address becomes the default for everything.
StartCreate(c) ==
  /\ used # Item
  /\ LET i == Min(Item \ used) IN \E asked \in SUBSET Flag :
       /\ used' = used \cup {i}
       /\ Begin(c, "create", i, {}, IF \E k \in Item : rows[k].there THEN asked ELSE Flag)

\* The view loads the row, before the transaction.
LoadToUpdate(c, i) ==
  /\ rows[i].there
  /\ \E to \in SUBSET Flag : Begin(c, "update", i, rows[i].flags, to)
  /\ UNCHANGED used

LoadToChoose(c, i) ==
  /\ rows[i].there
  /\ \E f \in Flag : Begin(c, "choose", i, {}, {f})
  /\ UNCHANGED used

LoadToDelete(c, i) ==
  /\ rows[i].there
  /\ Begin(c, "delete", i, rows[i].flags, {})
  /\ UNCHANGED used

\* _clear_default: the statement finds the rows that have the flag, ...
FindToClear(c) ==
  LET job == calls[c]
      f   == Min(job.left) IN
  /\ Does(c, "clear")
  /\ Goes(c, [job EXCEPT !.do = "clearing", !.found = {i \in There(c) : f \in Seen(c, i).flags}])

\* Mutant: the flag is cleared on the request's own row only.
ToClearOwn(c) == {calls[c].on} \cap There(c)

\* ... waits for them, and writes those that have the flag still.
ToClear(c) ==
  {i \in calls[c].found : Seen(c, i).there /\ Min(calls[c].left) \in Seen(c, i).flags}

ClearFlag(c) ==
  LET job  == calls[c]
      f    == Min(job.left)
      left == job.left \ {f} IN
  /\ Does(c, "clearing")
  /\ ~Locked(c, job.found)
  /\ Goes(c, [job EXCEPT !.left = left, !.do = IF left = {} THEN job.then ELSE "clear",
                         !.found = {}, !.locks = @ \cup ToClear(c),
                         !.wrote = [i \in Item |-> IF i \in ToClear(c)
                                                   THEN With(Seen(c, i).flags \ {f})
                                                   ELSE job.wrote[i]]])

CreateRow(c) ==
  /\ Does(c, "create")
  /\ Commit(c, calls[c].on, With(calls[c].to), calls[c].to, {})

\* save() writes every column: the flags that the request does not name as
\* they were loaded; a row deleted meanwhile is inserted again.
UpdateRow(c) ==
  LET job == calls[c] IN
  /\ Does(c, "update") /\ ~Locked(c, {job.on})
  /\ \E off \in SUBSET (Flag \ job.to) :
       Commit(c, job.on, With((job.was \cup job.to) \ off), job.to, job.was \cap off)

ChooseRow(c) ==
  LET job == calls[c] IN
  /\ Does(c, "choose") /\ ~Locked(c, {job.on}) /\ job.on \in There(c)
  /\ Commit(c, job.on, With(Seen(c, job.on).flags \cup job.to), job.to, {})

DeleteRow(c) ==
  LET job == calls[c] IN
  /\ Does(c, "delete") /\ ~Locked(c, {job.on})
  /\ IF job.was = {} THEN Commit(c, job.on, Absent, {}, {})
     ELSE Goes(c, [Writing(job, job.on, Absent) EXCEPT !.do = "replace"])

FindReplacement(c) ==
  /\ Does(c, "replace")
  /\ IF There(c) = {} THEN Commit(c, calls[c].on, Absent, {}, {})
     ELSE Goes(c, [calls[c] EXCEPT !.do = "promote", !.found = {Max(There(c))}])

\* The replacement gets the flags that the deleted row had when loaded.
Promoted(was) == was

PromoteReplacement(c) ==
  LET job == calls[c]
      i   == Max(job.found) IN
  /\ Does(c, "promote") /\ ~Locked(c, job.found) /\ i \in There(c)
  /\ Commit(c, i, With(Seen(c, i).flags \cup Promoted(job.was)), {}, {})

\* A lost process, a deadlock, a row that is gone: the transaction is undone.
RollBack(c) == calls[c] # Idle /\ Goes(c, Idle)

-----------------------------------------------------------------------------
Next == \E c \in Call :
  \/ StartCreate(c)
  \/ \E i \in Item : LoadToUpdate(c, i) \/ LoadToChoose(c, i) \/ LoadToDelete(c, i)
  \/ FindToClear(c) \/ ClearFlag(c)
  \/ CreateRow(c) \/ UpdateRow(c) \/ ChooseRow(c)
  \/ DeleteRow(c) \/ FindReplacement(c) \/ PromoteReplacement(c) \/ RollBack(c)

Spec == Init /\ [][Next]_vars

-----------------------------------------------------------------------------
(* What holds *)

DefaultsFor(f) == {i \in Item : rows[i].there /\ f \in rows[i].flags}

\* While there are addresses exactly one is the default for each purpose,
\* unless the user took the flag off, and unless requests overlapped since the
\* flag was last set by a request that met no other.
OneDefault ==
  \A f \in Flag \ crossed :
    /\ Cardinality(DefaultsFor(f)) <= 1
    /\ DefaultsFor(f) = {} => f \in unset \/ \A i \in Item : ~rows[i].there

=============================================================================
