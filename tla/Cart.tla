-------------------------------- MODULE Cart --------------------------------
(***************************************************************************)
(* Carts of customers and of guests: cart.services, the views that call it *)
(* and the task that sweeps old guest carts away.                          *)
(*                                                                         *)
(* A line is read in one statement and written in another, so a request    *)
(* works on what it has read.  Merging a guest's cart into a customer's is *)
(* one transaction: what it wrote so far is seen by no one else, and the   *)
(* rows it wrote stay locked until it commits.  What a request has read is  *)
(* in its job, which has the fields its kind needs.                        *)
(***************************************************************************)
EXTENDS Requests, Integers, FiniteSets, FiniteSetsExt, Functions

CONSTANTS
  User,       \* customers, each with one cart
  Guest,      \* tokens of guest carts
  Article,    \* a product together with a variant or none
  Plain,      \* the articles without a variant: the table's constraint skips them
  Line,       \* primary keys of cart lines
  NoLine,     \* a line that is not there
  MostUnits,  \* MostUnits[s]: the most units the look at the stock lets pass
  Overlap,    \* may several merges of one guest cart run at a time?
  MaxAsked    \* bound: MaxAsked[s]: units of an article customers ever ask for

ASSUME CartAssumption ==
  /\ User \cap Guest = {}
  /\ Plain \subseteq Article
  /\ IsFiniteSet(Line) /\ NoLine \notin Line
  /\ MostUnits \in [Article -> Nat]
  /\ Overlap \in BOOLEAN
  /\ MaxAsked \in [Article -> Nat]

VARIABLES
  items,   \* items[k]: CartItem, or NoLine
  guests,  \* guests[g]: is there a cart with this token?
  asked    \* history: asked[s]: units customers added, or raised a line by

cartVars == <<items, guests, calls, asked>>

Owners == User \cup Guest
CartItem == [cart : Owners, sku : Article, units : Nat \ {0}]
Contents == [Line -> CartItem \cup {NoLine}]
NoRows == [k \in Line |-> NoLine]
There(rows) == {k \in Line : rows[k] # NoLine}
Without(rows, gone) == [k \in Line |-> IF k \in gone THEN NoLine ELSE rows[k]]

\* units: what the request will write; more: by how much it was to raise it.
AddJob ==
  [do : {"add"}, cart : Owners, sku : Article, line : Line \cup {NoLine},
   units : Nat \ {0}, more : Nat]
SetJob == [do : {"set"}, line : Line, units : Nat \ {0}]
RemoveJob == [do : {"remove"}, line : Line]

\* left: lines of the guest's cart still to merge, as they were read.
\* added: those whose units the customer's lines got.
\* wrote: rows written and not yet committed.
FindJob ==
  [do : {"find"}, user : User, guest : Guest, left : Contents, added : SUBSET Line,
   wrote : Contents]

\* onto: the customer's line found for the guest's line, to get those units.
MergeJob ==
  [do : {"merge"}, user : User, guest : Guest, left : Contents, added : SUBSET Line,
   wrote : Contents, line : Line, onto : Line \cup {NoLine}, units : Nat \ {0}]

CartJob == AddJob \cup SetJob \cup RemoveJob \cup FindJob \cup MergeJob

ASSUME NothingAssumption == Idle \notin CartJob /\ NoLine \notin CartItem

CartTypeOK ==
  /\ items \in Contents
  /\ guests \in [Guest -> {"none", "live", "gone"}]
  /\ calls \in [Call -> CartJob \cup {Idle}]
  /\ asked \in [Article -> Nat]

CartInit ==
  /\ items = NoRows
  /\ guests = [g \in Guest |-> "none"]
  /\ calls = [c \in Call |-> Idle]
  /\ asked = [s \in Article |-> 0]

-----------------------------------------------------------------------------
(* Rows, locks and constraints *)

Live(cart) == cart \in Guest => guests[cart] = "live"

Merges(c) == Does(c, "find") \/ Does(c, "merge")

\* The row as request c sees it: its own writes, or else what is committed.
Seen(c, k) ==
  IF Merges(c) /\ k \in There(calls[c].wrote) THEN calls[c].wrote[k] ELSE items[k]

InCart(c, cart) == {k \in Line : Seen(c, k) # NoLine /\ Seen(c, k).cart = cart}
LinesOf(c, cart, s) == {k \in InCart(c, cart) : Seen(c, k).sku = s}

Holds(c, k) == Merges(c) /\ k \in There(calls[c].wrote)
Locked(c, k) == \E d \in Call \ {c} : Holds(d, k)

\* No committed or uncommitted row has the cart, the product and the variant.
Unique(cart, s, k) ==
  s \in Plain \/ \A c \in Call : LinesOf(c, cart, s) \subseteq {k}

\* The keys a request works on.  A new line gets a new key, for which one that
\* nobody remembers will do.
Remembered(c) ==
  (IF Merges(c) THEN There(calls[c].left) \cup calls[c].added ELSE {}) \cup
  (IF Does(c, "merge") THEN {calls[c].onto} ELSE {}) \cup
  (IF Does(c, "add") \/ Does(c, "set") \/ Does(c, "remove") THEN {calls[c].line} ELSE {})

Fresh(k) == items[k] = NoLine /\ \A c \in Call : k \notin Remembered(c)

\* first() by -added_at: with several such lines, whichever is the newest.
Found(c, cart, s) ==
  LET there == LinesOf(c, cart, s) IN IF there = {} THEN {NoLine} ELSE there

UnitsSeen(c, k) == IF k = NoLine THEN 0 ELSE Seen(c, k).units

Ask(s, n) == asked[s] + n <= MaxAsked[s] /\ asked' = [asked EXCEPT ![s] = @ + n]

-----------------------------------------------------------------------------
(* Adding, changing and removing lines *)

\* "Quantity must be at least 1", and no more than the stock has.
Quantities(s) == 1..MostUnits[s]

NewGuestCart(g) ==
  /\ guests[g] = "none"
  /\ guests' = [guests EXCEPT ![g] = "live"]
  /\ UNCHANGED <<items, calls, asked>>

ReadForAdd(c, cart, s) ==
  /\ calls[c] = Idle /\ Live(cart)
  /\ \E k \in Found(c, cart, s), n \in Quantities(s) :
       /\ UnitsSeen(c, k) + n \in Quantities(s)
       /\ Begin(c, [do |-> "add", cart |-> cart, sku |-> s, line |-> k,
                    units |-> UnitsSeen(c, k) + n, more |-> n])
  /\ UNCHANGED <<items, guests, asked>>

\* The line found before is written by its key, whatever cart it is in by now.
WriteUnits(c) ==
  LET job == calls[c] IN
  /\ Does(c, "add") /\ job.line # NoLine
  /\ items[job.line] # NoLine /\ ~Locked(c, job.line)
  /\ items' = [items EXCEPT ![job.line].units = job.units]
  /\ Ask(job.sku, job.more)
  /\ End(c)
  /\ UNCHANGED guests

InsertLine(c) ==
  LET job == calls[c] IN
  /\ Does(c, "add") /\ job.line = NoLine
  /\ Live(job.cart)
  /\ \E k \in Line :
       /\ Fresh(k) /\ Unique(job.cart, job.sku, k)
       /\ items' = [items EXCEPT ![k] =
            [cart |-> job.cart, sku |-> job.sku, units |-> job.units]]
  /\ Ask(job.sku, job.more)
  /\ End(c)
  /\ UNCHANGED guests

\* PATCH and DELETE of a line find it in the caller's cart.
ReadLine(c, k, job) ==
  /\ items[k] # NoLine
  /\ Begin(c, job)
  /\ UNCHANGED <<items, guests, asked>>

ReadForSet(c, k) ==
  /\ items[k] # NoLine
  /\ \E n \in Quantities(items[k].sku) : ReadLine(c, k, [do |-> "set", line |-> k, units |-> n])

ReadForRemove(c, k) == ReadLine(c, k, [do |-> "remove", line |-> k])

SetUnits(c) ==
  LET k == calls[c].line IN
  /\ Does(c, "set")
  /\ items[k] # NoLine /\ ~Locked(c, k)
  /\ items' = [items EXCEPT ![k].units = calls[c].units]
  /\ Ask(items[k].sku, Max({0, calls[c].units - items[k].units}))
  /\ End(c)
  /\ UNCHANGED guests

DeleteLine(c) ==
  /\ Does(c, "remove")
  /\ ~Locked(c, calls[c].line)
  /\ items' = [items EXCEPT ![calls[c].line] = NoLine]
  /\ End(c)
  /\ UNCHANGED <<guests, asked>>

Stored(cart) == {k \in There(items) : items[k].cart = cart}

\* clear_cart, by the customer or at the end of a checkout.
ClearCart(cart) ==
  /\ \A k \in Stored(cart), c \in Call : ~Holds(c, k)
  /\ items' = Without(items, Stored(cart))
  /\ UNCHANGED <<guests, calls, asked>>

\* The task looks at the cart row's updated_at.  A change of a line does not
\* touch that row, so a cart in use is as old as an abandoned one.
SweepGuestCart(g) ==
  /\ guests[g] = "live"
  /\ \A k \in Stored(g), c \in Call : ~Holds(c, k)
  /\ items' = Without(items, Stored(g))
  /\ guests' = [guests EXCEPT ![g] = "gone"]
  /\ UNCHANGED <<calls, asked>>

-----------------------------------------------------------------------------
(* Merging a guest's cart *)

StartMerge(c, u, g) ==
  /\ guests[g] = "live"
  /\ Overlap \/ \A d \in Call : Merges(d) => calls[d].guest # g
  /\ Begin(c, [do |-> "find", user |-> u, guest |-> g,
               left |-> Without(items, Line \ Stored(g)), added |-> {}, wrote |-> NoRows])
  /\ UNCHANGED <<items, guests, asked>>

\* The customer's line of the same sku, if there is one.  The guest's line may
\* be another by now, or gone: what counts is how it was read.
FindExisting(c, k) ==
  LET job == calls[c] IN
  /\ Does(c, "find") /\ k \in There(job.left)
  /\ \E onto \in Found(c, job.user, job.left[k].sku) :
       calls' = [calls EXCEPT ![c] =
            [do |-> "merge", user |-> job.user, guest |-> job.guest, left |-> job.left,
             added |-> job.added, wrote |-> job.wrote, line |-> k, onto |-> onto,
             units |-> UnitsSeen(c, onto) + job.left[k].units]]
  /\ UNCHANGED <<items, guests, asked>>

\* Line k is written in the transaction, and the guest's line done with.
Wrote(c, k, row) ==
  LET job == calls[c] IN
  /\ ~Locked(c, k)
  /\ calls' = [calls EXCEPT ![c] =
       [do |-> "find", user |-> job.user, guest |-> job.guest,
        left |-> Without(job.left, {job.line}), added |-> job.added \cup ({job.line} \ {k}),
        wrote |-> [job.wrote EXCEPT ![k] = row]]]
  /\ UNCHANGED <<items, guests, asked>>

AddToExisting(c) ==
  LET job == calls[c] IN
  /\ Does(c, "merge") /\ job.onto # NoLine
  /\ Seen(c, job.onto) # NoLine
  /\ Wrote(c, job.onto, [Seen(c, job.onto) EXCEPT !.units = job.units])

\* The guest's line moves as it is by now.
MoveLine(c) ==
  LET job == calls[c]
      row == items[job.line]
  IN
  /\ Does(c, "merge") /\ job.onto = NoLine
  /\ row # NoLine /\ Unique(job.user, row.sku, job.line)
  /\ Wrote(c, job.line, [row EXCEPT !.cart = job.user])

\* Mutant: the lines added to the customer's stay behind.
DeletedNone(c) == InCart(c, calls[c].guest) \cap InCart(c, calls[c].user)

\* guest_cart.delete() takes the lines left in it along.
Deleted(c) == InCart(c, calls[c].guest)

FinishMerge(c) ==
  /\ Does(c, "find") /\ calls[c].left = NoRows
  /\ \A k \in Deleted(c) : ~Locked(c, k)
  /\ items' = Without([k \in Line |-> Seen(c, k)], Deleted(c))
  /\ guests' = [guests EXCEPT ![calls[c].guest] = "gone"]
  /\ End(c)
  /\ UNCHANGED asked

-----------------------------------------------------------------------------

\* A refusal, a row that is gone, a violated constraint, a deadlock's victim or
\* a lost process: nothing of the request is kept.
DropCall(c) ==
  /\ calls[c] # Idle
  /\ End(c)
  /\ UNCHANGED <<items, guests, asked>>

CartNext ==
  \/ \E g \in Guest : NewGuestCart(g) \/ SweepGuestCart(g)
  \/ \E cart \in Owners : ClearCart(cart)
  \/ \E c \in Call :
       \/ \E cart \in Owners, s \in Article : ReadForAdd(c, cart, s)
       \/ \E k \in Line : ReadForSet(c, k) \/ ReadForRemove(c, k)
       \/ WriteUnits(c) \/ InsertLine(c) \/ SetUnits(c) \/ DeleteLine(c)
       \/ \E u \in User, g \in Guest : StartMerge(c, u, g)
       \/ \E k \in Line : FindExisting(c, k)
       \/ AddToExisting(c) \/ MoveLine(c) \/ FinishMerge(c)
       \/ DropCall(c)

CartSpec == CartInit /\ [][CartNext]_cartVars

-----------------------------------------------------------------------------
(* Properties *)

\* No unit is counted twice: however adding, changing, merging, sweeping and
\* clearing interleave, the carts never hold more units of a product than were
\* asked for (test_merge_sums_overlapping_items, cart/tests.py).
NothingCountedTwice ==
  \A s \in Article :
    LET held == {k \in There(items) : items[k].sku = s}
    IN  SumFunctionOnSet([k \in held |-> items[k].units], held) <= asked[s]

=============================================================================
