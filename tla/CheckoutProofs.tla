--------------------------- MODULE CheckoutProofs ---------------------------
(***************************************************************************)
(* What Cart guarantees for any number of lines and requests, and Checkout *)
(* for any number of requests, customers, products, warehouses and coupon  *)
(* limits.                                                                 *)
(***************************************************************************)
EXTENDS Cart, Checkout, SumProofs, FiniteSetTheorems, TLAPS

-----------------------------------------------------------------------------
(* Carts: types *)

LEMMA Jobs ==
  ASSUME CartTypeOK, NEW c \in Call
  PROVE  /\ Does(c, "add") => calls[c] \in AddJob
         /\ Does(c, "set") => calls[c] \in SetJob
         /\ Does(c, "remove") => calls[c] \in RemoveJob
         /\ Does(c, "find") => calls[c] \in FindJob
         /\ Does(c, "merge") => calls[c] \in MergeJob
         /\ Merges(c) => /\ calls[c].user \in User /\ calls[c].guest \in Guest
                         /\ calls[c].left \in Contents /\ calls[c].wrote \in Contents
                         /\ calls[c].added \in SUBSET Line
<1>1. calls[c] \in CartJob \cup {Idle}
  BY DEF CartTypeOK
<1>2. \A job \in AddJob : job.do = "add"
  BY DEF AddJob
<1>3. \A job \in SetJob : job.do = "set"
  BY DEF SetJob
<1>4. \A job \in RemoveJob : job.do = "remove"
  BY DEF RemoveJob
<1>5. \A job \in FindJob : job.do = "find"
  BY DEF FindJob
<1>6. \A job \in MergeJob : job.do = "merge"
  BY DEF MergeJob
<1>7. /\ Does(c, "add") => calls[c] \in AddJob
      /\ Does(c, "set") => calls[c] \in SetJob
      /\ Does(c, "remove") => calls[c] \in RemoveJob
      /\ Does(c, "find") => calls[c] \in FindJob
      /\ Does(c, "merge") => calls[c] \in MergeJob
  BY <1>1, <1>2, <1>3, <1>4, <1>5, <1>6 DEF CartJob, Does
<1>8. \A job \in FindJob \cup MergeJob :
        /\ job.user \in User /\ job.guest \in Guest
        /\ job.left \in Contents /\ job.wrote \in Contents /\ job.added \in SUBSET Line
  BY DEF FindJob, MergeJob
<1>9. QED  BY <1>7, <1>8 DEF Merges

LEMMA SeenRows ==
  ASSUME CartTypeOK, NEW c \in Call, NEW k \in Line
  PROVE  /\ items[k] \in CartItem \cup {NoLine}
         /\ Seen(c, k) \in CartItem \cup {NoLine}
         /\ Merges(c) => /\ calls[c].left[k] \in CartItem \cup {NoLine}
                         /\ calls[c].wrote[k] \in CartItem \cup {NoLine}
  BY Jobs DEF Seen, CartTypeOK, Contents, There

LEMMA WithoutRows ==
  ASSUME NEW rows \in Contents, NEW gone
  PROVE  Without(rows, gone) \in Contents
  BY DEF Without, Contents

\* What MaxAsked counts when a line is given another number of units.
LEMMA MaxOrNone ==
  ASSUME NEW n \in Int
  PROVE  /\ Max({0, n}) \in Nat /\ n <= Max({0, n})
<1>1. \E m \in {0, n} : \A x \in {0, n} : m >= x
  <2>1. CASE n >= 0
    BY <2>1
  <2>2. CASE ~ n >= 0
    BY <2>2
  <2>3. QED  BY <2>1, <2>2
<1>2. Max({0, n}) \in {0, n} /\ \A x \in {0, n} : Max({0, n}) >= x
  BY <1>1 DEF Max
<1>3. QED  BY <1>2

LEMMA Asking ==
  ASSUME CartTypeOK, NEW s \in Article, NEW n \in Nat, Ask(s, n)
  PROVE  /\ asked' \in [Article -> Nat]
         /\ \A t \in Article : asked'[t] = asked[t] + IF s = t THEN n ELSE 0
  BY DEF Ask, CartTypeOK

\* The job of a merge that has found the line for the guest's line k, and that
\* of one that has written a row.
LEMMA FindFields ==
  ASSUME CartTypeOK, NEW c \in Call, NEW k \in Line, FindExisting(c, k)
  PROVE  LET was == calls[c]
             job == calls'[c]
         IN  /\ was \in FindJob /\ k \in There(was.left) /\ was.left[k] \in CartItem
             /\ job \in MergeJob /\ calls' = [calls EXCEPT ![c] = job]
             /\ job.user = was.user /\ job.guest = was.guest /\ job.left = was.left
             /\ job.added = was.added /\ job.wrote = was.wrote /\ job.line = k
             /\ job.onto \in Found(c, was.user, was.left[k].sku)
             /\ job.units = UnitsSeen(c, job.onto) + was.left[k].units
<1> DEFINE was == calls[c]
<1>1. was \in FindJob /\ k \in There(was.left)
  BY Jobs DEF FindExisting
<1>2. was.left[k] \in CartItem
  BY <1>1 DEF FindJob, Contents, There
<1>3. PICK onto \in Found(c, was.user, was.left[k].sku) :
        calls' = [calls EXCEPT ![c] =
          [do |-> "merge", user |-> was.user, guest |-> was.guest, left |-> was.left,
           added |-> was.added, wrote |-> was.wrote, line |-> k, onto |-> onto,
           units |-> UnitsSeen(c, onto) + was.left[k].units]]
  BY DEF FindExisting
<1>4. onto \in Line \cup {NoLine} /\ (onto # NoLine => Seen(c, onto) # NoLine)
  BY <1>3 DEF Found, LinesOf, InCart
<1>5. UnitsSeen(c, onto) \in Nat
  <2>1. \A row \in CartItem : row.units \in Nat
    BY DEF CartItem
  <2>2. QED  BY <1>4, <2>1, SeenRows DEF UnitsSeen
<1> DEFINE units == UnitsSeen(c, onto) + was.left[k].units
           job == [do |-> "merge", user |-> was.user, guest |-> was.guest, left |-> was.left,
                   added |-> was.added, wrote |-> was.wrote, line |-> k, onto |-> onto,
                   units |-> units]
<1>6. units \in Nat \ {0}
  BY <1>2, <1>5 DEF CartItem
<1>7. calls'[c] = job /\ calls' = [calls EXCEPT ![c] = job]
  BY <1>3 DEF CartTypeOK
<1> HIDE DEF was, units
<1>8. job \in MergeJob
  BY <1>1, <1>4, <1>6 DEF FindJob, MergeJob
<1>9. /\ job.user = was.user /\ job.guest = was.guest /\ job.left = was.left
      /\ job.added = was.added /\ job.wrote = was.wrote /\ job.line = k
      /\ job.onto = onto /\ job.units = units
  OBVIOUS
<1> HIDE DEF job
<1>10. QED  BY <1>1, <1>2, <1>3, <1>7, <1>8, <1>9 DEF was, units

JobWrote(was, job, k, row) ==
  /\ was \in MergeJob /\ job \in FindJob
  /\ job.user = was.user /\ job.guest = was.guest
  /\ job.left = Without(was.left, {was.line})
  /\ job.added = was.added \cup ({was.line} \ {k})
  /\ job.wrote = [was.wrote EXCEPT ![k] = row]

LEMMA WroteFields ==
  ASSUME CartTypeOK, NEW c \in Call, Does(c, "merge"), NEW k \in Line, NEW row \in CartItem,
         Wrote(c, k, row)
  PROVE  /\ JobWrote(calls[c], calls'[c], k, row)
         /\ calls' = [calls EXCEPT ![c] = calls'[c]]
<1> DEFINE was == calls[c]
           left == Without(was.left, {was.line})
           wrote == [was.wrote EXCEPT ![k] = row]
           added == was.added \cup ({was.line} \ {k})
           job == [do |-> "find", user |-> was.user, guest |-> was.guest, left |-> left,
                   added |-> added, wrote |-> wrote]
<1>1. was \in MergeJob
  BY Jobs
<1>2. left \in Contents
  BY <1>1, WithoutRows DEF MergeJob
<1>3. wrote \in Contents /\ added \in SUBSET Line
  BY <1>1 DEF MergeJob, Contents
<1>4. was.user \in User /\ was.guest \in Guest
  BY <1>1 DEF MergeJob
<1>5. calls' = [calls EXCEPT ![c] = job] /\ calls'[c] = job
  BY DEF Wrote, CartTypeOK
<1> HIDE DEF was, left, wrote, added
<1>6. job \in FindJob
  BY <1>2, <1>3, <1>4 DEF FindJob
<1>7. /\ job.user = was.user /\ job.guest = was.guest /\ job.left = left
      /\ job.added = added /\ job.wrote = wrote
  OBVIOUS
<1> HIDE DEF job
<1>8. QED  BY <1>1, <1>5, <1>6, <1>7 DEF JobWrote, was, left, wrote, added

LEMMA CartTypes == CartTypeOK /\ [CartNext]_cartVars => CartTypeOK'
<1> SUFFICES ASSUME CartTypeOK, [CartNext]_cartVars PROVE CartTypeOK'
  OBVIOUS
<1> USE CartAssumption
<1>0. /\ items \in Contents /\ guests \in [Guest -> {"none", "live", "gone"}]
      /\ calls \in [Call -> CartJob \cup {Idle}] /\ asked \in [Article -> Nat]
  BY DEF CartTypeOK
<1>1. ASSUME NEW c \in Call, NEW job \in CartJob \cup {Idle}, calls' = [calls EXCEPT ![c] = job]
      PROVE  calls' \in [Call -> CartJob \cup {Idle}]
  BY <1>0, <1>1
<1>2. ASSUME NEW c \in Call, calls[c] # Idle, NEW k \in Line, items[k] # NoLine,
             NEW n \in Nat \ {0}, items' = [items EXCEPT ![k].units = n]
      PROVE  items' \in Contents
  <2>1. \A row \in CartItem : [row EXCEPT !.units = n] \in CartItem
    BY DEF CartItem
  <2>2. items[k] \in CartItem
    BY <1>0, <1>2 DEF Contents
  <2>3. [items[k] EXCEPT !.units = n] \in CartItem
    BY <2>1, <2>2
  <2>4. items' = [items EXCEPT ![k] = [items[k] EXCEPT !.units = n]]
    BY <1>2
  <2>5. QED  BY <1>0, <2>3, <2>4 DEF Contents
<1>3. ASSUME NEW g \in Guest, NewGuestCart(g) \/ SweepGuestCart(g) PROVE CartTypeOK'
  BY <1>0, <1>3, WithoutRows DEF NewGuestCart, SweepGuestCart, CartTypeOK
<1>4. ASSUME NEW owner \in Owners, ClearCart(owner) PROVE CartTypeOK'
  BY <1>0, <1>4, WithoutRows DEF ClearCart, CartTypeOK
<1>5. ASSUME NEW c \in Call, NEW owner \in Owners, NEW s \in Article, ReadForAdd(c, owner, s)
      PROVE  CartTypeOK'
  <2>1. PICK k \in Found(c, owner, s), n \in Quantities(s) :
          /\ UnitsSeen(c, k) + n \in Quantities(s)
          /\ calls' = [calls EXCEPT ![c] =
               [do |-> "add", cart |-> owner, sku |-> s, line |-> k,
                units |-> UnitsSeen(c, k) + n, more |-> n]]
    BY <1>5 DEF ReadForAdd, Begin
  <2>2. k \in Line \cup {NoLine}
    BY <2>1 DEF Found, LinesOf, InCart
  <2>3. n \in Nat /\ UnitsSeen(c, k) + n \in Nat \ {0}
    BY <2>1 DEF Quantities
  <2>4. calls' \in [Call -> CartJob \cup {Idle}]
    BY <1>1, <2>1, <2>2, <2>3 DEF CartJob, AddJob
  <2>5. QED  BY <1>0, <1>5, <2>4 DEF ReadForAdd, CartTypeOK
<1>6. ASSUME NEW c \in Call, NEW k \in Line, ReadForSet(c, k) \/ ReadForRemove(c, k)
      PROVE  CartTypeOK'
  <2>1. CASE ReadForSet(c, k)
    <3>1. PICK n \in Quantities(items[k].sku) :
            calls' = [calls EXCEPT ![c] = [do |-> "set", line |-> k, units |-> n]]
      BY <2>1 DEF ReadForSet, ReadLine, Begin
    <3>2. n \in Nat \ {0}
      BY <3>1 DEF Quantities
    <3>3. calls' \in [Call -> CartJob \cup {Idle}]
      BY <1>1, <3>1, <3>2 DEF CartJob, SetJob
    <3>4. QED  BY <1>0, <2>1, <3>3 DEF ReadForSet, ReadLine, CartTypeOK
  <2>2. CASE ReadForRemove(c, k)
    <3>1. [do |-> "remove", line |-> k] \in CartJob \cup {Idle}
      BY DEF CartJob, RemoveJob
    <3>2. QED  BY <1>0, <1>1, <2>2, <3>1 DEF ReadForRemove, ReadLine, Begin, CartTypeOK
  <2>3. QED  BY <1>6, <2>1, <2>2
<1>7. ASSUME NEW c \in Call, WriteUnits(c) PROVE CartTypeOK'
  <2>1. /\ calls[c] # Idle /\ calls[c].line \in Line /\ items[calls[c].line] # NoLine
        /\ calls[c].units \in Nat \ {0} /\ calls[c].more \in Nat /\ calls[c].sku \in Article
    BY <1>7, Jobs DEF WriteUnits, AddJob, Does
  <2>2. items' \in Contents
    BY <1>2, <1>7, <2>1 DEF WriteUnits
  <2>3. QED  BY <1>0, <1>1, <1>7, <2>1, <2>2, Asking DEF WriteUnits, End, Goes, CartTypeOK
<1>8. ASSUME NEW c \in Call, InsertLine(c) PROVE CartTypeOK'
  <2>1. /\ calls[c].cart \in Owners /\ calls[c].sku \in Article
        /\ calls[c].units \in Nat \ {0} /\ calls[c].more \in Nat
    BY <1>8, Jobs DEF InsertLine, AddJob
  <2>2. [cart |-> calls[c].cart, sku |-> calls[c].sku, units |-> calls[c].units] \in CartItem
    BY <2>1 DEF CartItem
  <2>3. items' \in Contents
    BY <1>0, <1>8, <2>2 DEF InsertLine, Contents
  <2>4. QED  BY <1>0, <1>1, <1>8, <2>1, <2>3, Asking DEF InsertLine, End, Goes, CartTypeOK
<1>9. ASSUME NEW c \in Call, SetUnits(c) PROVE CartTypeOK'
  <2> DEFINE k == calls[c].line
  <2>1. /\ calls[c] # Idle /\ k \in Line /\ items[k] # NoLine /\ calls[c].units \in Nat \ {0}
    BY <1>9, Jobs DEF SetUnits, SetJob, Does
  <2>2. items' \in Contents
    BY <1>2, <1>9, <2>1 DEF SetUnits
  <2>3. items[k].sku \in Article /\ calls[c].units - items[k].units \in Int
    BY <1>0, <2>1 DEF Contents, CartItem
  <2>4. Max({0, calls[c].units - items[k].units}) \in Nat
    BY <2>3, MaxOrNone
  <2>5. asked' \in [Article -> Nat]
    BY <1>9, <2>3, <2>4, Asking DEF SetUnits
  <2>6. QED  BY <1>0, <1>1, <1>9, <2>2, <2>5 DEF SetUnits, End, Goes, CartTypeOK
<1>10. ASSUME NEW c \in Call, DeleteLine(c) PROVE CartTypeOK'
  <2>1. items' \in Contents
    BY <1>0, <1>10 DEF DeleteLine, Contents
  <2>2. QED  BY <1>0, <1>1, <1>10, <2>1 DEF DeleteLine, End, Goes, CartTypeOK
<1>11. ASSUME NEW c \in Call, NEW u \in User, NEW g \in Guest, StartMerge(c, u, g)
       PROVE  CartTypeOK'
  <2> DEFINE left == Without(items, Line \ Stored(g))
  <2>1. left \in Contents /\ NoRows \in Contents
    BY <1>0, WithoutRows DEF NoRows, Contents
  <2> HIDE DEF left
  <2>2. [do |-> "find", user |-> u, guest |-> g, left |-> left, added |-> {},
         wrote |-> NoRows] \in CartJob \cup {Idle}
    BY <2>1 DEF CartJob, FindJob
  <2>3. QED  BY <1>0, <1>1, <1>11, <2>2 DEF StartMerge, Begin, CartTypeOK, left
<1>12. ASSUME NEW c \in Call, NEW k \in Line, FindExisting(c, k) PROVE CartTypeOK'
  <2>1. calls'[c] \in CartJob \cup {Idle} /\ calls' = [calls EXCEPT ![c] = calls'[c]]
    BY <1>12, FindFields DEF CartJob
  <2>2. calls' \in [Call -> CartJob \cup {Idle}]
    BY <1>0, <2>1
  <2>3. QED  BY <1>0, <1>12, <2>2 DEF FindExisting, CartTypeOK
<1>13. ASSUME NEW c \in Call, Does(c, "merge"), NEW k \in Line, NEW row \in CartItem,
              Wrote(c, k, row)
       PROVE  CartTypeOK'
  <2>1. calls'[c] \in CartJob \cup {Idle} /\ calls' = [calls EXCEPT ![c] = calls'[c]]
    BY <1>13, WroteFields DEF CartJob, JobWrote
  <2>2. calls' \in [Call -> CartJob \cup {Idle}]
    BY <1>0, <2>1
  <2>3. QED  BY <1>0, <1>13, <2>2 DEF Wrote, CartTypeOK
<1>14. ASSUME NEW c \in Call, AddToExisting(c) PROVE CartTypeOK'
  <2>1. /\ calls[c].onto \in Line /\ calls[c].units \in Nat \ {0}
        /\ Seen(c, calls[c].onto) \in CartItem
    <3>1. calls[c] \in MergeJob
      BY <1>14, Jobs DEF AddToExisting
    <3>2. calls[c].onto \in Line /\ calls[c].units \in Nat \ {0}
      BY <1>14, <3>1 DEF AddToExisting, MergeJob
    <3>3. QED  BY <1>14, <3>2, SeenRows DEF AddToExisting
  <2>2. \A row \in CartItem, n \in Nat \ {0} : [row EXCEPT !.units = n] \in CartItem
    BY DEF CartItem
  <2>3. QED  BY <1>13, <1>14, <2>1, <2>2 DEF AddToExisting
<1>15. ASSUME NEW c \in Call, MoveLine(c) PROVE CartTypeOK'
  <2>1. calls[c].line \in Line /\ calls[c].user \in Owners
    <3>1. calls[c] \in MergeJob
      BY <1>15, Jobs DEF MoveLine
    <3>2. QED  BY <3>1 DEF MergeJob, Owners
  <2>2. items[calls[c].line] \in CartItem
    BY <1>15, <2>1, SeenRows DEF MoveLine
  <2>3. \A row \in CartItem, owner \in Owners : [row EXCEPT !.cart = owner] \in CartItem
    BY DEF CartItem
  <2>4. QED  BY <1>13, <1>15, <2>1, <2>2, <2>3 DEF MoveLine
<1>16. ASSUME NEW c \in Call, FinishMerge(c) PROVE CartTypeOK'
  <2>1. [k \in Line |-> Seen(c, k)] \in Contents
    BY SeenRows DEF Contents
  <2>2. items' \in Contents
    BY <1>16, <2>1, WithoutRows DEF FinishMerge
  <2>3. guests' \in [Guest -> {"none", "live", "gone"}]
    BY <1>0, <1>16 DEF FinishMerge
  <2>4. QED  BY <1>0, <1>1, <1>16, <2>2, <2>3 DEF FinishMerge, End, Goes, CartTypeOK
<1>17. ASSUME NEW c \in Call, DropCall(c) PROVE CartTypeOK'
  BY <1>0, <1>1, <1>17 DEF DropCall, End, Goes, CartTypeOK
<1>18. CASE UNCHANGED cartVars
  BY <1>0, <1>18 DEF cartVars, CartTypeOK
<1>19. QED
  BY <1>3, <1>4, <1>5, <1>6, <1>7, <1>8, <1>9, <1>10, <1>11, <1>12, <1>14, <1>15, <1>16, <1>17,
     <1>18 DEF CartNext

LEMMA CartTypesStart == CartInit => CartTypeOK
  BY DEF CartInit, CartTypeOK, Contents, NoRows

-----------------------------------------------------------------------------
(* Carts: what merges have read and written *)

Merging == {c \in Call : Merges(c)}
Claimed(c) == There(calls[c].left) \cup calls[c].added

OneMergeEach == \A c, d \in Merging : calls[c].guest = calls[d].guest => c = d

MergesApart ==
  \A c, d \in Merging : c # d =>
    /\ Claimed(c) \cap Claimed(d) = {}
    /\ There(calls[c].wrote) \cap There(calls[d].wrote) = {}

\* The lines a merge has read are the guest's until it ends, those it has written
\* are nobody else's to change, and it has added no line that it moved.
MergeStands(c) ==
  LET job == calls[c] IN
  /\ There(job.left) \cap job.added = {}
  /\ \A k \in Claimed(c) : items[k] # NoLine => items[k].cart = job.guest
  /\ \A k \in There(job.wrote) :
       /\ items[k] # NoLine /\ k \notin Claimed(c)
       /\ items[k].cart \in {job.user, job.guest} /\ items[k].sku = job.wrote[k].sku
       /\ job.wrote[k].cart = job.user

FoundStands(c) ==
  LET job == calls[c] IN
  /\ job.line \in There(job.left)
  /\ job.onto # NoLine /\ Seen(c, job.onto) # NoLine =>
       Seen(c, job.onto).cart = job.user /\ Seen(c, job.onto).sku = job.left[job.line].sku

MergeInv ==
  /\ OneMergeEach /\ MergesApart
  /\ \A c \in Merging : MergeStands(c) /\ (Does(c, "merge") => FoundStands(c))

\* A row that a merge wrote is in no other merge's reach.
LEMMA WrittenUnclaimed ==
  ASSUME CartTypeOK, MergeInv, NEW c \in Merging, NEW d \in Merging,
         NEW k \in There(calls[c].wrote)
  PROVE  k \notin Claimed(d)
<1>1. /\ MergeStands(c) /\ MergeStands(d)
      /\ calls[c].user \in User /\ calls[d].guest \in Guest
  BY Jobs DEF MergeInv, Merging
<1>2. CASE c = d
  BY <1>1, <1>2 DEF MergeStands
<1>3. CASE c # d
  BY <1>1, <1>3, CartAssumption DEF MergeStands, MergeInv, OneMergeEach
<1>4. QED  BY <1>2, <1>3

\* What a step does to a line that it does not write in a merge.
Untouched(k) == items'[k] = items[k]
Removed(k) == items'[k] = NoLine /\ \A d \in Merging' : k \notin There(calls[d].wrote)
Changed(k) ==
  /\ items[k] # NoLine /\ items'[k] # NoLine /\ items'[k].sku = items[k].sku
  /\ \/ items'[k].cart = items[k].cart
     \/ /\ items[k].cart \in Guest
        /\ \A d \in Merging' : k \notin Claimed(d) \cup There(calls[d].wrote)
Inserted(k) == items[k] = NoLine /\ \A d \in Merging' : k \notin Remembered(d)

LEMMA QuietMerges ==
  ASSUME CartTypeOK, MergeInv, Merging' \subseteq Merging,
         \A d \in Merging' : calls'[d] = calls[d],
         \A k \in Line : Untouched(k) \/ Removed(k) \/ Changed(k) \/ Inserted(k)
  PROVE  MergeInv'
<1>1. OneMergeEach' /\ MergesApart'
  BY DEF MergeInv, OneMergeEach, MergesApart, Claimed
<1>2. ASSUME NEW d \in Merging' PROVE MergeStands(d)'
  <2> DEFINE job == calls[d]
  <2>1. d \in Call /\ Merges(d) /\ calls'[d] = calls[d] /\ MergeStands(d)
    BY <1>2 DEF MergeInv, Merging
  <2>2. /\ job.user \in User /\ job.guest \in Guest /\ Claimed(d)' = Claimed(d)
        /\ There(job.left) \in SUBSET Line /\ There(job.wrote) \in SUBSET Line
        /\ Claimed(d) \in SUBSET Line /\ Claimed(d) \subseteq Remembered(d)
    BY <2>1, Jobs DEF Claimed, There, Remembered
  <2>3. ASSUME NEW k \in Claimed(d), items'[k] # NoLine PROVE items'[k].cart = job.guest
    <3>1. items[k] # NoLine => items[k].cart = job.guest
      BY <2>1 DEF MergeStands
    <3>2. Untouched(k) \/ Removed(k) \/ Changed(k) \/ Inserted(k)
      BY <2>2
    <3>3. QED  BY <1>2, <2>2, <2>3, <3>1, <3>2 DEF Untouched, Removed, Changed, Inserted
  <2>4. ASSUME NEW k \in There(job.wrote)
        PROVE  /\ items'[k] # NoLine /\ items'[k].cart \in {job.user, job.guest}
               /\ items'[k].sku = job.wrote[k].sku
    <3>1. /\ items[k] # NoLine /\ items[k].cart \in {job.user, job.guest}
          /\ items[k].sku = job.wrote[k].sku
      BY <2>1 DEF MergeStands
    <3>2. Untouched(k) \/ Removed(k) \/ Changed(k) \/ Inserted(k)
      BY <2>2
    <3>3. items'[k] # NoLine
      BY <1>2, <3>1, <3>2 DEF Untouched, Removed, Changed, Inserted
    <3>4. QED  BY <1>2, <3>1, <3>2, <3>3 DEF Untouched, Removed, Changed, Inserted
  <2>5. /\ There(job.left) \cap job.added = {}
        /\ \A k \in There(job.wrote) : k \notin Claimed(d) /\ job.wrote[k].cart = job.user
    BY <2>1 DEF MergeStands
  <2> HIDE DEF job
  <2>6. calls'[d] = job
    BY <2>1 DEF job
  <2>7. There(calls'[d].wrote) = There(job.wrote) /\ There(calls'[d].left) = There(job.left)
    BY <2>6
  <2>8. QED  BY <2>2, <2>3, <2>4, <2>5, <2>6, <2>7 DEF MergeStands, There
<1>3. ASSUME NEW d \in Merging', Does(d, "merge")' PROVE FoundStands(d)'
  <2> DEFINE job == calls[d]
             onto == calls[d].onto
  <2>1. d \in Call /\ Merges(d) /\ calls'[d] = calls[d] /\ Does(d, "merge")
    BY <1>3 DEF Merging, Does
  <2>2. FoundStands(d) /\ MergeStands(d) /\ job \in MergeJob
    BY <1>3, <2>1, Jobs DEF MergeInv
  <2>3. ASSUME onto # NoLine, Seen(d, onto)' # NoLine
        PROVE  Seen(d, onto)'.cart = job.user /\ Seen(d, onto)'.sku = job.left[job.line].sku
    <3>1. onto \in Line /\ job.user \in User
      BY <2>2, <2>3 DEF MergeJob
    <3>2. CASE onto \in There(job.wrote)
      <4>1. Seen(d, onto)' = Seen(d, onto)
        BY <2>1, <3>2 DEF Seen, Merges, Does, There
      <4>2. QED  BY <2>2, <2>3, <4>1 DEF FoundStands
    <3>3. CASE onto \notin There(job.wrote)
      <4>1. Seen(d, onto)' = items'[onto] /\ Seen(d, onto) = items[onto]
        BY <2>1, <3>3 DEF Seen, Merges, Does, There
      <4>2. Untouched(onto) \/ Removed(onto) \/ Changed(onto) \/ Inserted(onto)
        BY <3>1
      <4>3. onto \in Remembered(d)
        BY <2>1 DEF Remembered
      <4>4. items[onto] # NoLine => items[onto].cart = job.user
                                    /\ items[onto].sku = job.left[job.line].sku
        BY <2>2, <2>3, <4>1 DEF FoundStands
      <4>5. job.user \notin Guest
        BY <3>1, CartAssumption
      <4>6. QED
        BY <1>3, <2>3, <4>1, <4>2, <4>3, <4>4, <4>5 DEF Untouched, Removed, Changed, Inserted
    <3>4. QED  BY <3>2, <3>3
  <2>4. QED  BY <2>1, <2>2, <2>3 DEF FoundStands, There
<1>4. QED  BY <1>1, <1>2, <1>3 DEF MergeInv

LEMMA EndOrNoMerge ==
  ASSUME CartTypeOK, NEW c \in Call, NEW job, job = Idle \/ job.do \in {"add", "set", "remove"},
         calls' = [calls EXCEPT ![c] = job]
  PROVE  /\ Merging' = Merging \ {c}
         /\ \A d \in Merging' : calls'[d] = calls[d]
<1>1. calls'[c] = job /\ \A d \in Call \ {c} : calls'[d] = calls[d]
  BY DEF CartTypeOK
<1>2. QED  BY <1>1 DEF Merging, Merges, Does

\* Steps that read and write no line in a merge, and the last step of a merge.
QuietStep(c) ==
  \/ \E owner \in Owners, s \in Article : ReadForAdd(c, owner, s)
  \/ \E k \in Line : ReadForSet(c, k) \/ ReadForRemove(c, k)
  \/ WriteUnits(c) \/ InsertLine(c) \/ SetUnits(c) \/ DeleteLine(c)
  \/ FinishMerge(c) \/ DropCall(c)

LEMMA QuietCalls ==
  ASSUME CartTypeOK, NEW c \in Call, QuietStep(c)
  PROVE  /\ Merging' = Merging \ {c}
         /\ \A d \in Merging' : calls'[d] = calls[d]
<1> DEFINE Quiet(job) == job = Idle \/ job.do \in {"add", "set", "remove"}
<1>1. \E job : Quiet(job) /\ calls' = [calls EXCEPT ![c] = job]
  <2>1. ASSUME NEW owner \in Owners, NEW s \in Article, ReadForAdd(c, owner, s)
        PROVE  \E job : Quiet(job) /\ calls' = [calls EXCEPT ![c] = job]
    BY <2>1 DEF ReadForAdd, Begin
  <2>2. ASSUME NEW k \in Line, ReadForSet(c, k) \/ ReadForRemove(c, k)
        PROVE  \E job : Quiet(job) /\ calls' = [calls EXCEPT ![c] = job]
    BY <2>2 DEF ReadForSet, ReadForRemove, ReadLine, Begin
  <2>3. ASSUME calls' = [calls EXCEPT ![c] = Idle]
        PROVE  \E job : Quiet(job) /\ calls' = [calls EXCEPT ![c] = job]
    BY <2>3
  <2>4. CASE WriteUnits(c) \/ InsertLine(c) \/ SetUnits(c) \/ DeleteLine(c)
             \/ FinishMerge(c) \/ DropCall(c)
    BY <2>3, <2>4 DEF WriteUnits, InsertLine, SetUnits, DeleteLine, FinishMerge, DropCall, End, Goes
  <2> HIDE DEF Quiet
  <2>5. QED  BY <2>1, <2>2, <2>4 DEF QuietStep
<1>2. QED  BY <1>1, EndOrNoMerge

LEMMA QuietRows ==
  ASSUME CartTypeOK, MergeInv, NEW c \in Call, QuietStep(c), NEW k \in Line
  PROVE  Untouched(k) \/ Removed(k) \/ Changed(k) \/ Inserted(k)
<1>1. Merging' = Merging \ {c} /\ \A d \in Merging' : calls'[d] = calls[d] /\ d \in Call /\ d # c
  BY QuietCalls DEF Merging
<1>2. items \in Contents
  BY DEF CartTypeOK
<1>3. ASSUME NEW l \in Line, items[l] # NoLine, NEW n \in Nat \ {0},
             items' = [items EXCEPT ![l].units = n]
      PROVE  Untouched(k) \/ Changed(k)
  <2>1. items' = [items EXCEPT ![l] = [items[l] EXCEPT !.units = n]] /\ items[l] \in CartItem
    BY <1>2, <1>3 DEF Contents
  <2>2. \A row \in CartItem :
          /\ [row EXCEPT !.units = n] \in CartItem
          /\ [row EXCEPT !.units = n].sku = row.sku /\ [row EXCEPT !.units = n].cart = row.cart
    BY DEF CartItem
  <2>3. items'[l] # NoLine /\ items'[l].sku = items[l].sku /\ items'[l].cart = items[l].cart
    BY <1>2, <2>1, <2>2, NothingAssumption DEF Contents
  <2>4. k # l => items'[k] = items[k]
    BY <1>2, <2>1 DEF Contents
  <2>5. QED  BY <1>3, <2>3, <2>4 DEF Untouched, Changed
<1>4. CASE items' = items
  BY <1>4 DEF Untouched
<1>5. CASE (\E owner \in Owners, s \in Article : ReadForAdd(c, owner, s)) \/ DropCall(c)
           \/ (\E l \in Line : ReadForSet(c, l) \/ ReadForRemove(c, l))
  BY <1>4, <1>5 DEF ReadForAdd, ReadForSet, ReadForRemove, ReadLine, DropCall
<1>6. CASE WriteUnits(c)
  <2>1. calls[c].line \in Line /\ items[calls[c].line] # NoLine /\ calls[c].units \in Nat \ {0}
    BY <1>6, Jobs DEF WriteUnits, AddJob
  <2>2. QED  BY <1>3, <1>6, <2>1 DEF WriteUnits
<1>7. CASE SetUnits(c)
  <2>1. calls[c].line \in Line /\ items[calls[c].line] # NoLine /\ calls[c].units \in Nat \ {0}
    BY <1>7, Jobs DEF SetUnits, SetJob
  <2>2. QED  BY <1>3, <1>7, <2>1 DEF SetUnits
<1>8. CASE InsertLine(c)
  <2>1. PICK l, row : l \in Line /\ Fresh(l) /\ items' = [items EXCEPT ![l] = row]
    BY <1>8 DEF InsertLine
  <2>2. QED  BY <1>1, <1>2, <2>1 DEF Fresh, Untouched, Inserted, Contents
<1>9. CASE DeleteLine(c)
  <2>1. items' = [items EXCEPT ![calls[c].line] = NoLine] /\ ~Locked(c, calls[c].line)
    BY <1>9 DEF DeleteLine
  <2>2. k = calls[c].line => Removed(k)
    BY <1>1, <1>2, <2>1 DEF Removed, Locked, Holds, Merging, Contents
  <2>3. k # calls[c].line => Untouched(k)
    BY <1>2, <2>1 DEF Untouched, Contents
  <2>4. QED  BY <2>2, <2>3
<1>10. CASE FinishMerge(c)
  <2>1. c \in Merging /\ MergeStands(c) /\ calls[c].guest \in Guest
    BY <1>10, Jobs DEF FinishMerge, Merging, Merges, MergeInv
  <2>2. /\ items'[k] = IF k \in Deleted(c) THEN NoLine ELSE Seen(c, k)
        /\ k \in Deleted(c) => ~Locked(c, k)
    BY <1>10 DEF FinishMerge, Without
  <2>3. CASE k \in Deleted(c)
    BY <1>1, <2>2, <2>3 DEF Removed, Locked, Holds, Merging
  <2>4. CASE k \notin Deleted(c) /\ k \in There(calls[c].wrote)
    <3>1. items'[k] = calls[c].wrote[k] /\ items'[k] # NoLine
      BY <2>1, <2>2, <2>4 DEF Seen, Merging, There
    <3>2. /\ items[k] # NoLine /\ items[k].cart \in {calls[c].user, calls[c].guest}
          /\ items[k].sku = items'[k].sku /\ items'[k].cart = calls[c].user
      BY <2>1, <2>4, <3>1 DEF MergeStands
    <3>3. \A d \in Merging' : k \notin Claimed(d) \cup There(calls[d].wrote)
      BY <1>1, <2>1, <2>4, WrittenUnclaimed DEF MergeInv, MergesApart
    <3>4. QED  BY <2>1, <3>1, <3>2, <3>3 DEF Changed
  <2>5. CASE k \notin Deleted(c) /\ k \notin There(calls[c].wrote)
    BY <2>2, <2>5 DEF Seen, Untouched
  <2>6. QED  BY <2>3, <2>4, <2>5
<1>11. QED
  BY <1>5, <1>6, <1>7, <1>8, <1>9, <1>10 DEF QuietStep

\* A merge that goes on claims no more lines, and writes one that nobody else
\* has written.
LEMMA MergeGoesOn ==
  ASSUME CartTypeOK, MergeInv, NEW c \in Merging, NEW job, calls' = [calls EXCEPT ![c] = job],
         items' = items, job # Idle, job.do \in {"find", "merge"}, job.guest = calls[c].guest,
         There(job.left) \cup job.added \subseteq Claimed(c),
         \A k \in There(job.wrote) :
           k \in There(calls[c].wrote) \/ \A d \in Merging \ {c} : k \notin There(calls[d].wrote),
         MergeStands(c)', Does(c, "merge")' => FoundStands(c)'
  PROVE  MergeInv'
<1>1. c \in Call /\ calls'[c] = job /\ \A d \in Call \ {c} : calls'[d] = calls[d]
  BY DEF CartTypeOK, Merging
<1>2. Merging' = Merging /\ \A d \in Merging \ {c} : Claimed(d)' = Claimed(d)
  BY <1>1 DEF Merging, Merges, Does, Claimed, There
<1>3. OneMergeEach'
  BY <1>1, <1>2 DEF MergeInv, OneMergeEach, Merging
<1>4. MergesApart'
  <2>1. ASSUME NEW d \in Merging \ {c}
        PROVE  /\ (Claimed(c) \cap Claimed(d))' = {}
               /\ (There(calls[c].wrote) \cap There(calls[d].wrote))' = {}
    <3>1. /\ Claimed(c) \cap Claimed(d) = {}
          /\ There(calls[c].wrote) \cap There(calls[d].wrote) = {}
      BY DEF MergeInv, MergesApart
    <3>2. Claimed(c)' \subseteq Claimed(c) /\ There(calls'[c].wrote) = There(job.wrote)
          /\ d \in Call
      BY <1>1 DEF Claimed, There, Merging
    <3>3. There(calls'[d].wrote) = There(calls[d].wrote)
      BY <1>1, <3>2
    <3>4. QED  BY <1>2, <3>1, <3>2, <3>3 DEF There
  <2>2. \A d, e \in Merging \ {c} : d # e =>
          /\ (Claimed(d) \cap Claimed(e))' = {}
          /\ (There(calls[d].wrote) \cap There(calls[e].wrote))' = {}
    BY <1>1, <1>2 DEF MergeInv, MergesApart, Merging, There
  <2>3. QED  BY <1>2, <2>1, <2>2 DEF MergesApart
<1>5. ASSUME NEW d \in Merging \ {c} PROVE MergeStands(d)' /\ (Does(d, "merge")' => FoundStands(d)')
  <2>1. calls'[d] = calls[d] /\ MergeStands(d) /\ (Does(d, "merge") => FoundStands(d)) /\ d \in Call
    BY <1>1 DEF MergeInv, Merging
  <2>2. MergeStands(d)'
    BY <2>1 DEF MergeStands, Claimed, There
  <2>3. ASSUME Does(d, "merge")' PROVE FoundStands(d)'
    <3> DEFINE onto == calls[d].onto
    <3>1. FoundStands(d) /\ calls'[d].left = calls[d].left
      BY <2>1, <2>3 DEF Does
    <3>2. Seen(d, onto)' = Seen(d, onto)
      BY <2>1 DEF Seen, There, Does, Merges
    <3>3. QED  BY <2>1, <3>1, <3>2 DEF FoundStands, There
  <2>4. QED  BY <2>2, <2>3
<1>6. QED  BY <1>2, <1>3, <1>4, <1>5 DEF MergeInv

LEMMA StartStands ==
  ASSUME CartTypeOK, MergeInv, ~Overlap,
         NEW c \in Call, NEW u \in User, NEW g \in Guest, StartMerge(c, u, g)
  PROVE  MergeInv'
<1> DEFINE left == Without(items, Line \ Stored(g))
           job == [do |-> "find", user |-> u, guest |-> g, left |-> left, added |-> {},
                   wrote |-> NoRows]
<1>1. /\ calls[c] = Idle /\ calls' = [calls EXCEPT ![c] = job] /\ items' = items
      /\ \A d \in Merging : calls[d].guest # g
  BY DEF StartMerge, Begin, Merging
<1>2. /\ job # Idle /\ There(left) = Stored(g) /\ There(NoRows) = {}
      /\ \A k \in Stored(g) : left[k] = items[k]
  <2>1. job \in FindJob
    <3>1. left \in Contents /\ NoRows \in Contents
      BY WithoutRows DEF CartTypeOK, NoRows, Contents
    <3> HIDE DEF left
    <3>2. QED  BY <3>1 DEF FindJob
  <2>2. QED  BY <2>1, NothingAssumption DEF CartJob, Without, There, Stored, NoRows
<1> HIDE DEF left
<1>3. calls'[c] = job /\ \A d \in Call \ {c} : calls'[d] = calls[d]
  BY <1>1 DEF CartTypeOK
<1>4. /\ job.do = "find" /\ job.guest = g /\ job.left = left /\ job.added = {}
      /\ job.wrote = NoRows
  OBVIOUS
<1> HIDE DEF job
<1>5. Merging' = Merging \cup {c} /\ c \notin Merging /\ ~Does(c, "merge")'
  BY <1>1, <1>2, <1>3, <1>4 DEF Merging, Merges, Does
<1>6. Claimed(c)' = Stored(g)
  BY <1>2, <1>3, <1>4 DEF Claimed, There
<1>7. ASSUME NEW d \in Merging
      PROVE  /\ Claimed(d)' = Claimed(d) /\ calls'[d] = calls[d] /\ calls[d].guest # g
             /\ Claimed(d) \cap Stored(g) = {}
  <2>1. d \in Call \ {c} /\ MergeStands(d) /\ calls[d].guest # g
    BY <1>1, <1>5 DEF MergeInv, Merging
  <2>2. Claimed(d) \cap Stored(g) = {}
    BY <2>1 DEF MergeStands, Stored, There
  <2>3. QED  BY <1>3, <2>1, <2>2 DEF Claimed, There
<1>8. OneMergeEach'
  BY <1>3, <1>4, <1>5, <1>7 DEF MergeInv, OneMergeEach
<1>9. MergesApart'
  <2>1. There(calls'[c].wrote) = {}
    BY <1>2, <1>3, <1>4
  <2>2. \A d \in Merging : There(calls'[d].wrote) = There(calls[d].wrote)
    BY <1>7
  <2>3. \A d, e \in Merging' : d # e => (Claimed(d) \cap Claimed(e))' = {}
    BY <1>5, <1>6, <1>7 DEF MergeInv, MergesApart
  <2>4. \A d, e \in Merging' : d # e => (There(calls[d].wrote) \cap There(calls[e].wrote))' = {}
    BY <1>5, <2>1, <2>2 DEF MergeInv, MergesApart, There
  <2>5. QED  BY <2>3, <2>4 DEF MergesApart
<1>10. MergeStands(c)'
  <2>1. There(calls'[c].wrote) = {} /\ calls'[c].added = {} /\ calls'[c].guest = g
    BY <1>2, <1>3, <1>4
  <2>2. \A k \in Claimed(c)' : items'[k].cart = g
    BY <1>1, <1>6 DEF Stored
  <2>3. QED  BY <2>1, <2>2 DEF MergeStands, There
<1>11. ASSUME NEW d \in Merging PROVE MergeStands(d)' /\ (Does(d, "merge")' => FoundStands(d)')
  <2>1. calls'[d] = calls[d] /\ MergeStands(d) /\ (Does(d, "merge") => FoundStands(d))
    BY <1>7 DEF MergeInv
  <2>2. MergeStands(d)'
    BY <1>1, <2>1 DEF MergeStands, Claimed, There
  <2>3. ASSUME Does(d, "merge")' PROVE FoundStands(d)'
    <3> DEFINE onto == calls[d].onto
    <3>1. FoundStands(d) /\ calls'[d].left = calls[d].left
      BY <2>1, <2>3 DEF Does
    <3>2. Seen(d, onto)' = Seen(d, onto)
      BY <1>1, <2>1 DEF Seen, There, Does, Merges
    <3>3. QED  BY <2>1, <3>1, <3>2 DEF FoundStands, There
  <2>4. QED  BY <2>2, <2>3
<1>12. QED  BY <1>5, <1>8, <1>9, <1>10, <1>11 DEF MergeInv

\* A job in a merge is not Idle.
LEMMA JobGoesOn ==
  /\ \A job \in FindJob : job # Idle /\ job.do = "find"
  /\ \A job \in MergeJob : job # Idle /\ job.do = "merge"
BY NothingAssumption DEF CartJob, FindJob, MergeJob

LEMMA FindStands ==
  ASSUME CartTypeOK, MergeInv, NEW c \in Call, NEW k \in Line, FindExisting(c, k)
  PROVE  MergeInv'
<1> DEFINE was == calls[c]
           job == calls'[c]
<1>1. /\ c \in Merging /\ MergeStands(c) /\ items' = items
      /\ Merges(c) /\ Merges(c)'
  BY FindFields, JobGoesOn DEF FindExisting, Merging, Merges, Does, MergeInv
<1>2. /\ job \in MergeJob /\ job # Idle /\ job.do = "merge" /\ k \in There(was.left)
      /\ job.user = was.user /\ job.guest = was.guest /\ job.left = was.left
      /\ job.added = was.added /\ job.wrote = was.wrote /\ job.line = k
      /\ calls' = [calls EXCEPT ![c] = job]
      /\ job.onto \in Found(c, was.user, was.left[k].sku)
  BY FindFields, JobGoesOn
<1>3. MergeStands(c)'
  BY <1>1, <1>2 DEF MergeStands, Claimed, There
<1>4. FoundStands(c)'
  <2>1. PICK onto : onto = job.onto
    OBVIOUS
  <2>2. onto # NoLine => Seen(c, onto).cart = was.user /\ Seen(c, onto).sku = was.left[k].sku
    BY <1>2, <2>1 DEF Found, LinesOf, InCart
  <2>3. Seen(c, onto)' = Seen(c, onto)
    BY <1>1, <1>2 DEF Seen, There
  <2>4. QED  BY <1>2, <2>1, <2>2, <2>3 DEF FoundStands, There
<1>5. There(job.left) \cup job.added \subseteq Claimed(c)
  BY <1>2 DEF Claimed
<1> HIDE DEF job, was
<1>6. \A l \in There(job.wrote) : l \in There(was.wrote)
  BY <1>2
<1>7. job.do \in {"find", "merge"}
  BY <1>2
<1>8. QED  BY <1>1, <1>2, <1>3, <1>4, <1>5, <1>6, <1>7, MergeGoesOn DEF was

LEMMA WroteStands ==
  ASSUME CartTypeOK, MergeInv, NEW c \in Call, Does(c, "merge"), NEW k \in Line,
         NEW row \in CartItem, Wrote(c, k, row),
         row.cart = calls[c].user, items[k] # NoLine, row.sku = items[k].sku,
         items[k].cart \in {calls[c].user, calls[c].guest},
         k = calls[c].line \/ k \notin Claimed(c)
  PROVE  MergeInv'
<1> DEFINE was == calls[c]
           job == calls'[c]
<1>1. /\ was \in MergeJob /\ job \in FindJob /\ calls' = [calls EXCEPT ![c] = job]
      /\ job.user = was.user /\ job.guest = was.guest
      /\ job.left = Without(was.left, {was.line})
      /\ job.added = was.added \cup ({was.line} \ {k})
      /\ job.wrote = [was.wrote EXCEPT ![k] = row]
  BY WroteFields DEF JobWrote
<1>0. items' = items /\ ~Locked(c, k)
  BY DEF Wrote
<1>2. job # Idle /\ job.do = "find"
  BY <1>1, JobGoesOn
<1>3. /\ c \in Merging /\ MergeStands(c) /\ FoundStands(c)
      /\ was.line \in There(was.left) /\ was.wrote \in Contents
  BY <1>1 DEF Merging, Merges, MergeInv, FoundStands, MergeJob
<1>4. There(job.left) = There(was.left) \ {was.line}
  BY <1>1 DEF There, Without
<1>5. /\ There(job.wrote) = There(was.wrote) \cup {k}
      /\ \A l \in There(was.wrote) \ {k} : job.wrote[l] = was.wrote[l]
      /\ job.wrote[k] = row
  BY <1>1, <1>3, NothingAssumption DEF There, Contents
<1>6. Claimed(c)' = Claimed(c) \ ({was.line} \cap {k})
  BY <1>1, <1>3, <1>4 DEF Claimed, There, MergeStands
<1> HIDE DEF job, was
<1>7. MergeStands(c)'
  <2>1. There(job.left) \cap job.added = {}
    BY <1>1, <1>3, <1>4 DEF MergeStands, was
  <2>2. \A l \in Claimed(c)' : items'[l] # NoLine => items'[l].cart = job.guest
    BY <1>0, <1>1, <1>3, <1>6 DEF MergeStands, was
  <2>3. ASSUME NEW l \in There(job.wrote)
        PROVE  /\ items'[l] # NoLine /\ l \notin Claimed(c)'
               /\ items'[l].cart \in {job.user, job.guest} /\ items'[l].sku = job.wrote[l].sku
               /\ job.wrote[l].cart = job.user
    <3>1. CASE l = k
      BY <1>0, <1>1, <1>5, <1>6, <3>1 DEF was
    <3>2. CASE l # k
      BY <1>0, <1>1, <1>3, <1>5, <1>6, <2>3, <3>2 DEF MergeStands, was
    <3>3. QED  BY <3>1, <3>2
  <2>4. QED  BY <2>1, <2>2, <2>3 DEF MergeStands, There, job
<1>8. There(job.left) \cup job.added \subseteq Claimed(c)
  BY <1>1, <1>3, <1>4 DEF Claimed, was
<1>9. \A l \in There(job.wrote) :
        l \in There(was.wrote) \/ \A d \in Merging \ {c} : l \notin There(calls[d].wrote)
  BY <1>0, <1>5 DEF Locked, Holds, Merging
<1>10. job.guest = calls[c].guest /\ job.do \in {"find", "merge"} /\ ~Does(c, "merge")'
  BY <1>1, <1>2 DEF was, job, Does
<1>11. QED
  BY <1>0, <1>1, <1>2, <1>3, <1>7, <1>8, <1>9, <1>10, MergeGoesOn DEF was

\* What a merge writes to the customer's line is a row of the customer's.
LEMMA AddsTo ==
  ASSUME CartTypeOK, MergeInv, NEW c \in Call, AddToExisting(c)
  PROVE  LET job == calls[c]
             row == [Seen(c, job.onto) EXCEPT !.units = job.units]
         IN  /\ Does(c, "merge") /\ c \in Merging /\ job \in MergeJob
             /\ job.onto \in Line /\ job.line \in There(job.left)
             /\ Seen(c, job.onto) \in CartItem /\ row \in CartItem /\ Wrote(c, job.onto, row)
             /\ row.cart = job.user /\ row.sku = job.left[job.line].sku /\ row.units = job.units
             /\ items[job.onto] # NoLine /\ row.sku = items[job.onto].sku
             /\ items[job.onto].cart \in {job.user, job.guest}
             /\ \A d \in Merging : job.onto \notin Claimed(d)
<1> DEFINE job == calls[c]
           onto == job.onto
           seen == Seen(c, onto)
           row == [seen EXCEPT !.units = job.units]
<1>1. /\ job \in MergeJob /\ c \in Merging /\ MergeStands(c) /\ FoundStands(c)
      /\ Does(c, "merge") /\ onto \in Line /\ seen # NoLine /\ Wrote(c, onto, row)
      /\ job.user \in User /\ job.units \in Nat \ {0}
  BY Jobs DEF AddToExisting, Merging, Merges, MergeInv, MergeJob
<1>2. /\ job.line \in There(job.left) /\ seen.cart = job.user
      /\ seen.sku = job.left[job.line].sku
  BY <1>1, CartAssumption DEF FoundStands
<1>3. seen \in CartItem
  BY <1>1, SeenRows
<1>4. /\ items[onto] # NoLine /\ seen.sku = items[onto].sku
      /\ items[onto].cart \in {job.user, job.guest}
      /\ \A d \in Merging : onto \notin Claimed(d)
  <2>1. CASE onto \in There(job.wrote)
    <3>1. seen = job.wrote[onto]
      BY <1>1, <2>1 DEF Seen, Merging
    <3>2. QED  BY <1>1, <2>1, <3>1, WrittenUnclaimed DEF MergeStands
  <2>2. CASE onto \notin There(job.wrote)
    <3>1. seen = items[onto]
      BY <2>2 DEF Seen
    <3>2. ASSUME NEW d \in Merging PROVE onto \notin Claimed(d)
      <4>1. MergeStands(d) /\ calls[d].guest \in Guest
        BY Jobs DEF MergeInv, Merging
      <4>2. QED  BY <1>1, <1>2, <3>1, <4>1, CartAssumption DEF MergeStands
    <3>3. QED  BY <1>1, <1>2, <3>1, <3>2
  <2>3. QED  BY <2>1, <2>2
<1> HIDE DEF seen
<1>5. /\ row \in CartItem /\ row.cart = seen.cart /\ row.sku = seen.sku
      /\ row.units = job.units
  BY <1>1, <1>3 DEF CartItem
<1> HIDE DEF row, job
<1>6. QED  BY <1>1, <1>2, <1>3, <1>4, <1>5 DEF row, seen, job

LEMMA Moves ==
  ASSUME CartTypeOK, MergeInv, NEW c \in Call, MoveLine(c)
  PROVE  LET job == calls[c]
             row == [items[job.line] EXCEPT !.cart = job.user]
         IN  /\ Does(c, "merge") /\ c \in Merging /\ job \in MergeJob
             /\ job.line \in There(job.left) /\ row \in CartItem /\ Wrote(c, job.line, row)
             /\ row.cart = job.user /\ row.sku = items[job.line].sku
             /\ row.units = items[job.line].units
             /\ items[job.line] # NoLine /\ items[job.line].cart = job.guest
<1> DEFINE job == calls[c]
           was == items[job.line]
           row == [was EXCEPT !.cart = job.user]
<1>1. /\ job \in MergeJob /\ c \in Merging /\ MergeStands(c) /\ FoundStands(c)
      /\ Does(c, "merge") /\ was # NoLine /\ Wrote(c, job.line, row)
      /\ job.user \in User /\ job.line \in Line
  BY Jobs DEF MoveLine, Merging, Merges, MergeInv, MergeJob
<1>2. job.line \in There(job.left) /\ was.cart = job.guest
  BY <1>1 DEF FoundStands, MergeStands, Claimed
<1>3. was \in CartItem
  BY <1>1, SeenRows
<1> HIDE DEF was
<1>4. /\ row \in CartItem /\ row.cart = job.user /\ row.sku = was.sku /\ row.units = was.units
  BY <1>1, <1>3 DEF CartItem, Owners
<1> HIDE DEF row, job
<1>5. QED  BY <1>1, <1>2, <1>4 DEF row, was, job

LEMMA MergeStep ==
  ASSUME CartTypeOK, MergeInv, ~Overlap, [CartNext]_cartVars
  PROVE  MergeInv'
<1>1. ASSUME NEW c \in Call, QuietStep(c) PROVE MergeInv'
  BY <1>1, QuietCalls, QuietRows, QuietMerges
<1>2. ASSUME calls' = calls, \A k \in Line : Untouched(k) \/ Removed(k) PROVE MergeInv'
  <2>1. Merging' = Merging
    BY <1>2 DEF Merging, Merges, Does
  <2>2. QED  BY <1>2, <2>1, QuietMerges
<1>3. ASSUME NEW g \in Guest, NewGuestCart(g) PROVE MergeInv'
  BY <1>2, <1>3 DEF NewGuestCart, Untouched
<1>4. ASSUME NEW gone, \A k \in gone, c \in Call : ~Holds(c, k), items' = Without(items, gone),
             calls' = calls
      PROVE  MergeInv'
  <2>1. ASSUME NEW k \in Line PROVE Untouched(k) \/ Removed(k)
    <3>1. CASE k \in gone
      <4>1. \A c \in Merging : k \notin There(calls[c].wrote)
        BY <1>4, <3>1 DEF Merging, Holds
      <4>2. Merging' = Merging
        BY <1>4 DEF Merging, Merges, Does
      <4>3. QED  BY <1>4, <3>1, <4>1, <4>2 DEF Removed, Without
    <3>2. CASE k \notin gone
      BY <1>4, <3>2 DEF Untouched, Without
    <3>3. QED  BY <3>1, <3>2
  <2>2. QED  BY <1>2, <1>4, <2>1
<1>5. ASSUME NEW owner \in Owners, ClearCart(owner) PROVE MergeInv'
  BY <1>4, <1>5 DEF ClearCart
<1>6. ASSUME NEW g \in Guest, SweepGuestCart(g) PROVE MergeInv'
  BY <1>4, <1>6 DEF SweepGuestCart
<1>7. ASSUME NEW c \in Call, AddToExisting(c) PROVE MergeInv'
  <2>1. PICK onto, row :
          /\ onto = calls[c].onto
          /\ row = [Seen(c, calls[c].onto) EXCEPT !.units = calls[c].units]
    OBVIOUS
  <2>2. /\ Does(c, "merge") /\ onto \in Line /\ row \in CartItem /\ Wrote(c, onto, row)
        /\ row.cart = calls[c].user /\ row.sku = items[onto].sku /\ items[onto] # NoLine
        /\ items[onto].cart \in {calls[c].user, calls[c].guest}
        /\ onto \notin Claimed(c)
    BY <1>7, <2>1, AddsTo
  <2>3. QED  BY <2>2, WroteStands
<1>8. ASSUME NEW c \in Call, MoveLine(c) PROVE MergeInv'
  <2>1. PICK line, row :
          line = calls[c].line /\ row = [items[calls[c].line] EXCEPT !.cart = calls[c].user]
    OBVIOUS
  <2>2. /\ Does(c, "merge") /\ line \in Line /\ row \in CartItem /\ Wrote(c, line, row)
        /\ row.cart = calls[c].user /\ row.sku = items[line].sku /\ items[line] # NoLine
        /\ items[line].cart = calls[c].guest
    BY <1>8, <2>1, Moves DEF There
  <2>3. QED  BY <2>1, <2>2, WroteStands
<1>9. CASE UNCHANGED cartVars
  BY <1>2, <1>9 DEF cartVars, Untouched
<1>10. ASSUME NEW c \in Call, NEW u \in User, NEW g \in Guest, StartMerge(c, u, g)
       PROVE  MergeInv'
  BY <1>10, StartStands
<1>11. ASSUME NEW c \in Call, NEW k \in Line, FindExisting(c, k) PROVE MergeInv'
  BY <1>11, FindStands
<1>12. QED
  BY <1>1, <1>3, <1>5, <1>6, <1>7, <1>8, <1>9, <1>10, <1>11 DEF CartNext, QuietStep

-----------------------------------------------------------------------------
(* Carts: who asked for the units *)

\* Units asked for, counted for the line they are in: P[k] of article K[k], or of
\* none for a line that never was there.
Kinds == [Line -> Article \cup {NoLine}]
Share(P, K, s) == [k \in Line |-> IF K[k] = s THEN P[k] ELSE 0]
Backing(P, K, s) == SumFunctionOnSet(Share(P, K, s), Line)

\* The lines that will be gone, their units added to others, once the merges
\* in C have ended.
Gone(C) == UNION {calls[c].added : c \in C \cap Merging}

Fits(row, k, P, K) == row.sku = K[k] /\ row.units <= P[k]

AddFits(c, C, P, K) ==
  LET job == calls[c] IN
  job.line \in There(items) =>
    /\ job.sku = K[job.line]
    /\ job.line \in Gone(C) \/ job.units <= P[job.line] + job.more

MergeFits(c, P, K) ==
  LET job == calls[c] IN
  /\ \A k \in There(job.left) : Fits(job.left[k], k, P, K)
  /\ \A k \in There(job.wrote) : Fits(job.wrote[k], k, P, K)
  /\ Does(c, "merge") /\ job.onto # NoLine /\ Seen(c, job.onto) # NoLine =>
       job.units <= P[job.onto] + P[job.line]

RowsFit(C, P, K) ==
  \A k \in There(items) : items[k].sku = K[k] /\ (k \in Gone(C) \/ items[k].units <= P[k])

\* P and K account for what will be in the carts when of the running merges just
\* those in C come to their end.
Backs(C, P, K) ==
  /\ \A s \in Article : Backing(P, K, s) <= asked[s]
  /\ RowsFit(C, P, K)
  /\ \A c \in Call : Does(c, "add") => AddFits(c, C, P, K)
  /\ \A c \in C \cap Merging : MergeFits(c, P, K)

Backed == \A C \in SUBSET Call : \E P \in [Line -> Nat], K \in Kinds : Backs(C, P, K)

\* A new line starts with what was asked for.
AddsWhole ==
  \A c \in Call : Does(c, "add") /\ calls[c].line = NoLine => calls[c].units = calls[c].more

LEMMA ShareValues ==
  ASSUME NEW P \in [Line -> Nat], NEW K \in Kinds, NEW s
  PROVE  \A k \in Line : /\ Share(P, K, s)[k] = IF K[k] = s THEN P[k] ELSE 0
                         /\ Share(P, K, s)[k] \in Nat
  BY DEF Share, Kinds

LEMMA BackingChange ==
  ASSUME NEW P \in [Line -> Nat], NEW K \in Kinds,
         NEW Q \in [Line -> Nat], NEW L \in Kinds,
         NEW k \in Line, \A l \in Line \ {k} : Q[l] = P[l] /\ L[l] = K[l],
         NEW s
  PROVE  /\ Backing(P, K, s) \in Nat /\ Backing(Q, L, s) \in Nat
         /\ Backing(Q, L, s) + (IF K[k] = s THEN P[k] ELSE 0)
              = Backing(P, K, s) + (IF L[k] = s THEN Q[k] ELSE 0)
<1> DEFINE f == Share(P, K, s)
           g == Share(Q, L, s)
<1>1. \A l \in Line : f[l] \in Nat /\ g[l] \in Nat /\ (l # k => f[l] = g[l])
  BY ShareValues
<1>2. f[k] = (IF K[k] = s THEN P[k] ELSE 0) /\ g[k] = (IF L[k] = s THEN Q[k] ELSE 0)
  BY ShareValues
<1> HIDE DEF f, g
<1>3. /\ SumFunctionOnSet(f, Line) \in Nat /\ SumFunctionOnSet(g, Line) \in Nat
      /\ SumFunctionOnSet(g, Line) + f[k] = SumFunctionOnSet(f, Line) + g[k]
  <2>1. IsFiniteSet(Line)
    BY CartAssumption
  <2>2. QED  BY <1>1, <2>1, SumChange
<1>4. QED  BY <1>2, <1>3 DEF f, g, Backing

\* Units that somebody asks for are counted for a line.
LEMMA BackingRaise ==
  ASSUME CartTypeOK, NEW P \in [Line -> Nat], NEW K \in Kinds,
         \A s \in Article : Backing(P, K, s) <= asked[s],
         NEW k \in Line, K[k] \in Article, NEW n \in Nat, Ask(K[k], n)
  PROVE  \A s \in Article : Backing([P EXCEPT ![k] = @ + n], K, s) <= asked'[s]
<1> DEFINE Q == [P EXCEPT ![k] = @ + n]
<1>1. Q \in [Line -> Nat] /\ Q[k] = P[k] + n /\ \A l \in Line \ {k} : Q[l] = P[l]
  OBVIOUS
<1> HIDE DEF Q
<1>2. ASSUME NEW s \in Article PROVE Backing(Q, K, s) <= asked'[s]
  <2>1. /\ Backing(P, K, s) \in Nat /\ Backing(Q, K, s) \in Nat
        /\ Backing(Q, K, s) + (IF K[k] = s THEN P[k] ELSE 0)
             = Backing(P, K, s) + (IF K[k] = s THEN Q[k] ELSE 0)
    BY <1>1, BackingChange
  <2>2. K[k] \in Article /\ P[k] \in Nat /\ asked[s] \in Nat
    BY DEF CartTypeOK
  <2>3. asked'[s] = asked[s] + IF K[k] = s THEN n ELSE 0
    BY <2>2, Asking
  <2>4. Backing(P, K, s) <= asked[s]
    OBVIOUS
  <2>5. QED  BY <1>1, <2>1, <2>2, <2>3, <2>4
<1>3. QED  BY <1>2 DEF Q

LEMMA BackingInsert ==
  ASSUME CartTypeOK, NEW P \in [Line -> Nat], NEW K \in Kinds,
         \A s \in Article : Backing(P, K, s) <= asked[s],
         NEW k \in Line, NEW t \in Article, NEW n \in Nat, Ask(t, n)
  PROVE  \A s \in Article :
           Backing([P EXCEPT ![k] = n], [K EXCEPT ![k] = t], s) <= asked'[s]
<1> DEFINE Q == [P EXCEPT ![k] = n]
           L == [K EXCEPT ![k] = t]
<1>1. /\ Q \in [Line -> Nat] /\ Q[k] = n /\ L \in Kinds /\ L[k] = t
      /\ \A l \in Line \ {k} : Q[l] = P[l] /\ L[l] = K[l]
  BY DEF Kinds
<1> HIDE DEF Q, L
<1>2. ASSUME NEW s \in Article PROVE Backing(Q, L, s) <= asked'[s]
  <2>1. /\ Backing(P, K, s) \in Nat /\ Backing(Q, L, s) \in Nat
        /\ Backing(Q, L, s) + (IF K[k] = s THEN P[k] ELSE 0)
             = Backing(P, K, s) + (IF L[k] = s THEN Q[k] ELSE 0)
    BY <1>1, BackingChange
  <2>2. P[k] \in Nat /\ asked[s] \in Nat
    BY DEF CartTypeOK
  <2>3. asked'[s] = asked[s] + IF t = s THEN n ELSE 0
    BY Asking
  <2>4. Backing(P, K, s) <= asked[s]
    OBVIOUS
  <2>5. QED  BY <1>1, <2>1, <2>2, <2>3, <2>4
<1>3. QED  BY <1>2 DEF Q, L

\* All units of one line are counted for another of the same article.
Moved(P, from, to) == [P EXCEPT ![to] = P[to] + P[from], ![from] = 0]

LEMMA BackingMove ==
  ASSUME NEW P \in [Line -> Nat], NEW K \in Kinds,
         NEW from \in Line, NEW to \in Line, from # to, K[from] = K[to], NEW s
  PROVE  /\ Moved(P, from, to) \in [Line -> Nat]
         /\ Moved(P, from, to)[to] = P[to] + P[from]
         /\ \A k \in Line \ {from} : Moved(P, from, to)[k] >= P[k]
         /\ Backing(Moved(P, from, to), K, s) = Backing(P, K, s)
<1> DEFINE R == [P EXCEPT ![to] = P[to] + P[from]]
           Q == [R EXCEPT ![from] = 0]
<1>1. R \in [Line -> Nat] /\ R[to] = P[to] + P[from] /\ \A l \in Line \ {to} : R[l] = P[l]
  OBVIOUS
<1>2. Moved(P, from, to) = Q
  BY DEF Moved
<1> HIDE DEF R
<1>3. Q \in [Line -> Nat] /\ Q[from] = 0 /\ \A l \in Line \ {from} : Q[l] = R[l]
  BY <1>1
<1> HIDE DEF Q
<1>4. /\ Backing(P, K, s) \in Nat /\ Backing(R, K, s) \in Nat
      /\ Backing(R, K, s) + (IF K[to] = s THEN P[to] ELSE 0)
           = Backing(P, K, s) + (IF K[to] = s THEN R[to] ELSE 0)
  BY <1>1, BackingChange
<1>5. /\ Backing(Q, K, s) \in Nat
      /\ Backing(Q, K, s) + (IF K[from] = s THEN R[from] ELSE 0)
           = Backing(R, K, s) + (IF K[from] = s THEN Q[from] ELSE 0)
  BY <1>1, <1>3, BackingChange
<1>6. R[from] = P[from] /\ P[from] \in Nat /\ P[to] \in Nat
  BY <1>1
<1>7. Backing(Q, K, s) = Backing(P, K, s)
  BY <1>1, <1>3, <1>4, <1>5, <1>6
<1>8. \A k \in Line \ {from} : Q[k] >= P[k]
  BY <1>1, <1>3
<1>9. QED  BY <1>1, <1>2, <1>3, <1>7, <1>8

LEMMA MergeFitsKept ==
  ASSUME CartTypeOK, NEW d \in Merging, calls'[d] = calls[d],
         Does(d, "merge") => FoundStands(d),
         NEW P \in [Line -> Nat], NEW K, NEW Q \in [Line -> Nat], NEW L,
         MergeFits(d, P, K),
         \A k \in Line : k \in Remembered(d) \cup There(calls[d].wrote) =>
           /\ items[k] = NoLine => items'[k] = NoLine
           /\ L[k] = K[k]
           /\ Q[k] >= P[k] \/ (k \notin Claimed(d) /\ Seen(d, k) = NoLine)
  PROVE  MergeFits(d, Q, L)'
<1> DEFINE job == calls[d]
<1>1. /\ d \in Call /\ Merges(d) /\ job.left \in Contents /\ job.wrote \in Contents
      /\ Does(d, "merge") => job \in MergeJob
  BY Jobs DEF Merging
<1>2. ASSUME NEW k \in There(job.left) PROVE Fits(job.left[k], k, Q, L)
  <2>1. k \in Line /\ k \in Remembered(d) /\ Fits(job.left[k], k, P, K)
        /\ job.left[k].units \in Nat /\ k \in Claimed(d)
    BY <1>1, <1>2 DEF There, Remembered, Claimed, MergeFits, Contents, CartItem
  <2>2. QED  BY <2>1 DEF Fits
<1>3. ASSUME NEW k \in There(job.wrote) PROVE Fits(job.wrote[k], k, Q, L)
  <2>1. k \in Line /\ Fits(job.wrote[k], k, P, K) /\ job.wrote[k].units \in Nat
        /\ Seen(d, k) # NoLine
    BY <1>1, <1>3 DEF There, MergeFits, Contents, CartItem, Seen
  <2>2. QED  BY <1>3, <2>1 DEF Fits
<1>4. ASSUME Does(d, "merge"), job.onto # NoLine, Seen(d, job.onto)' # NoLine
      PROVE  job.units <= Q[job.onto] + Q[job.line]
  <2>1. PICK onto, line, n : onto = job.onto /\ line = job.line /\ n = job.units
    OBVIOUS
  <2>2. /\ onto \in Line /\ line \in Line /\ n \in Nat
        /\ onto \in Remembered(d) /\ line \in Remembered(d) /\ line \in Claimed(d)
    BY <1>1, <1>4, <2>1 DEF MergeJob, FoundStands, Remembered, Claimed
  <2>3. Seen(d, onto)' = IF onto \in There(job.wrote) THEN job.wrote[onto] ELSE items'[onto]
    BY <1>1 DEF Seen, Merges, Does, There
  <2>4. Seen(d, onto) = IF onto \in There(job.wrote) THEN job.wrote[onto] ELSE items[onto]
    BY <1>1 DEF Seen
  <2>5. Seen(d, onto)' # NoLine
    BY <1>4, <2>1
  <2>6. Seen(d, onto) # NoLine
    BY <2>2, <2>3, <2>4, <2>5
  <2>7. n <= P[onto] + P[line]
    BY <1>4, <2>1, <2>6 DEF MergeFits
  <2>8. Q[onto] >= P[onto] /\ Q[line] >= P[line]
    BY <2>2, <2>6
  <2>9. QED  BY <2>1, <2>2, <2>7, <2>8
<1>5. QED  BY <1>1, <1>2, <1>3, <1>4 DEF MergeFits, There, Does

LEMMA AddFitsKept ==
  ASSUME CartTypeOK, NEW d \in Call, calls'[d] = calls[d], Does(d, "add"),
         NEW C \in SUBSET Call, NEW D \in SUBSET Call,
         NEW P \in [Line -> Nat], NEW K, NEW Q \in [Line -> Nat], NEW L,
         AddFits(d, D, P, K),
         \A k \in Line : k \in Remembered(d) =>
           /\ items[k] = NoLine => items'[k] = NoLine
           /\ L[k] = K[k]
           /\ k \in Gone(C)' \/ (k \notin Gone(D) /\ Q[k] >= P[k]) \/ items'[k] = NoLine
  PROVE  AddFits(d, C, Q, L)'
<1> DEFINE job == calls[d]
<1>1. SUFFICES ASSUME job.line \in There(items)'
               PROVE  /\ job.sku = L[job.line]
                      /\ job.line \in Gone(C)' \/ job.units <= Q[job.line] + job.more
  BY DEF AddFits
<1>2. PICK l : l = job.line
  OBVIOUS
<1>3. /\ l \in Line /\ l \in Remembered(d) /\ items'[l] # NoLine
      /\ job.units \in Nat /\ job.more \in Nat
  BY <1>1, <1>2, Jobs DEF There, Remembered, AddJob
<1>4. l \in There(items)
  BY <1>3 DEF There
<1>5. job.sku = K[l] /\ (l \in Gone(D) \/ job.units <= P[l] + job.more)
  BY <1>2, <1>4 DEF AddFits
<1>6. l \in Gone(C)' \/ (l \notin Gone(D) /\ Q[l] >= P[l])
  BY <1>3
<1>7. Q[l] \in Nat /\ P[l] \in Nat
  BY <1>3
<1>8. L[l] = K[l]
  BY <1>3
<1> HIDE DEF job
<1>9. job.units <= P[l] + job.more /\ Q[l] >= P[l] => job.units <= Q[l] + job.more
  BY <1>3, <1>7
<1>10. QED  BY <1>2, <1>5, <1>6, <1>8, <1>9

\* What has to be shown of a step: that the rows fit, and the calls it changes.
LEMMA BacksKept ==
  ASSUME CartTypeOK, MergeInv, NEW C \in SUBSET Call, NEW D \in SUBSET Call,
         NEW P \in [Line -> Nat], NEW K, NEW Q \in [Line -> Nat], NEW L, Backs(D, P, K),
         \A s \in Article : Backing(Q, L, s) <= asked'[s],
         RowsFit(C, Q, L)',
         \A d \in Call : Does(d, "add")' => calls'[d] = calls[d] \/ AddFits(d, C, Q, L)',
         \A d \in C \cap Merging' :
           (d \in D \cap Merging /\ calls'[d] = calls[d]) \/ MergeFits(d, Q, L)',
         \A k \in Line :
           \/ Fresh(k)
           \/ /\ items[k] = NoLine => items'[k] = NoLine
              /\ L[k] = K[k] /\ Q[k] >= P[k]
              /\ k \in Gone(C)' \/ k \notin Gone(D) \/ items'[k] = NoLine
  PROVE  Backs(C, Q, L)'
<1>1. ASSUME NEW d \in Call, Does(d, "add")' PROVE AddFits(d, C, Q, L)'
  <2>1. CASE calls'[d] = calls[d]
    <3>1. Does(d, "add") /\ AddFits(d, D, P, K)
      BY <1>1, <2>1 DEF Does, Backs
    <3>2. \A k \in Line : k \in Remembered(d) =>
            /\ items[k] = NoLine => items'[k] = NoLine
            /\ L[k] = K[k]
            /\ k \in Gone(C)' \/ (k \notin Gone(D) /\ Q[k] >= P[k]) \/ items'[k] = NoLine
      BY DEF Fresh
    <3>3. QED  BY <2>1, <3>1, <3>2, AddFitsKept
  <2>2. QED  BY <1>1, <2>1
<1>2. ASSUME NEW d \in C \cap Merging' PROVE MergeFits(d, Q, L)'
  <2>1. CASE d \in D \cap Merging /\ calls'[d] = calls[d]
    <3>1. /\ d \in Call /\ MergeFits(d, P, K) /\ MergeStands(d)
          /\ Does(d, "merge") => FoundStands(d)
      BY <2>1 DEF Backs, MergeInv, Merging
    <3>2. \A k \in Line : k \in Remembered(d) \cup There(calls[d].wrote) =>
            (items[k] = NoLine => items'[k] = NoLine) /\ L[k] = K[k] /\ Q[k] >= P[k]
      BY <3>1 DEF Fresh, MergeStands
    <3>3. QED  BY <2>1, <3>1, <3>2, MergeFitsKept
  <2>2. QED  BY <1>2, <2>1
<1>3. QED  BY <1>1, <1>2 DEF Backs

\* A step that changes one call, or none, and no row.
LEMMA BacksCalls ==
  ASSUME CartTypeOK, MergeInv, NEW c \in Call, \A d \in Call \ {c} : calls'[d] = calls[d],
         items' = items, asked' = asked,
         NEW C \in SUBSET Call, NEW D \in SUBSET Call, C \ {c} = D \ {c}, Gone(C)' = Gone(D),
         NEW P \in [Line -> Nat], NEW K, Backs(D, P, K),
         Does(c, "add")' => AddFits(c, C, P, K)',
         c \in C \cap Merging' => MergeFits(c, P, K)'
  PROVE  Backs(C, P, K)'
<1>1. \A s \in Article : Backing(P, K, s) <= asked'[s]
  BY DEF Backs
<1>2. RowsFit(C, P, K)'
  BY DEF Backs, RowsFit, There
<1>3. \A d \in Call : Does(d, "add")' => calls'[d] = calls[d] \/ AddFits(d, C, P, K)'
  OBVIOUS
<1>4. \A d \in C \cap Merging' :
        (d \in D \cap Merging /\ calls'[d] = calls[d]) \/ MergeFits(d, P, K)'
  <2>1. \A d \in Call \ {c} : d \in Merging' => d \in Merging
    BY DEF Merging, Merges, Does
  <2>2. QED  BY <2>1
<1>5. \A k \in Line :
        /\ items[k] = NoLine => items'[k] = NoLine
        /\ P[k] >= P[k]
        /\ k \in Gone(C)' \/ k \notin Gone(D) \/ items'[k] = NoLine
  OBVIOUS
<1>6. QED  BY <1>1, <1>2, <1>3, <1>4, <1>5, BacksKept

LEMMA QuietGone ==
  ASSUME CartTypeOK, NEW c \in Call, QuietStep(c), NEW C \in SUBSET Call
  PROVE  /\ Gone(C)' = Gone(C \ {c})
         /\ C \cap Merging' = (C \ {c}) \cap Merging
  BY QuietCalls DEF Gone

\* A row that is in a cart has a share.
LEMMA RowShare ==
  ASSUME CartTypeOK, NEW C, NEW P, NEW K, Backs(C, P, K), NEW k \in Line, items[k] # NoLine
  PROVE  /\ items[k] \in CartItem /\ items[k].sku = K[k]
         /\ k \in Gone(C) \/ items[k].units <= P[k]
  BY SeenRows DEF CartTypeOK, Contents, There, Backs, RowsFit

LEMMA ReadBacks ==
  ASSUME CartTypeOK, MergeInv, NEW c \in Call,
         \/ \E owner \in Owners, s \in Article : ReadForAdd(c, owner, s)
         \/ \E k \in Line : ReadForSet(c, k) \/ ReadForRemove(c, k),
         NEW C \in SUBSET Call, NEW P \in [Line -> Nat], NEW K, Backs(C, P, K)
  PROVE  Backs(C, P, K)'
<1>1. QuietStep(c)
  BY DEF QuietStep
<1>2. PICK job :
        /\ calls[c] = Idle /\ calls' = [calls EXCEPT ![c] = job]
        /\ items' = items /\ asked' = asked
        /\ \/ \E owner \in Owners, s \in Article : \E k \in Found(c, owner, s), n \in Quantities(s) :
                job = [do |-> "add", cart |-> owner, sku |-> s, line |-> k,
                       units |-> UnitsSeen(c, k) + n, more |-> n]
           \/ job.do \in {"set", "remove"}
  <2> DEFINE MakesAdd(job) ==
               \E owner \in Owners, s \in Article : \E k \in Found(c, owner, s), n \in Quantities(s) :
                 job = [do |-> "add", cart |-> owner, sku |-> s, line |-> k,
                        units |-> UnitsSeen(c, k) + n, more |-> n]
             Reads(job) == /\ calls[c] = Idle /\ calls' = [calls EXCEPT ![c] = job]
                           /\ items' = items /\ asked' = asked
  <2>1. ASSUME NEW owner \in Owners, NEW s \in Article, ReadForAdd(c, owner, s)
        PROVE  \E job : Reads(job) /\ MakesAdd(job)
    <3>1. PICK k \in Found(c, owner, s), n \in Quantities(s) :
            Reads([do |-> "add", cart |-> owner, sku |-> s, line |-> k,
                   units |-> UnitsSeen(c, k) + n, more |-> n])
      BY <2>1 DEF ReadForAdd, Begin
    <3>2. MakesAdd([do |-> "add", cart |-> owner, sku |-> s, line |-> k,
                units |-> UnitsSeen(c, k) + n, more |-> n])
      OBVIOUS
    <3> HIDE DEF MakesAdd, Reads
    <3>3. QED  BY <3>1, <3>2
  <2>2. ASSUME NEW k \in Line, ReadForSet(c, k) \/ ReadForRemove(c, k)
        PROVE  \E job : Reads(job) /\ job.do \in {"set", "remove"}
    <3>1. ASSUME NEW job, ReadLine(c, k, job) PROVE Reads(job)
      BY <3>1 DEF ReadLine, Begin
    <3>2. CASE ReadForSet(c, k)
      <4>1. PICK n : ReadLine(c, k, [do |-> "set", line |-> k, units |-> n])
        BY <3>2 DEF ReadForSet
      <4> HIDE DEF Reads
      <4>2. [do |-> "set", line |-> k, units |-> n].do = "set"
        OBVIOUS
      <4>3. QED  BY <3>1, <4>1, <4>2
    <3>3. CASE ReadForRemove(c, k)
      <4> HIDE DEF Reads
      <4>1. [do |-> "remove", line |-> k].do = "remove"
        OBVIOUS
      <4>2. QED  BY <3>1, <3>3, <4>1 DEF ReadForRemove
    <3>4. QED  BY <2>2, <3>2, <3>3
  <2> HIDE DEF MakesAdd, Reads
  <2>3. PICK job : Reads(job) /\ (MakesAdd(job) \/ job.do \in {"set", "remove"})
    BY <2>1, <2>2
  <2>4. QED  BY <2>3 DEF MakesAdd, Reads
<1>3. calls'[c] = job /\ \A d \in Call \ {c} : calls'[d] = calls[d]
  BY <1>2 DEF CartTypeOK
<1>4. c \notin Merging /\ c \notin Merging' /\ Gone(C)' = Gone(C)
  <2>1. c \notin Merging
    BY <1>2 DEF Merging, Merges, Does
  <2>2. QED  BY <1>1, <2>1, QuietCalls, QuietGone DEF Gone
<1>5. ASSUME Does(c, "add")' PROVE AddFits(c, C, P, K)'
  <2>0. PICK owner \in Owners, s \in Article : \E k \in Found(c, owner, s), n \in Quantities(s) :
          job = [do |-> "add", cart |-> owner, sku |-> s, line |-> k,
                 units |-> UnitsSeen(c, k) + n, more |-> n]
    BY <1>2, <1>3, <1>5 DEF Does
  <2>1. PICK k \in Found(c, owner, s), n \in Quantities(s) :
          job = [do |-> "add", cart |-> owner, sku |-> s, line |-> k,
                 units |-> UnitsSeen(c, k) + n, more |-> n]
    BY <2>0
  <2>2. job.line = k /\ job.sku = s /\ job.units = UnitsSeen(c, k) + n /\ job.more = n /\ n \in Nat
    BY <2>1 DEF Quantities
  <2>3. ASSUME k \in There(items) PROVE s = K[k] /\ (k \in Gone(C) \/ job.units <= P[k] + n)
    <3>1. /\ k \in Line /\ items[k] # NoLine /\ Seen(c, k) = items[k] /\ items[k].sku = s
          /\ k # NoLine
      BY <1>4, <2>1, <2>3, CartAssumption DEF There, Found, LinesOf, InCart, Seen, Merging
    <3>2. /\ items[k] \in CartItem /\ items[k].sku = K[k]
          /\ k \in Gone(C) \/ items[k].units <= P[k]
      BY <3>1, RowShare
    <3>3. job.units = items[k].units + n /\ items[k].units \in Nat /\ P[k] \in Nat
      BY <2>2, <3>1, <3>2 DEF UnitsSeen, CartItem
    <3>4. QED  BY <2>2, <3>1, <3>2, <3>3
  <2>4. QED  BY <1>2, <1>3, <1>4, <2>2, <2>3 DEF AddFits, There
<1>6. QED  BY <1>2, <1>3, <1>4, <1>5, BacksCalls

LEMMA DropBacks ==
  ASSUME CartTypeOK, MergeInv, NEW c \in Call, DropCall(c),
         NEW C \in SUBSET Call, NEW P \in [Line -> Nat], NEW K, Backs(C \ {c}, P, K)
  PROVE  Backs(C, P, K)'
<1>1. QuietStep(c)
  BY DEF QuietStep
<1>2. /\ calls'[c] = Idle /\ \A d \in Call \ {c} : calls'[d] = calls[d]
      /\ items' = items /\ asked' = asked
  BY DEF DropCall, End, Goes, CartTypeOK
<1>3. c \notin Merging' /\ ~Does(c, "add")' /\ Gone(C)' = Gone(C \ {c})
  BY <1>1, <1>2, QuietGone DEF Merging, Merges, Does
<1>4. QED  BY <1>2, <1>3, BacksCalls

LEMMA StartBacks ==
  ASSUME CartTypeOK, MergeInv, ~Overlap,
         NEW c \in Call, NEW u \in User, NEW g \in Guest, StartMerge(c, u, g),
         NEW C \in SUBSET Call, NEW P \in [Line -> Nat], NEW K, Backs(C, P, K)
  PROVE  Backs(C, P, K)'
<1> DEFINE left == Without(items, Line \ Stored(g))
           job == [do |-> "find", user |-> u, guest |-> g, left |-> left, added |-> {},
                   wrote |-> NoRows]
<1>1. /\ calls[c] = Idle /\ calls' = [calls EXCEPT ![c] = job]
      /\ items' = items /\ asked' = asked
      /\ \A d \in Merging : calls[d].guest # g
  BY DEF StartMerge, Begin, Merging
<1>2. calls'[c] = job /\ \A d \in Call \ {c} : calls'[d] = calls[d]
  BY <1>1 DEF CartTypeOK
<1>3. There(left) = Stored(g) /\ There(NoRows) = {} /\ \A k \in Stored(g) : left[k] = items[k]
  BY DEF Without, There, Stored, NoRows
<1> HIDE DEF left
<1>4. job.do = "find" /\ job.left = left /\ job.added = {} /\ job.wrote = NoRows
  OBVIOUS
<1> HIDE DEF job
<1>5. c \notin Merging /\ \A d \in Call \ {c} : d \in Merging' <=> d \in Merging
  BY <1>1, <1>2 DEF Merging, Merges, Does
<1>6. Gone(C)' = Gone(C)
  <2>1. \A d \in Merging : calls'[d].added = calls[d].added
    BY <1>2, <1>5 DEF Merging
  <2>2. \A k : k \in Gone(C)' <=> k \in Gone(C)
    <3>1. \A k : k \in Gone(C)' <=> \E d \in C \cap Merging' : k \in calls'[d].added
      BY DEF Gone
    <3>2. \A k : k \in Gone(C) <=> \E d \in C \cap Merging : k \in calls[d].added
      BY DEF Gone
    <3>3. \A k : k \notin calls'[c].added
      BY <1>2, <1>4
    <3>4. QED  BY <1>5, <2>1, <3>1, <3>2, <3>3
  <2>3. QED  BY <2>2
<1>7. ASSUME NEW k \in Stored(g) PROVE Fits(left[k], k, P, K)
  <2>1. k \in Line /\ items[k] # NoLine /\ items[k].cart = g
    BY <1>7 DEF Stored, There
  <2>2. k \notin Gone(C)
    BY <1>1, <2>1 DEF Gone, MergeInv, MergeStands, Claimed
  <2>3. QED  BY <1>3, <1>7, <2>1, <2>2, RowShare DEF Fits
<1>8. MergeFits(c, P, K)'
  <2>1. There(left) = Stored(g) /\ ~Does(c, "merge")'
    BY <1>2, <1>3, <1>4 DEF Does
  <2>2. QED  BY <1>2, <1>3, <1>4, <1>7, <2>1 DEF MergeFits, There
<1>9. ~Does(c, "add")'
  BY <1>2, <1>4 DEF Does
<1>10. QED  BY <1>1, <1>2, <1>6, <1>8, <1>9, BacksCalls

\* A call that is in a merge before and after, and adds no line.
LEMMA GoneSame ==
  ASSUME CartTypeOK, NEW c \in Merging, c \in Merging', \A d \in Call \ {c} : calls'[d] = calls[d],
         NEW C \in SUBSET Call, c \in C => calls'[c].added = calls[c].added
  PROVE  Gone(C)' = Gone(C)
<1>1. \A d \in C : d \in Merging' <=> d \in Merging
  BY DEF Merging, Merges, Does
<1>2. \A d \in C : calls'[d].added = calls[d].added
  OBVIOUS
<1>3. \A k : k \in Gone(C)' <=> \E d \in C \cap Merging' : k \in calls'[d].added
  BY DEF Gone
<1>4. \A k : k \in Gone(C) <=> \E d \in C \cap Merging : k \in calls[d].added
  BY DEF Gone
<1>5. \A k : k \in Gone(C)' <=> k \in Gone(C)
  BY <1>1, <1>2, <1>3, <1>4
<1>6. QED  BY <1>5

\* The line a merge found for the guest's line has no units that are gone.
LEMMA NotGone ==
  ASSUME CartTypeOK, MergeInv, NEW C \in SUBSET Call, NEW k \in Line,
         \/ items[k] # NoLine /\ items[k].cart \in User
         \/ \E c \in Merging : k \in There(calls[c].left) \/ k \in There(calls[c].wrote)
  PROVE  k \notin Gone(C)
<1> SUFFICES ASSUME NEW d \in C \cap Merging, k \in calls[d].added PROVE FALSE
  BY DEF Gone
<1>1. MergeStands(d) /\ k \in Claimed(d) /\ calls[d].guest \in Guest
  BY Jobs DEF MergeInv, Claimed, Merging
<1>2. ASSUME NEW c \in Merging, k \in There(calls[c].left) PROVE FALSE
  BY <1>1, <1>2 DEF MergeInv, MergesApart, MergeStands, Claimed
<1>3. ASSUME NEW c \in Merging, k \in There(calls[c].wrote) PROVE FALSE
  BY <1>1, <1>3, WrittenUnclaimed
<1>4. QED  BY <1>1, <1>2, <1>3, CartAssumption DEF MergeStands

LEMMA FindBacks ==
  ASSUME CartTypeOK, MergeInv, NEW c \in Call, NEW k \in Line, FindExisting(c, k),
         NEW C \in SUBSET Call, NEW P \in [Line -> Nat], NEW K, Backs(C, P, K)
  PROVE  Backs(C, P, K)'
<1> DEFINE was == calls[c]
           job == calls'[c]
<1>1. /\ was \in FindJob /\ k \in There(was.left) /\ was.left[k] \in CartItem
      /\ job \in MergeJob /\ calls' = [calls EXCEPT ![c] = job]
      /\ job.left = was.left /\ job.added = was.added /\ job.wrote = was.wrote /\ job.line = k
      /\ job.onto \in Found(c, was.user, was.left[k].sku)
      /\ job.units = UnitsSeen(c, job.onto) + was.left[k].units
  BY FindFields
<1>2. items' = items /\ asked' = asked /\ Does(c, "find")
  BY DEF FindExisting
<1>3. Does(c, "merge")' /\ ~Does(c, "add")' /\ c \in Merging /\ c \in Merging'
  BY <1>1, <1>2, JobGoesOn DEF Does, Merging, Merges
<1>4. \A d \in Call \ {c} : calls'[d] = calls[d]
  BY <1>1 DEF CartTypeOK
<1>5. Gone(C)' = Gone(C)
  BY <1>1, <1>3, <1>4, GoneSame
<1>6. ASSUME c \in C, job.onto # NoLine PROVE job.units <= P[job.onto] + P[k]
  <2>1. PICK onto : onto = job.onto
    OBVIOUS
  <2>2. onto \in Line /\ onto # NoLine /\ Seen(c, onto) # NoLine /\ Seen(c, onto).cart = was.user
    BY <1>1, <1>6, <2>1 DEF Found, LinesOf, InCart
  <2>3. MergeFits(c, P, K) /\ was.user \in User /\ was.left \in Contents
    BY <1>1, <1>3, <1>6 DEF Backs, FindJob
  <2>4. was.left[k].units <= P[k] /\ was.left[k].units \in Nat
    BY <1>1, <2>3 DEF MergeFits, Fits, CartItem
  <2>5. Seen(c, onto).units <= P[onto]
    <3>1. CASE onto \in There(was.wrote)
      BY <1>3, <2>3, <3>1 DEF Seen, MergeFits, Fits, Merging
    <3>2. CASE onto \notin There(was.wrote)
      <4>1. Seen(c, onto) = items[onto]
        BY <3>2 DEF Seen
      <4>2. onto \notin Gone(C)
        BY <2>2, <2>3, <4>1, NotGone
      <4>3. QED  BY <2>2, <4>1, <4>2, RowShare
    <3>3. QED  BY <3>1, <3>2
  <2>6. Seen(c, onto).units \in Nat
    BY <2>2, SeenRows DEF CartItem
  <2>7. job.units = Seen(c, onto).units + was.left[k].units
    BY <1>1, <2>1, <2>2 DEF UnitsSeen
  <2>8. P[onto] \in Nat /\ P[k] \in Nat
    BY <2>2
  <2>9. job.units <= P[onto] + P[k]
    BY <2>4, <2>5, <2>6, <2>7, <2>8
  <2>10. QED  BY <2>1, <2>9
<1>7. ASSUME c \in C PROVE MergeFits(c, P, K)'
  <2>1. MergeFits(c, P, K)
    BY <1>3, <1>7 DEF Backs
  <2>2. There(job.left) = There(was.left) /\ There(job.wrote) = There(was.wrote)
    BY <1>1
  <2>3. QED  BY <1>1, <1>6, <1>7, <2>1, <2>2 DEF MergeFits, There
<1>8. QED  BY <1>2, <1>3, <1>4, <1>5, <1>7, BacksCalls

LEMMA MoveBacks ==
  ASSUME CartTypeOK, MergeInv, NEW c \in Call, MoveLine(c),
         NEW C \in SUBSET Call, NEW P \in [Line -> Nat], NEW K, Backs(C, P, K)
  PROVE  Backs(C, P, K)'
<1> DEFINE was == calls[c]
           job == calls'[c]
<1>1. PICK line, row :
        line = was.line /\ row = [items[was.line] EXCEPT !.cart = was.user]
  OBVIOUS
<1>2. /\ Does(c, "merge") /\ c \in Merging /\ line \in There(was.left) /\ line \in Line
      /\ row \in CartItem /\ Wrote(c, line, row) /\ items[line] # NoLine
      /\ row.sku = items[line].sku /\ row.units = items[line].units
  BY <1>1, Moves DEF There
<1>3. /\ was \in MergeJob /\ job \in FindJob /\ calls' = [calls EXCEPT ![c] = job]
      /\ job.left = Without(was.left, {was.line})
      /\ job.added = was.added \cup ({was.line} \ {line})
      /\ job.wrote = [was.wrote EXCEPT ![line] = row]
  <2>1. JobWrote(was, job, line, row) /\ calls' = [calls EXCEPT ![c] = job]
    BY <1>2, WroteFields
  <2>2. QED  BY <2>1 DEF JobWrote
<1>4. items' = items /\ asked' = asked
  BY <1>2 DEF Wrote
<1>5. job.do = "find" /\ job # Idle
  BY <1>3, JobGoesOn
<1>6. ~Does(c, "merge")' /\ ~Does(c, "add")' /\ c \in Merging'
  BY <1>5 DEF Does, Merging, Merges
<1>7. \A d \in Call \ {c} : calls'[d] = calls[d]
  BY <1>3 DEF CartTypeOK
<1>8. Gone(C)' = Gone(C)
  <2>1. job.added = was.added
    BY <1>1, <1>3
  <2>2. QED  BY <1>2, <1>6, <1>7, <2>1, GoneSame
<1>9. Fits(row, line, P, K)
  <2>1. line \notin Gone(C)
    BY <1>2, NotGone
  <2>2. QED  BY <1>2, <2>1, RowShare DEF Fits
<1>10. ASSUME c \in C PROVE MergeFits(c, P, K)'
  <2>1. MergeFits(c, P, K) /\ was.wrote \in Contents
    BY <1>2, <1>3, <1>10 DEF Backs, MergeJob
  <2>2. ASSUME NEW k \in There(job.left) PROVE Fits(job.left[k], k, P, K)
    <3>1. k \in There(was.left) /\ job.left[k] = was.left[k]
      BY <1>3, <2>2 DEF There, Without
    <3>2. QED  BY <2>1, <3>1 DEF MergeFits
  <2>3. ASSUME NEW k \in There(job.wrote) PROVE Fits(job.wrote[k], k, P, K)
    <3>1. CASE k = line
      <4> HIDE DEF job, was
      <4>1. job.wrote[line] = row
        BY <1>2, <1>3, <2>1 DEF Contents
      <4>2. QED  BY <1>9, <3>1, <4>1
    <3>2. CASE k # line
      <4>1. k \in There(was.wrote) /\ job.wrote[k] = was.wrote[k]
        BY <1>3, <2>1, <2>3, <3>2 DEF There, Contents
      <4>2. QED  BY <2>1, <4>1 DEF MergeFits
    <3>3. QED  BY <3>1, <3>2
  <2>4. QED  BY <1>6, <2>2, <2>3 DEF MergeFits, There
<1>11. QED  BY <1>4, <1>6, <1>7, <1>8, <1>10, BacksCalls

LEMMA AddBacks ==
  ASSUME CartTypeOK, MergeInv, NEW c \in Call, AddToExisting(c),
         NEW C \in SUBSET Call, NEW P \in [Line -> Nat], NEW K \in Kinds,
         Backs(C, P, K)
  PROVE  \E Q \in [Line -> Nat] : Backs(C, Q, K)'
<1> DEFINE was == calls[c]
           job == calls'[c]
<1>1. PICK onto, line, row :
        /\ onto = was.onto /\ line = was.line
        /\ row = [Seen(c, was.onto) EXCEPT !.units = was.units]
  OBVIOUS
<1>2. /\ Does(c, "merge") /\ c \in Merging /\ onto \in Line /\ line \in There(was.left)
      /\ row \in CartItem /\ Wrote(c, onto, row) /\ row.units = was.units
      /\ row.sku = was.left[line].sku /\ items[onto] # NoLine /\ row.sku = items[onto].sku
      /\ Seen(c, onto) # NoLine /\ \A d \in Merging : onto \notin Claimed(d)
  BY <1>1, AddsTo, NothingAssumption
<1>3. /\ was \in MergeJob /\ job \in FindJob /\ calls' = [calls EXCEPT ![c] = job]
      /\ job.left = Without(was.left, {line}) /\ job.added = was.added \cup ({line} \ {onto})
      /\ job.wrote = [was.wrote EXCEPT ![onto] = row]
  <2>1. JobWrote(was, job, onto, row) /\ calls' = [calls EXCEPT ![c] = job]
    BY <1>2, WroteFields
  <2>2. QED  BY <1>1, <2>1 DEF JobWrote
<1>4. items' = items /\ asked' = asked
  BY <1>2 DEF Wrote
<1>5. job.do = "find" /\ job # Idle
  BY <1>3, JobGoesOn
<1>6. ~Does(c, "merge")' /\ ~Does(c, "add")' /\ c \in Merging'
  BY <1>5 DEF Does, Merging, Merges
<1>7. \A d \in Call \ {c} : calls'[d] = calls[d]
  BY <1>3 DEF CartTypeOK
<1>8. CASE c \notin C
  <2>1. Gone(C)' = Gone(C)
    BY <1>2, <1>6, <1>7, <1>8, GoneSame
  <2>2. Backs(C, P, K)'
    BY <1>4, <1>6, <1>7, <1>8, <2>1, BacksCalls
  <2>3. QED  BY <2>2
<1>9. CASE c \in C
  <2>1. /\ MergeFits(c, P, K) /\ was.wrote \in Contents /\ line \in Line /\ line # onto
        /\ was.left[line].sku = K[line]
    <3>1. MergeFits(c, P, K)
      BY <1>2, <1>9 DEF Backs
    <3>2. was.wrote \in Contents
      BY <1>3 DEF MergeJob
    <3>3. line \in Line /\ line # onto
      BY <1>2 DEF There, Claimed
    <3>4. Fits(was.left[line], line, P, K)
      BY <1>2, <3>1 DEF MergeFits
    <3>5. QED  BY <3>1, <3>2, <3>3, <3>4 DEF Fits
  <2>2. items[onto].sku = K[onto] /\ K[line] = K[onto]
    <3>1. items[onto].sku = K[onto]
      BY <1>2, RowShare
    <3>2. row.sku = was.left[line].sku /\ row.sku = items[onto].sku
      BY <1>2
    <3>3. QED  BY <2>1, <3>1, <3>2
  <2> DEFINE Q == Moved(P, line, onto)
  <2>3. /\ Q \in [Line -> Nat] /\ Q[onto] = P[onto] + P[line]
        /\ \A k \in Line \ {line} : Q[k] >= P[k]
        /\ \A s \in Article : Backing(Q, K, s) = Backing(P, K, s)
    BY <1>2, <2>1, <2>2, BackingMove
  <2> HIDE DEF Q
  <2>4. Gone(C)' = Gone(C) \cup {line}
    <3>1. \A d \in Call : d \in Merging' <=> d \in Merging
      BY <1>2, <1>6, <1>7 DEF Merging, Merges, Does
    <3>2. job.added = was.added \cup {line}
      BY <1>3, <2>1
    <3>3. \A k : k \in Gone(C)' <=> \E d \in C \cap Merging' : k \in calls'[d].added
      BY DEF Gone
    <3>4. \A k : k \in Gone(C) <=> \E d \in C \cap Merging : k \in calls[d].added
      BY DEF Gone
    <3>5. \A k : k \in Gone(C)' <=> k \in Gone(C) \/ k = line
      BY <1>2, <1>6, <1>7, <1>9, <3>1, <3>2, <3>3, <3>4
    <3>6. QED  BY <3>5
  <2>5. \A s \in Article : Backing(Q, K, s) <= asked'[s]
    BY <1>4, <2>3 DEF Backs
  <2>6. RowsFit(C, Q, K)'
    <3>1. ASSUME NEW k \in There(items)
          PROVE  items[k].sku = K[k] /\ (k \in Gone(C)' \/ items[k].units <= Q[k])
      <4>1. /\ k \in Line /\ items[k] \in CartItem /\ items[k].sku = K[k]
            /\ k \in Gone(C) \/ items[k].units <= P[k]
        BY <3>1, RowShare DEF There
      <4>2. items[k].units \in Nat /\ P[k] \in Nat /\ Q[k] \in Nat
        BY <2>3, <4>1 DEF CartItem
      <4>3. k # line => Q[k] >= P[k]
        BY <2>3, <4>1
      <4>4. QED  BY <2>4, <4>1, <4>2, <4>3
    <3>2. QED  BY <1>4, <3>1 DEF RowsFit, There
  <2>7. ASSUME NEW d \in Call, Does(d, "add")' PROVE AddFits(d, C, Q, K)'
    <3>1. d # c /\ calls'[d] = calls[d]
      BY <1>6, <1>7, <2>7
    <3>2. Does(d, "add") /\ AddFits(d, C, P, K)
      BY <2>7, <3>1 DEF Does, Backs
    <3>3. ASSUME NEW k \in Line PROVE k \in Gone(C)' \/ (k \notin Gone(C) /\ Q[k] >= P[k])
      BY <2>3, <2>4
    <3>4. QED  BY <1>4, <2>3, <3>1, <3>2, <3>3, AddFitsKept
  <2>8. ASSUME NEW d \in C \cap Merging', d # c PROVE MergeFits(d, Q, K)'
    <3>1. calls'[d] = calls[d] /\ d \in Merging /\ d \in Call
      BY <1>7, <2>8 DEF Merging, Merges, Does
    <3>2. MergeFits(d, P, K) /\ MergeStands(c) /\ (Does(d, "merge") => FoundStands(d))
      BY <1>2, <2>8, <3>1 DEF Backs, MergeInv
    <3>3. line \notin Claimed(d) /\ line \notin There(calls[d].wrote) /\ line \in Claimed(c)
      BY <1>2, <2>8, <3>1, WrittenUnclaimed DEF MergeInv, MergesApart, Claimed
    <3>4. CASE Does(d, "merge") /\ calls[d].onto = line /\ Seen(d, line) # NoLine
      <4>1. calls[d].user \in User /\ calls[c].guest \in Guest
        BY <1>2, <3>1, Jobs DEF Merging
      <4>2. Seen(d, line) = items[line] /\ items[line].cart = calls[d].user
        BY <2>1, <3>2, <3>3, <3>4, CartAssumption DEF Seen, FoundStands
      <4>3. FALSE
        BY <3>2, <3>3, <3>4, <4>1, <4>2, CartAssumption DEF MergeStands
      <4>4. QED  BY <4>3
    <3>5. CASE ~(Does(d, "merge") /\ calls[d].onto = line /\ Seen(d, line) # NoLine)
      <4>1. ASSUME NEW k \in Line, k \in Remembered(d) \cup There(calls[d].wrote)
            PROVE  Q[k] >= P[k] \/ (k \notin Claimed(d) /\ Seen(d, k) = NoLine)
        <5>1. CASE k = line
          <6>1. k \in Remembered(d)
            BY <3>3, <4>1, <5>1
          <6>2. Merges(d)
            BY <3>1 DEF Merging
          <6>3. Does(d, "merge") /\ calls[d].onto = line
            BY <3>3, <5>1, <6>1, <6>2 DEF Remembered, Claimed, Merges, Does
          <6>4. QED  BY <3>3, <3>5, <5>1, <6>3
        <5>2. CASE k # line
          BY <2>3, <5>2
        <5>3. QED  BY <5>1, <5>2
      <4>2. QED  BY <1>4, <2>3, <3>1, <3>2, <4>1, MergeFitsKept
    <3>6. QED  BY <3>4, <3>5
  <2>9. MergeFits(c, Q, K)'
    <3>1. ASSUME NEW k \in There(job.left) PROVE Fits(job.left[k], k, Q, K)
      <4>1. /\ k \in Line \ {line} /\ job.left[k] = was.left[k] /\ k \in There(was.left)
            /\ was.left \in Contents
        BY <1>3, <3>1 DEF There, Without, MergeJob
      <4>2. Fits(was.left[k], k, P, K) /\ was.left[k].units \in Nat
        BY <2>1, <4>1 DEF MergeFits, Contents, There, CartItem
      <4>3. QED  BY <2>3, <4>1, <4>2 DEF Fits
    <3>2. ASSUME NEW k \in There(job.wrote) PROVE Fits(job.wrote[k], k, Q, K)
      <4>1. CASE k = onto
        <5>1. job.wrote[onto] = row
          <6> HIDE DEF job, was
          <6>1. QED  BY <1>2, <1>3, <2>1 DEF Contents
        <5>2. was.units <= P[onto] + P[line]
          BY <1>1, <1>2, <2>1, CartAssumption DEF MergeFits
        <5>3. QED  BY <1>2, <2>2, <2>3, <4>1, <5>1, <5>2 DEF Fits
      <4>2. CASE k # onto
        <5>1. k \in There(was.wrote) /\ job.wrote[k] = was.wrote[k]
          <6> HIDE DEF job, was
          <6>1. QED  BY <1>2, <1>3, <2>1, <3>2, <4>2 DEF There, Contents
        <5>2. k \in Line /\ k # line
          <6>1. line \in Claimed(c)
            BY <1>2 DEF Claimed
          <6>2. QED  BY <1>2, <5>1, <6>1, WrittenUnclaimed DEF There
        <5>3. Fits(was.wrote[k], k, P, K) /\ was.wrote[k].units \in Nat
          BY <2>1, <5>1 DEF MergeFits, Contents, There, CartItem
        <5>4. QED  BY <2>3, <5>1, <5>2, <5>3 DEF Fits
      <4>3. QED  BY <4>1, <4>2
    <3>3. QED  BY <1>6, <3>1, <3>2 DEF MergeFits, There
  <2>10. Backs(C, Q, K)'
    BY <2>5, <2>6, <2>7, <2>8, <2>9 DEF Backs
  <2>11. QED  BY <2>3, <2>10
<1>10. QED  BY <1>8, <1>9

\* Rows that are taken away are nobody's.
LEMMA RemoveBacks ==
  ASSUME CartTypeOK, MergeInv, asked' = asked,
         \A k \in Line : items'[k] = items[k] \/ items'[k] = NoLine,
         \A d \in Call : calls'[d] = calls[d] \/ (calls'[d] = Idle /\ d \notin Merging),
         NEW C \in SUBSET Call, NEW P \in [Line -> Nat], NEW K, Backs(C, P, K)
  PROVE  Backs(C, P, K)'
<1>1. Merging' = Merging /\ \A d \in Merging : calls'[d] = calls[d]
  BY DEF Merging, Merges, Does
<1>2. Gone(C)' = Gone(C)
  BY <1>1 DEF Gone
<1>3. \A s \in Article : Backing(P, K, s) <= asked'[s]
  BY DEF Backs
<1>4. RowsFit(C, P, K)'
  BY <1>2 DEF Backs, RowsFit, There
<1>5. \A d \in Call : Does(d, "add")' => calls'[d] = calls[d]
  BY DEF Does
<1>6. \A k \in Line :
        /\ items[k] = NoLine => items'[k] = NoLine
        /\ P[k] >= P[k]
        /\ k \in Gone(C)' \/ k \notin Gone(C) \/ items'[k] = NoLine
  BY <1>2
<1>7. QED  BY <1>1, <1>3, <1>4, <1>5, <1>6, BacksKept

LEMMA FinishBacks ==
  ASSUME CartTypeOK, MergeInv, NEW c \in Call, FinishMerge(c),
         NEW C \in SUBSET Call, NEW P \in [Line -> Nat], NEW K, Backs(C \cup {c}, P, K)
  PROVE  Backs(C, P, K)'
<1> DEFINE D == C \cup {c}
<1>1. /\ c \in Merging /\ MergeStands(c) /\ MergeFits(c, P, K) /\ asked' = asked
      /\ calls'[c] = Idle /\ \A d \in Call \ {c} : calls'[d] = calls[d]
      /\ QuietStep(c)
  BY DEF FinishMerge, End, Goes, Merging, Merges, MergeInv, Backs, QuietStep, CartTypeOK
<1>2. /\ \A d : d \in C \cap Merging' <=> d \in C \ {c} /\ d \in Merging
      /\ ~Does(c, "add")'
  BY <1>1, QuietGone DEF Does
<1>3. \A k : k \in Gone(D) => k \in Gone(C)' \/ k \in calls[c].added
  <2>1. \A k : k \in Gone(C)' <=> \E d \in C \cap Merging' : k \in calls'[d].added
    BY DEF Gone
  <2>2. \A k : k \in Gone(D) <=> \E d \in D \cap Merging : k \in calls[d].added
    BY DEF Gone
  <2>3. \A d \in D \cap Merging : d = c \/ (d \in C \cap Merging' /\ calls'[d] = calls[d])
    BY <1>1, <1>2
  <2>4. QED  BY <2>1, <2>2, <2>3
<1>4. ASSUME NEW k \in Line
      PROVE  /\ items'[k] = IF k \in Deleted(c) THEN NoLine ELSE Seen(c, k)
             /\ Seen(c, k) = IF k \in There(calls[c].wrote) THEN calls[c].wrote[k] ELSE items[k]
  BY <1>1 DEF FinishMerge, Without, Seen, Merging
<1>5. ASSUME NEW k \in Line, k \in calls[c].added PROVE items'[k] = NoLine
  <2>1. k \notin There(calls[c].wrote) /\ (items[k] # NoLine => items[k].cart = calls[c].guest)
    BY <1>1, <1>5 DEF MergeStands, Claimed
  <2>2. items[k] # NoLine => k \in Deleted(c)
    BY <1>4, <2>1 DEF Deleted, InCart
  <2>3. QED  BY <1>4, <2>1, <2>2
<1>6. ASSUME NEW k \in Line, items[k] = NoLine PROVE items'[k] = NoLine
  BY <1>1, <1>4, <1>6 DEF MergeStands
<1>7. ASSUME NEW k \in There(items)'
      PROVE  items'[k].sku = K[k] /\ (k \in Gone(C)' \/ items'[k].units <= P[k])
  <2>1. k \in Line /\ items'[k] # NoLine /\ items'[k] = Seen(c, k)
    BY <1>4, <1>7 DEF There
  <2>2. CASE k \in There(calls[c].wrote)
    BY <1>1, <1>4, <2>1, <2>2 DEF MergeFits, Fits
  <2>3. CASE k \notin There(calls[c].wrote)
    <3>1. items'[k] = items[k] /\ items[k] # NoLine
      BY <1>4, <2>1, <2>3
    <3>2. items[k].sku = K[k] /\ (k \in Gone(D) \/ items[k].units <= P[k])
      BY <2>1, <3>1, RowShare
    <3>3. QED  BY <1>3, <1>5, <2>1, <3>1, <3>2
  <2>4. QED  BY <2>2, <2>3
<1>8. RowsFit(C, P, K)'
  BY <1>7 DEF RowsFit, There
<1>9. \A s \in Article : Backing(P, K, s) <= asked'[s]
  BY <1>1 DEF Backs
<1>10. \A k \in Line :
         /\ items[k] = NoLine => items'[k] = NoLine
         /\ P[k] >= P[k]
         /\ k \in Gone(C)' \/ k \notin Gone(D) \/ items'[k] = NoLine
  BY <1>3, <1>5, <1>6
<1>11. \A d \in Call : Does(d, "add")' => calls'[d] = calls[d]
  BY <1>1, <1>2
<1>12. \A d \in C \cap Merging' : d \in D \cap Merging /\ calls'[d] = calls[d]
  BY <1>1, <1>2
<1>13. QED  BY <1>8, <1>9, <1>10, <1>11, <1>12, BacksKept

\* A line gets other units, and as many as it gets more are asked for.
LEMMA RaiseBacks ==
  ASSUME CartTypeOK, MergeInv, NEW c \in Call, c \notin Merging, QuietStep(c), calls'[c] = Idle,
         NEW C \in SUBSET Call, NEW P \in [Line -> Nat], NEW K \in Kinds,
         Backs(C, P, K),
         NEW k \in Line, items[k] # NoLine, NEW n \in Nat \ {0}, NEW more \in Nat,
         items' = [items EXCEPT ![k].units = n], Ask(K[k], more),
         k \in Gone(C) \/ n <= P[k] + more
  PROVE  \E Q \in [Line -> Nat] : Backs(C, Q, K)'
<1> DEFINE Q == [P EXCEPT ![k] = @ + more]
<1>1. /\ Q \in [Line -> Nat] /\ Q[k] = P[k] + more /\ \A l \in Line \ {k} : Q[l] = P[l]
  OBVIOUS
<1>2. \A s \in Article : Backing(Q, K, s) <= asked'[s]
  <2>1. items[k] \in CartItem /\ items[k].sku = K[k]
    BY RowShare
  <2>2. K[k] \in Article
    BY <2>1 DEF CartItem
  <2>3. QED  BY <2>2, BackingRaise DEF Backs
<1> HIDE DEF Q
<1>3. /\ C \cap Merging' = C \cap Merging /\ Gone(C)' = Gone(C)
      /\ \A d \in Merging' : d \in Merging /\ calls'[d] = calls[d]
  <2>1. (C \ {c}) \cap Merging = C \cap Merging
    OBVIOUS
  <2>2. Gone(C \ {c}) = Gone(C)
    BY <2>1 DEF Gone
  <2>3. QED  BY <2>1, <2>2, QuietGone, QuietCalls
<1>4. \A d \in Call : Does(d, "add")' => calls'[d] = calls[d]
  <2>1. \A d \in Call \ {c} : calls'[d] = calls[d]
    <3>1. \E job : calls' = [calls EXCEPT ![c] = job]
      BY DEF QuietStep, ReadForAdd, ReadForSet, ReadForRemove, ReadLine, Begin, WriteUnits,
             InsertLine, SetUnits, DeleteLine, FinishMerge, DropCall, End, Goes
    <3>2. QED  BY <3>1 DEF CartTypeOK
  <2>2. QED  BY <2>1 DEF Does
<1>5. /\ items' = [items EXCEPT ![k] = [items[k] EXCEPT !.units = n]]
      /\ items[k] \in CartItem /\ items \in Contents
  BY SeenRows DEF CartTypeOK
<1>6. /\ items'[k].units = n /\ items'[k].sku = items[k].sku
      /\ \A l \in Line \ {k} : items'[l] = items[l]
  BY <1>5 DEF Contents, CartItem
<1>7. RowsFit(C, Q, K)'
  <2>1. ASSUME NEW l \in There(items)'
        PROVE  items'[l].sku = K[l] /\ (l \in Gone(C)' \/ items'[l].units <= Q[l])
    <3>1. CASE l = k
      BY <1>1, <1>3, <1>6, <3>1, RowShare
    <3>2. CASE l # k
      <4>1. l \in Line /\ items'[l] = items[l] /\ items[l] # NoLine /\ Q[l] = P[l]
        BY <1>1, <1>6, <2>1, <3>2 DEF There
      <4>2. items[l].sku = K[l] /\ (l \in Gone(C) \/ items[l].units <= P[l])
        BY <4>1, RowShare
      <4>3. QED  BY <1>3, <4>1, <4>2
    <3>3. QED  BY <3>1, <3>2
  <2>2. QED  BY <2>1 DEF RowsFit, There
<1>8. \A l \in Line :
        /\ items[l] = NoLine => items'[l] = NoLine
        /\ Q[l] >= P[l]
        /\ l \in Gone(C)' \/ l \notin Gone(C) \/ items'[l] = NoLine
  BY <1>1, <1>3, <1>6
<1>9. \A d \in C \cap Merging' : d \in C \cap Merging /\ calls'[d] = calls[d]
  BY <1>3
<1>10. Backs(C, Q, K)'
  BY <1>1, <1>2, <1>4, <1>7, <1>8, <1>9, BacksKept
<1>11. QED  BY <1>1, <1>10

LEMMA WriteBacks ==
  ASSUME CartTypeOK, MergeInv, NEW c \in Call, WriteUnits(c),
         NEW C \in SUBSET Call, NEW P \in [Line -> Nat], NEW K \in Kinds,
         Backs(C, P, K)
  PROVE  \E Q \in [Line -> Nat] : Backs(C, Q, K)'
<1>1. PICK k, n, more, s :
        k = calls[c].line /\ n = calls[c].units /\ more = calls[c].more /\ s = calls[c].sku
  OBVIOUS
<1>2. /\ Does(c, "add") /\ calls[c] \in AddJob /\ items[k] # NoLine /\ k # NoLine
      /\ items' = [items EXCEPT ![k].units = n] /\ Ask(s, more)
      /\ calls'[c] = Idle /\ QuietStep(c)
  BY <1>1, Jobs DEF WriteUnits, End, Goes, QuietStep, CartTypeOK
<1>3. k \in Line /\ n \in Nat \ {0} /\ more \in Nat
  BY <1>1, <1>2 DEF AddJob
<1>4. c \notin Merging
  BY <1>2 DEF Merging, Merges, Does
<1>5. s = K[k] /\ (k \in Gone(C) \/ n <= P[k] + more)
  <2>1. AddFits(c, C, P, K)
    BY <1>2 DEF Backs
  <2>2. k \in There(items)
    BY <1>2, <1>3 DEF There
  <2>3. QED  BY <1>1, <2>1, <2>2 DEF AddFits
<1>6. QED  BY <1>2, <1>3, <1>4, <1>5, RaiseBacks

LEMMA SetBacks ==
  ASSUME CartTypeOK, MergeInv, NEW c \in Call, SetUnits(c),
         NEW C \in SUBSET Call, NEW P \in [Line -> Nat], NEW K \in Kinds,
         Backs(C, P, K)
  PROVE  \E Q \in [Line -> Nat] : Backs(C, Q, K)'
<1>1. PICK k, n, more, s :
        /\ k = calls[c].line /\ n = calls[c].units /\ s = items[k].sku
        /\ more = Max({0, n - items[k].units})
  OBVIOUS
<1>2. /\ Does(c, "set") /\ calls[c] \in SetJob /\ items[k] # NoLine
      /\ items' = [items EXCEPT ![k].units = n] /\ Ask(s, more)
      /\ calls'[c] = Idle /\ QuietStep(c)
  BY <1>1, Jobs DEF SetUnits, End, Goes, QuietStep, CartTypeOK
<1>3. k \in Line /\ n \in Nat \ {0}
  BY <1>1, <1>2 DEF SetJob
<1>4. c \notin Merging
  BY <1>2 DEF Merging, Merges, Does
<1>5. /\ items[k] \in CartItem /\ items[k].sku = K[k]
      /\ k \in Gone(C) \/ items[k].units <= P[k]
  BY <1>2, <1>3, RowShare
<1>6. items[k].units \in Nat /\ n - items[k].units \in Int
  BY <1>3, <1>5 DEF CartItem
<1>7. more \in Nat /\ n - items[k].units <= more
  BY <1>1, <1>6, MaxOrNone
<1>8. k \in Gone(C) \/ n <= P[k] + more
  <2>1. P[k] \in Nat
    BY <1>3
  <2>2. QED  BY <1>3, <1>5, <1>6, <1>7, <2>1
<1>9. s = K[k]
  BY <1>1, <1>5
<1>10. QED  BY <1>2, <1>3, <1>4, <1>7, <1>8, <1>9, RaiseBacks

LEMMA InsertBacks ==
  ASSUME CartTypeOK, MergeInv, AddsWhole, NEW c \in Call, InsertLine(c),
         NEW C \in SUBSET Call, NEW P \in [Line -> Nat], NEW K \in Kinds,
         Backs(C, P, K)
  PROVE  \E Q \in [Line -> Nat], L \in Kinds : Backs(C, Q, L)'
<1>1. PICK n, s, row :
        /\ n = calls[c].units /\ s = calls[c].sku
        /\ row = [cart |-> calls[c].cart, sku |-> s, units |-> n]
  OBVIOUS
<1>2. /\ Does(c, "add") /\ calls[c] \in AddJob /\ calls[c].line = NoLine
      /\ Ask(s, calls[c].more) /\ calls' = [calls EXCEPT ![c] = Idle] /\ QuietStep(c)
  BY <1>1, Jobs DEF InsertLine, End, Goes, QuietStep
<1>3. s \in Article /\ n \in Nat \ {0} /\ Ask(s, n) /\ row.sku = s /\ row.units = n
  BY <1>1, <1>2 DEF AddJob, AddsWhole
<1>4. PICK k \in Line : Fresh(k) /\ items' = [items EXCEPT ![k] = row]
  BY <1>1 DEF InsertLine
<1>5. items'[k] = row /\ \A l \in Line \ {k} : items'[l] = items[l]
  BY <1>4 DEF CartTypeOK, Contents
<1>6. calls'[c] = Idle /\ \A d \in Call \ {c} : calls'[d] = calls[d]
  BY <1>2 DEF CartTypeOK
<1> DEFINE Q == [P EXCEPT ![k] = n]
           L == [K EXCEPT ![k] = s]
<1>7. /\ Q \in [Line -> Nat] /\ L \in Kinds /\ Q[k] = n /\ L[k] = s
      /\ \A l \in Line \ {k} : Q[l] = P[l] /\ L[l] = K[l]
  BY <1>3 DEF Kinds
<1>8. \A t \in Article : Backing(Q, L, t) <= asked'[t]
  BY <1>3, BackingInsert DEF Backs
<1> HIDE DEF Q, L
<1>9. /\ Gone(C)' = Gone(C)
      /\ \A d \in Merging' : d \in Merging /\ calls'[d] = calls[d]
  <2>1. (C \ {c}) \cap Merging = C \cap Merging
    BY <1>2 DEF Merging, Merges, Does
  <2>2. Gone(C \ {c}) = Gone(C)
    BY <2>1 DEF Gone
  <2>3. QED  BY <1>2, <2>1, <2>2, QuietGone, QuietCalls
<1>10. \A d \in Call : Does(d, "add")' => calls'[d] = calls[d] \/ AddFits(d, C, Q, L)'
  BY <1>6 DEF Does
<1>11. RowsFit(C, Q, L)'
  <2>1. ASSUME NEW l \in There(items)'
        PROVE  items'[l].sku = L[l] /\ (l \in Gone(C)' \/ items'[l].units <= Q[l])
    <3>1. CASE l = k
      BY <1>3, <1>5, <1>7, <3>1
    <3>2. CASE l # k
      <4>1. /\ l \in Line /\ items'[l] = items[l] /\ items[l] # NoLine
            /\ Q[l] = P[l] /\ L[l] = K[l]
        BY <1>5, <1>7, <2>1, <3>2 DEF There
      <4>2. items[l].sku = K[l] /\ (l \in Gone(C) \/ items[l].units <= P[l])
        BY <4>1, RowShare
      <4>3. QED  BY <1>9, <4>1, <4>2
    <3>3. QED  BY <3>1, <3>2
  <2>2. QED  BY <2>1 DEF RowsFit, There
<1>12. \A l \in Line :
         \/ Fresh(l)
         \/ /\ items[l] = NoLine => items'[l] = NoLine
            /\ L[l] = K[l] /\ Q[l] >= P[l]
            /\ l \in Gone(C)' \/ l \notin Gone(C) \/ items'[l] = NoLine
  BY <1>4, <1>5, <1>7, <1>9
<1>13. \A d \in C \cap Merging' :
         (d \in C \cap Merging /\ calls'[d] = calls[d]) \/ MergeFits(d, Q, L)'
  BY <1>9
<1>14. Backs(C, Q, L)'
  BY <1>7, <1>8, <1>10, <1>11, <1>12, <1>13, BacksKept
<1>15. QED  BY <1>7, <1>14

LEMMA WholeStep ==
  ASSUME CartTypeOK, AddsWhole, [CartNext]_cartVars
  PROVE  AddsWhole'
<1> DEFINE Whole(job) == job # Idle /\ job.do = "add" /\ job.line = NoLine => job.units = job.more
<1>1. \A c \in Call : Whole(calls[c])
  BY DEF AddsWhole, Does
<1>2. ASSUME NEW c \in Call, NEW job, Whole(job), calls' = [calls EXCEPT ![c] = job]
      PROVE  AddsWhole'
  <2>1. calls'[c] = job /\ \A d \in Call \ {c} : calls'[d] = calls[d]
    BY <1>2 DEF CartTypeOK
  <2>2. \A d \in Call : Whole(calls'[d])
    BY <1>1, <1>2, <2>1
  <2>3. QED  BY <2>2 DEF AddsWhole, Does
<1>3. CASE calls' = calls
  BY <1>3 DEF AddsWhole, Does
<1>4. ASSUME NEW c \in Call, NEW job, job = Idle \/ job.do # "add",
             calls' = [calls EXCEPT ![c] = job]
      PROVE  AddsWhole'
  BY <1>2, <1>4
<1>5. ASSUME NEW c \in Call, NEW owner \in Owners, NEW s \in Article, ReadForAdd(c, owner, s)
      PROVE  AddsWhole'
  <2>1. PICK k, n :
          /\ k \in Found(c, owner, s) /\ n \in Quantities(s)
          /\ calls' = [calls EXCEPT ![c] =
               [do |-> "add", cart |-> owner, sku |-> s, line |-> k,
                units |-> UnitsSeen(c, k) + n, more |-> n]]
    BY <1>5 DEF ReadForAdd, Begin
  <2> DEFINE job == [do |-> "add", cart |-> owner, sku |-> s, line |-> k,
                     units |-> UnitsSeen(c, k) + n, more |-> n]
  <2>2. n \in Nat /\ (k = NoLine => UnitsSeen(c, k) = 0)
    BY <2>1 DEF Quantities, UnitsSeen
  <2>3. job.line = NoLine => job.units = job.more
    BY <2>2
  <2>4. Whole(job)
    BY <2>3
  <2> HIDE DEF Whole
  <2>5. QED  BY <1>2, <2>1, <2>4
<1>6. ASSUME NEW c \in Call, NEW k \in Line, ReadForSet(c, k) \/ ReadForRemove(c, k)
      PROVE  AddsWhole'
  <2>1. ASSUME NEW job, job.do # "add", ReadLine(c, k, job) PROVE AddsWhole'
    BY <1>4, <2>1 DEF ReadLine, Begin
  <2>2. \A n : [do |-> "set", line |-> k, units |-> n].do # "add"
    OBVIOUS
  <2>3. [do |-> "remove", line |-> k].do # "add"
    OBVIOUS
  <2>4. QED  BY <1>6, <2>1, <2>2, <2>3 DEF ReadForSet, ReadForRemove
<1>7. ASSUME NEW c \in Call, WriteUnits(c) \/ InsertLine(c) \/ SetUnits(c) \/ DeleteLine(c)
                             \/ FinishMerge(c) \/ DropCall(c)
      PROVE  AddsWhole'
  BY <1>4, <1>7 DEF WriteUnits, InsertLine, SetUnits, DeleteLine, FinishMerge, DropCall, End, Goes
<1>8. ASSUME NEW c \in Call, NEW u \in User, NEW g \in Guest, StartMerge(c, u, g)
      PROVE  AddsWhole'
  <2>1. PICK job : job.do = "find" /\ calls' = [calls EXCEPT ![c] = job]
    BY <1>8 DEF StartMerge, Begin
  <2>2. QED  BY <1>4, <2>1
<1>9. ASSUME NEW c \in Call, NEW k \in Line, FindExisting(c, k) PROVE AddsWhole'
  BY <1>4, <1>9, FindFields, JobGoesOn
<1>10. ASSUME NEW c \in Call, NEW k, NEW row, Wrote(c, k, row) PROVE AddsWhole'
  <2>1. PICK job : job.do = "find" /\ calls' = [calls EXCEPT ![c] = job]
    BY <1>10 DEF Wrote
  <2>2. QED  BY <1>4, <2>1
<1>11. ASSUME NEW c \in Call, AddToExisting(c) \/ MoveLine(c) PROVE AddsWhole'
  BY <1>10, <1>11 DEF AddToExisting, MoveLine
<1>12. CASE (\E g \in Guest : NewGuestCart(g) \/ SweepGuestCart(g))
            \/ (\E owner \in Owners : ClearCart(owner)) \/ UNCHANGED cartVars
  BY <1>3, <1>12 DEF NewGuestCart, SweepGuestCart, ClearCart, cartVars
<1>13. QED
  BY <1>5, <1>6, <1>7, <1>8, <1>9, <1>11, <1>12 DEF CartNext

LEMMA BackedStep ==
  ASSUME CartTypeOK, MergeInv, AddsWhole, Backed, ~Overlap, [CartNext]_cartVars
  PROVE  Backed'
<1> DEFINE Goal(C) == \E P \in [Line -> Nat], K \in Kinds : Backs(C, P, K)'
<1>1. SUFFICES ASSUME NEW C \in SUBSET Call PROVE Goal(C)
  BY DEF Backed
<1>2. ASSUME NEW D \in SUBSET Call PROVE \E P \in [Line -> Nat], K \in Kinds : Backs(D, P, K)
  BY DEF Backed
<1>3. PICK P \in [Line -> Nat], K \in Kinds : Backs(C, P, K)
  BY <1>2
<1>4. ASSUME NEW gone, items' = Without(items, gone), calls' = calls, asked' = asked
      PROVE  Goal(C)
  <2>1. \A k \in Line : items'[k] = items[k] \/ items'[k] = NoLine
    BY <1>4 DEF Without
  <2>2. QED  BY <1>3, <1>4, <2>1, RemoveBacks
<1>5. ASSUME NEW g \in Guest, NewGuestCart(g) PROVE Goal(C)
  BY <1>3, <1>5, RemoveBacks DEF NewGuestCart
<1>6. ASSUME NEW g \in Guest, SweepGuestCart(g) PROVE Goal(C)
  BY <1>4, <1>6 DEF SweepGuestCart
<1>7. ASSUME NEW owner \in Owners, ClearCart(owner) PROVE Goal(C)
  BY <1>4, <1>7 DEF ClearCart
<1>8. ASSUME NEW c \in Call, NEW owner \in Owners, NEW s \in Article, ReadForAdd(c, owner, s)
      PROVE  Goal(C)
  BY <1>3, <1>8, ReadBacks
<1>9. ASSUME NEW c \in Call, NEW k \in Line, ReadForSet(c, k) \/ ReadForRemove(c, k)
      PROVE  Goal(C)
  BY <1>3, <1>9, ReadBacks
<1>10. ASSUME NEW c \in Call, WriteUnits(c) PROVE Goal(C)
  BY <1>3, <1>10, WriteBacks
<1>11. ASSUME NEW c \in Call, SetUnits(c) PROVE Goal(C)
  BY <1>3, <1>11, SetBacks
<1>12. ASSUME NEW c \in Call, InsertLine(c) PROVE Goal(C)
  BY <1>3, <1>12, InsertBacks
<1>13. ASSUME NEW c \in Call, DeleteLine(c) PROVE Goal(C)
  <2>1. /\ Does(c, "remove") /\ asked' = asked /\ calls' = [calls EXCEPT ![c] = Idle]
        /\ items' = [items EXCEPT ![calls[c].line] = NoLine]
    BY <1>13 DEF DeleteLine, End, Goes
  <2>2. \A k \in Line : items'[k] = items[k] \/ items'[k] = NoLine
    BY <2>1 DEF CartTypeOK, Contents
  <2>3. \A d \in Call : calls'[d] = calls[d] \/ (calls'[d] = Idle /\ d \notin Merging)
    BY <2>1 DEF CartTypeOK, Merging, Merges, Does
  <2>4. QED  BY <1>3, <2>1, <2>2, <2>3, RemoveBacks
<1>14. ASSUME NEW c \in Call, NEW u \in User, NEW g \in Guest, StartMerge(c, u, g)
       PROVE  Goal(C)
  BY <1>3, <1>14, StartBacks
<1>15. ASSUME NEW c \in Call, NEW k \in Line, FindExisting(c, k) PROVE Goal(C)
  BY <1>3, <1>15, FindBacks
<1>16. ASSUME NEW c \in Call, AddToExisting(c) PROVE Goal(C)
  BY <1>3, <1>16, AddBacks
<1>17. ASSUME NEW c \in Call, MoveLine(c) PROVE Goal(C)
  BY <1>3, <1>17, MoveBacks
<1>18. ASSUME NEW c \in Call, FinishMerge(c) PROVE Goal(C)
  BY <1>2, <1>18, FinishBacks
<1>19. ASSUME NEW c \in Call, DropCall(c) PROVE Goal(C)
  BY <1>2, <1>19, DropBacks
<1>20. CASE UNCHANGED cartVars
  BY <1>3, <1>20, RemoveBacks DEF cartVars
<1> HIDE DEF Goal
<1>21. QED
  BY <1>5, <1>6, <1>7, <1>8, <1>9, <1>10, <1>11, <1>12, <1>13, <1>14, <1>15, <1>16, <1>17,
     <1>18, <1>19, <1>20 DEF CartNext

LEMMA CartStart ==
  ASSUME CartInit
  PROVE  MergeInv /\ AddsWhole /\ Backed
<1>1. Merging = {} /\ \A c \in Call : ~Does(c, "add")
  BY DEF CartInit, Merging, Merges, Does
<1>2. MergeInv /\ AddsWhole
  BY <1>1 DEF MergeInv, OneMergeEach, MergesApart, AddsWhole
<1>3. Backed
  <2> DEFINE P == [k \in Line |-> 0]
             K == [k \in Line |-> NoLine]
  <2>1. P \in [Line -> Nat] /\ K \in Kinds
    BY DEF Kinds
  <2>2. ASSUME NEW s \in Article PROVE Backing(P, K, s) = 0
    <3>1. \A k \in Line : Share(P, K, s)[k] = 0
      BY DEF Share
    <3>2. Share(P, K, s) = [k \in Line |-> 0]
      BY DEF Share
    <3>3. QED  BY <3>1, SumZeros, CartAssumption DEF Backing
  <2>3. \A s \in Article : asked[s] = 0
    BY DEF CartInit
  <2>4. There(items) = {}
    BY DEF CartInit, There, NoRows
  <2> HIDE DEF P, K
  <2>5. ASSUME NEW C \in SUBSET Call PROVE Backs(C, P, K)
    BY <1>1, <2>2, <2>3, <2>4 DEF Backs, RowsFit
  <2>6. QED  BY <2>1, <2>5 DEF Backed
<1>4. QED  BY <1>2, <1>3

\* However adding, changing, merging, sweeping and clearing interleave, the carts
\* never hold more units of an article than were asked for, if of the merges of
\* one guest's cart one runs at a time.
THEOREM CountedOnce == ~Overlap => (CartSpec => []NothingCountedTwice)
<1> SUFFICES ASSUME ~Overlap PROVE CartSpec => []NothingCountedTwice
  OBVIOUS
<1> DEFINE Inv == CartTypeOK /\ MergeInv /\ AddsWhole /\ Backed
<1>1. CartInit => Inv
  BY CartTypesStart, CartStart
<1>2. Inv /\ [CartNext]_cartVars => Inv'
  BY CartTypes, MergeStep, WholeStep, BackedStep
<1>3. Inv => NothingCountedTwice
  <2> SUFFICES ASSUME Inv, NEW s \in Article
               PROVE  LET held == {k \in There(items) : items[k].sku = s}
                      IN  SumFunctionOnSet([k \in held |-> items[k].units], held) <= asked[s]
    BY DEF NothingCountedTwice
  <2> DEFINE held == {k \in There(items) : items[k].sku = s}
             f == [k \in held |-> items[k].units]
             h == [k \in Line |-> IF k \in held THEN items[k].units ELSE 0]
  <2>1. PICK P \in [Line -> Nat], K \in Kinds : Backs({}, P, K)
    BY DEF Backed
  <2>2. held \in SUBSET Line /\ \A k \in held : items[k].units \in Nat
    <3>1. \A k \in There(items) : k \in Line /\ items[k] \in CartItem
      BY DEF CartTypeOK, Contents, There
    <3>2. QED  BY <3>1 DEF CartItem
  <2>3. ASSUME NEW k \in Line
        PROVE  /\ h[k] \in Nat /\ h[k] = IF k \in held THEN f[k] ELSE 0
               /\ Share(P, K, s)[k] \in Nat /\ h[k] <= Share(P, K, s)[k]
    <3>1. Share(P, K, s)[k] = (IF K[k] = s THEN P[k] ELSE 0) /\ P[k] \in Nat
      BY ShareValues
    <3>2. k \in held => items[k].sku = K[k] /\ items[k].units <= P[k]
      BY <2>1 DEF Backs, RowsFit, Gone
    <3>3. QED  BY <2>2, <3>1, <3>2
  <2>4. SumFunctionOnSet(h, Line) = SumFunctionOnSet(f, held)
    <3> HIDE DEF f, h, held
    <3>1. QED  BY <2>2, <2>3, SumSame, CartAssumption
  <2>5. SumFunctionOnSet(h, Line) <= Backing(P, K, s)
    <3> HIDE DEF h
    <3>1. QED  BY <2>3, SumLess, CartAssumption DEF Backing
  <2>6. SumFunctionOnSet(h, Line) \in Nat /\ Backing(P, K, s) \in Nat
    <3> HIDE DEF h
    <3>1. QED  BY <2>3, SumRemove, CartAssumption DEF Backing
  <2>7. Backing(P, K, s) <= asked[s] /\ asked[s] \in Nat
    BY <2>1 DEF Backs, CartTypeOK
  <2> HIDE DEF f, h, held
  <2>8. SumFunctionOnSet(f, held) <= asked[s]
    BY <2>4, <2>5, <2>6, <2>7
  <2>9. QED  BY <2>8 DEF f, held
<1>4. QED
  <2> HIDE DEF Inv
  <2>1. QED  BY <1>1, <1>2, <1>3, PTL DEF CartSpec

-----------------------------------------------------------------------------
(* Checkouts *)

USE ConstantsAssumption DEF PC, Reply, Empty, Nothing, NoItem

-----------------------------------------------------------------------------
(* Type correctness *)

LEMMA RollbackTypeOK ==
  ASSUME TypeOK, NEW r \in Request, NEW answer \in Reply, Rollback(r, answer)
  PROVE  TypeOK'
<1> USE DEF Rollback, TypeOK, ReleaseLocks, Unlocked, db
<1>1. cartLock' \in [Customer -> Request \cup {NoOne}]
  OBVIOUS
<1>2. couponLock' \in Request \cup {NoOne} /\ rowLock' \in [Row -> Request \cup {NoOne}]
  OBVIOUS
<1>3. lines' \in [Request -> [Sku -> Nat]] /\ taken' \in [Request -> [Row -> Nat]]
  OBVIOUS
<1>4. item' \in [Request -> [row : Row \cup {NoRow}, units : Nat]]
  OBVIOUS
<1>5. QED  BY <1>1, <1>2, <1>3, <1>4

LEMMA InitTypeOK == Init => TypeOK
<1> SUFFICES ASSUME Init PROVE TypeOK
  OBVIOUS
<1>1. cart \in [Customer -> [Sku -> Nat]] /\ put \in [Customer -> [Sku -> Nat]]
  BY DEF Init
<1>2. QED  BY <1>1 DEF Init, TypeOK

\* Every step keeps every variable in its type.
LEMMA NextTypeOK == TypeOK /\ [Next]_vars => TypeOK'
<1> SUFFICES ASSUME TypeOK, [Next]_vars PROVE TypeOK'
  OBVIOUS
<1> USE DEF db, locks, txn
<1>1. ASSUME NEW r \in Request, Submit(r) PROVE TypeOK'
  BY <1>1 DEF Submit, TypeOK
<1>2. ASSUME NEW r \in Request, LockCart(r) PROVE TypeOK'
  BY <1>2 DEF LockCart, LinesIn, TypeOK
<1>3. ASSUME NEW r \in Request, LockCoupon(r) PROVE TypeOK'
  BY <1>3 DEF LockCoupon, TypeOK
<1>4. ASSUME NEW r \in Request, NEW s \in Sku, AddDigitalItem(r, s) PROVE TypeOK'
  <2>1. StoreOfSku(s) \in Stores
    BY DEF StoreOfSku, Stores
  <2>2. QED  BY <1>4, <2>1 DEF AddDigitalItem, TypeOK
<1>5. ASSUME NEW r \in Request, NEW s \in Sku, PickWarehouse(r, s) PROVE TypeOK'
  <2>1. StoreOfSku(s) \in Stores
    BY DEF StoreOfSku, Stores
  <2>2. item' \in [Request -> [row : Row \cup {NoRow}, units : Nat]]
    BY <1>5 DEF PickWarehouse, BestRows, Rows, TypeOK
  <2>3. QED  BY <1>5, <2>1, <2>2 DEF PickWarehouse, TypeOK
<1>6. ASSUME NEW r \in Request, ReserveStock(r) PROVE TypeOK'
  <2>1. item[r].units \in Nat /\ item[r].row \in Row \cup {NoRow}
    BY DEF TypeOK
  <2>2. taken' \in [Request -> [Row -> Nat]]
    <3> DEFINE row == item[r].row
               mine == [taken[r] EXCEPT ![row] = taken[r][row] + item[r].units]
    <3>1. taken[r] \in [Row -> Nat] /\ taken \in [Request -> [Row -> Nat]]
      BY DEF TypeOK
    <3>2. mine \in [Row -> Nat]
      <4>1. CASE row \in Row
        BY <2>1, <3>1, <4>1
      <4>2. CASE row \notin Row
        BY <3>1, <4>2
      <4>3. QED  BY <4>1, <4>2
    <3>3. taken' = [taken EXCEPT ![r] = mine]
      BY <1>6 DEF ReserveStock, AddUnits
    <3>4. QED  BY <3>1, <3>2, <3>3
  <2>3. rowLock' \in [Row -> Request \cup {NoOne}]
    BY <1>6, <2>1 DEF ReserveStock, TypeOK
  <2>4. QED  BY <1>6, <2>2, <2>3 DEF ReserveStock, TypeOK
<1>7. ASSUME NEW r \in Request, Commit(r) PROVE TypeOK'
  <2>1. reserved' \in [Row -> Nat]
    BY <1>7 DEF Commit, TypeOK
  <2>2. Redeems(r) \in Nat
    BY DEF Redeems
  <2>3. used' \in Nat /\ redeemed' \in [Customer -> Nat]
    BY <1>7, <2>2 DEF Commit, TypeOK
  <2>4. cart' \in [Customer -> [Sku -> Nat]]
    BY <1>7 DEF Commit, TypeOK
  <2>5. /\ cartLock' \in [Customer -> Request \cup {NoOne}]
        /\ couponLock' \in Request \cup {NoOne}
        /\ rowLock' \in [Row -> Request \cup {NoOne}]
    BY <1>7 DEF Commit, ReleaseLocks, Unlocked, TypeOK
  <2>6. QED  BY <1>7, <2>1, <2>3, <2>4, <2>5 DEF Commit, TypeOK
<1>8. ASSUME NEW r \in Request, Respond(r) PROVE TypeOK'
  BY <1>8 DEF Respond, TypeOK
<1>9. ASSUME NEW r \in Request, NEW answer \in Reply, Rollback(r, answer) PROVE TypeOK'
  BY <1>9, RollbackTypeOK
<1>10. ASSUME NEW r \in Request, LoseProcess(r) PROVE TypeOK'
  <2>1. CASE Rollback(r, "lost")
    BY <2>1, <1>9
  <2>2. CASE ~Rollback(r, "lost")
    <3>1. /\ pc' = [pc EXCEPT ![r] = "done"] /\ reply' = [reply EXCEPT ![r] = "lost"]
          /\ UNCHANGED <<db, locks, lines, todo, group, item, taken, put, edits>>
      BY <1>10, <2>2 DEF LoseProcess
    <3>2. QED  BY <3>1 DEF TypeOK
  <2>3. QED  BY <2>1, <2>2
<1>11. ASSUME NEW c \in Customer, NEW s \in Sku, AddToCart(c, s) PROVE TypeOK'
  BY <1>11 DEF AddToCart, TypeOK
<1>12. ASSUME NEW c \in Customer, NEW s \in Sku, RemoveLine(c, s) PROVE TypeOK'
  BY <1>12 DEF RemoveLine, TypeOK
<1>13. CASE UNCHANGED vars
  BY <1>13 DEF vars, TypeOK
<1>14. ASSUME NEW r \in Request, Serve(r) PROVE TypeOK'
  BY <1>14, <1>2, <1>3, <1>4, <1>5, <1>6, <1>7, <1>8, <1>9
     DEF Serve, Fill, RejectEmptyCart, RejectCoupon, RejectNoWarehouse, RejectLostRace
<1>15. QED
  BY <1>1, <1>14, <1>9, <1>10, <1>11, <1>12, <1>13
     DEF Next, AbortDeadlocked, Finished

\* The state of the shop never leaves its types: no counter goes negative, no
\* request works on lines or rows that do not exist.
THEOREM TypeCorrect == Spec => []TypeOK
BY InitTypeOK, NextTypeOK, PTL DEF Spec

-----------------------------------------------------------------------------
(* The stock rows are never oversold *)

Phases ==
  \A r \in Request :
    /\ pc[r] = "respond" => r \in placed
    /\ r \in placed => pc[r] \in {"respond", "done"}
    /\ pc[r] = "reserve" => item[r].row \in Row

LockedUnits == \A r \in Open, row \in Row : taken[r][row] > 0 => rowLock[row] = r

StockInv == Phases /\ LockedUnits /\ NoOversell

\* The steps that leave stock and orders alone.
Quiet == UNCHANGED <<reserved, placed, taken, rowLock>>

LEMMA PhasesStep == TypeOK /\ Phases /\ [Next]_vars => Phases'
<1> SUFFICES ASSUME TypeOK, Phases, [Next]_vars PROVE Phases'
  OBVIOUS
<1> USE DEF db, locks, txn, Phases, TypeOK
<1>1. ASSUME NEW r \in Request, Submit(r) PROVE Phases'
  BY <1>1 DEF Submit
<1>2. ASSUME NEW r \in Request, LockCart(r) PROVE Phases'
  BY <1>2 DEF LockCart
<1>3. ASSUME NEW r \in Request, LockCoupon(r) PROVE Phases'
  BY <1>3 DEF LockCoupon
<1>4. ASSUME NEW r \in Request, NEW s \in Sku, AddDigitalItem(r, s) PROVE Phases'
  BY <1>4 DEF AddDigitalItem
<1>5. ASSUME NEW r \in Request, NEW s \in Sku, PickWarehouse(r, s) PROVE Phases'
  BY <1>5 DEF PickWarehouse, BestRows, Rows
<1>6. ASSUME NEW r \in Request, ReserveStock(r) PROVE Phases'
  BY <1>6 DEF ReserveStock
<1>7. ASSUME NEW r \in Request, Commit(r) PROVE Phases'
  BY <1>7 DEF Commit
<1>8. ASSUME NEW r \in Request, Respond(r) PROVE Phases'
  BY <1>8 DEF Respond
<1>9. ASSUME NEW r \in Request, NEW answer, Rollback(r, answer) PROVE Phases'
  BY <1>9 DEF Rollback
<1>10. ASSUME NEW r \in Request, LoseProcess(r) PROVE Phases'
  <2>1. CASE Rollback(r, "lost")
    BY <2>1, <1>9
  <2>2. CASE ~Rollback(r, "lost")
    <3>1. /\ pc[r] = "respond" /\ pc' = [pc EXCEPT ![r] = "done"]
          /\ UNCHANGED <<placed, item>>
      BY <1>10, <2>2 DEF LoseProcess
    <3>2. QED  BY <3>1
  <2>3. QED  BY <2>1, <2>2
<1>11. ASSUME NEW c \in Customer, NEW s \in Sku, AddToCart(c, s) \/ RemoveLine(c, s)
       PROVE  Phases'
  BY <1>11 DEF AddToCart, RemoveLine
<1>12. CASE UNCHANGED vars
  BY <1>12 DEF vars
<1>13. QED
  BY <1>1, <1>2, <1>3, <1>4, <1>5, <1>6, <1>7, <1>8, <1>9, <1>10, <1>11, <1>12
     DEF Next, Serve, Fill, RejectEmptyCart, RejectCoupon, RejectNoWarehouse,
         RejectLostRace, AbortDeadlocked, Finished

\* A step reserves, commits, rolls back, or leaves the stock alone.
LEMMA StockSteps ==
  ASSUME [Next]_vars
  PROVE  \/ Quiet
         \/ \E r \in Request : ReserveStock(r) \/ Commit(r)
         \/ \E r \in Request, answer \in Reply :
              pc[r] \in {"cart", "coupon", "pick", "reserve"} /\ Rollback(r, answer)
<1> USE DEF db, locks, txn, Quiet
<1>1. ASSUME NEW r \in Request, Submit(r) \/ LockCart(r) \/ LockCoupon(r) \/ Respond(r)
      PROVE  Quiet
  BY <1>1 DEF Submit, LockCart, LockCoupon, Respond
<1>2. ASSUME NEW r \in Request, NEW s \in Sku, AddDigitalItem(r, s) \/ PickWarehouse(r, s)
      PROVE  Quiet
  BY <1>2 DEF AddDigitalItem, PickWarehouse
<1>3. ASSUME NEW c \in Customer, NEW s \in Sku, AddToCart(c, s) \/ RemoveLine(c, s)
      PROVE  Quiet
  BY <1>3 DEF AddToCart, RemoveLine
<1> DEFINE GivesUp(r) ==
      \E answer \in Reply :
        pc[r] \in {"cart", "coupon", "pick", "reserve"} /\ Rollback(r, answer)
<1>4. ASSUME NEW r \in Request, LoseProcess(r)
      PROVE  Quiet \/ GivesUp(r)
  BY <1>4 DEF LoseProcess
<1>5. ASSUME NEW r \in Request, RejectEmptyCart(r) \/ RejectCoupon(r) \/ RejectLostRace(r)
      PROVE  GivesUp(r)
  BY <1>5 DEF RejectEmptyCart, RejectCoupon, RejectLostRace
<1>6. ASSUME NEW r \in Request, NEW s \in Sku, RejectNoWarehouse(r, s)
      PROVE  GivesUp(r)
  BY <1>6 DEF RejectNoWarehouse
<1>7. ASSUME NEW r \in Request, AbortDeadlocked(r)
      PROVE  GivesUp(r)
  <2>1. pc[r] \in {"cart", "coupon", "reserve"}
    BY <1>7 DEF AbortDeadlocked, InCycle, WaitsFor
  <2>2. QED  BY <1>7, <2>1 DEF AbortDeadlocked
<1>8. CASE UNCHANGED vars
  BY <1>8 DEF vars
<1>9. CASE Finished
  BY <1>9 DEF Finished, vars
<1>10. QED
  BY <1>1, <1>2, <1>3, <1>4, <1>5, <1>6, <1>7, <1>8, <1>9 DEF Next, Serve, Fill

\* Under the row lock nobody else has units of the row in flight, so the second
\* look at the row settles how much of it is free.
LEMMA ReserveStep ==
  ASSUME TypeOK, StockInv, NEW r \in Request, ReserveStock(r)
  PROVE  LockedUnits' /\ NoOversell'
<1> DEFINE row == item[r].row
<1> USE DEF TypeOK
<1>1. pc[r] = "reserve" /\ row \in Row /\ r \in Open
  BY DEF ReserveStock, StockInv, Phases, Open
<1>2. /\ placed' = placed /\ reserved' = reserved
      /\ rowLock' = [rowLock EXCEPT ![row] = r]
      /\ taken' = [taken EXCEPT ![r][row] = @ + item[r].units]
  BY DEF ReserveStock, AddUnits, db
<1>3. item[r].units \in Nat
  OBVIOUS
<1>4. \A q \in Open \ {r} : taken[q][row] = 0
  <2> SUFFICES ASSUME NEW q \in Open \ {r} PROVE taken[q][row] = 0
    OBVIOUS
  <2>1. rowLock[row] # q
    BY <1>1 DEF ReserveStock, RowFree, Free, Open
  <2>2. taken[q][row] \in Nat
    BY <1>1 DEF Open
  <2>3. QED  BY <1>1, <2>1, <2>2 DEF StockInv, LockedUnits
<1>5. reserved[row] + taken[r][row] + item[r].units <= Quantity[row]
  <2>1. /\ Quantity[row] - reserved[row] - taken[r][row] >= item[r].units
        /\ Quantity[row] \in Nat /\ reserved[row] \in Nat /\ taken[r][row] \in Nat
    BY <1>1 DEF ReserveStock, StillAvailable, Available
  <2>2. QED  BY <1>3, <2>1
<1>6. Open' = Open
  BY <1>2 DEF Open
<1>7. \A q \in Open, other \in Row :
        taken'[q][other] = IF q = r /\ other = row THEN taken[r][row] + item[r].units
                                                   ELSE taken[q][other]
  BY <1>1, <1>2 DEF Open
<1>8. LockedUnits'
  <2> SUFFICES ASSUME NEW q \in Open, NEW other \in Row, taken'[q][other] > 0
               PROVE  rowLock'[other] = q
    BY <1>6 DEF LockedUnits
  <2>1. CASE other = row
    BY <1>1, <1>2, <1>4, <1>7, <2>1
  <2>2. CASE other # row
    BY <1>1, <1>2, <1>7, <2>2 DEF StockInv, LockedUnits
  <2>3. QED  BY <2>1, <2>2
<1>9. NoOversell'
  <2> SUFFICES ASSUME NEW other \in Row
               PROVE  /\ reserved[other] <= Quantity[other]
                      /\ \A q \in Open :
                           /\ reserved[other] + taken'[q][other] <= Quantity[other]
                           /\ \A p \in Open \ {q} : taken'[q][other] > 0 => taken'[p][other] = 0
    BY <1>2, <1>6 DEF NoOversell
  <2>1. CASE other # row
    BY <1>7, <2>1 DEF StockInv, NoOversell
  <2>2. CASE other = row
    <3>1. reserved[row] \in Nat /\ Quantity[row] \in Nat /\ taken[r][row] \in Nat
      BY <1>1
    <3>2. ASSUME NEW q \in Open \ {r}
          PROVE  taken'[q][row] = 0
      <4>1. taken'[q][row] = taken[q][row]
        BY <1>1, <1>7
      <4>2. QED  BY <1>4, <4>1
    <3>3. taken'[r][row] = taken[r][row] + item[r].units
      BY <1>1, <1>7
    <3>4. reserved[row] + taken'[r][row] <= Quantity[row] /\ reserved[row] <= Quantity[row]
      BY <1>3, <1>5, <3>1, <3>3
    <3>5. ASSUME NEW q \in Open
          PROVE  /\ reserved[row] + taken'[q][row] <= Quantity[row]
                 /\ \A p \in Open \ {q} : taken'[q][row] > 0 => taken'[p][row] = 0
      <4>1. CASE q = r
        BY <3>2, <3>4, <4>1
      <4>2. CASE q # r
        BY <3>1, <3>2, <3>4, <4>2
      <4>3. QED  BY <4>1, <4>2
    <3>6. QED  BY <2>2, <3>4, <3>5
  <2>3. QED  BY <2>1, <2>2
<1>10. QED  BY <1>8, <1>9

\* A commit turns the units its request alone has in flight into committed ones.
LEMMA CommitStep ==
  ASSUME TypeOK, StockInv, NEW r \in Request, Commit(r)
  PROVE  LockedUnits' /\ NoOversell'
<1> USE DEF TypeOK
<1>1. r \in Open
  BY DEF Commit, StockInv, Phases, Open
<1>2. /\ Open' = Open \ {r} /\ taken' = taken
      /\ reserved' = [row \in Row |-> reserved[row] + taken[r][row]]
      /\ rowLock' = [row \in Row |-> Unlocked(rowLock[row], r)]
  BY DEF Commit, ReleaseLocks, Open
<1>3. LockedUnits'
  BY <1>2 DEF StockInv, LockedUnits, Unlocked
<1>4. NoOversell'
  <2> SUFFICES ASSUME NEW row \in Row
               PROVE  /\ reserved[row] + taken[r][row] <= Quantity[row]
                      /\ \A q \in Open \ {r} :
                           /\ reserved[row] + taken[r][row] + taken[q][row] <= Quantity[row]
                           /\ \A p \in (Open \ {r}) \ {q} :
                                taken[q][row] > 0 => taken[p][row] = 0
    BY <1>2 DEF NoOversell
  <2>1. reserved[row] + taken[r][row] <= Quantity[row]
    BY <1>1 DEF StockInv, NoOversell
  <2>2. ASSUME NEW q \in Open \ {r}
        PROVE  reserved[row] + taken[r][row] + taken[q][row] <= Quantity[row]
    <3>1. taken[r][row] \in Nat /\ taken[q][row] \in Nat /\ reserved[row] \in Nat
      BY DEF Open
    <3>2. reserved[row] + taken[q][row] <= Quantity[row] /\ (taken[r][row] > 0 => taken[q][row] = 0)
      BY <1>1 DEF StockInv, NoOversell
    <3>3. QED  BY <2>1, <3>1, <3>2
  <2>3. ASSUME NEW q \in Open \ {r}, NEW p \in (Open \ {r}) \ {q}, taken[q][row] > 0
        PROVE  taken[p][row] = 0
    BY <2>3 DEF StockInv, NoOversell
  <2>4. QED  BY <2>1, <2>2, <2>3
<1>5. QED  BY <1>3, <1>4

\* A rollback drops the request's own units with its locks.
LEMMA RollbackStep ==
  ASSUME TypeOK, StockInv, NEW r \in Request, NEW answer, Rollback(r, answer)
  PROVE  LockedUnits' /\ NoOversell'
<1> USE DEF TypeOK
<1>1. /\ Open' = Open /\ reserved' = reserved
      /\ taken' = [taken EXCEPT ![r] = [row \in Row |-> 0]]
      /\ rowLock' = [row \in Row |-> Unlocked(rowLock[row], r)]
  BY DEF Rollback, ReleaseLocks, Open, db
<1>2. \A q \in Open, row \in Row : taken'[q][row] = IF q = r THEN 0 ELSE taken[q][row]
  BY <1>1 DEF Open
<1>3. LockedUnits'
  BY <1>1, <1>2 DEF StockInv, LockedUnits, Unlocked
<1>4. NoOversell'
  <2> SUFFICES ASSUME NEW row \in Row
               PROVE  /\ reserved[row] <= Quantity[row]
                      /\ \A q \in Open :
                           /\ reserved[row] + taken'[q][row] <= Quantity[row]
                           /\ \A p \in Open \ {q} : taken'[q][row] > 0 => taken'[p][row] = 0
    BY <1>1 DEF NoOversell
  <2>1. reserved[row] \in Nat /\ Quantity[row] \in Nat
    OBVIOUS
  <2>2. ASSUME NEW q \in Open
        PROVE  /\ reserved[row] + taken'[q][row] <= Quantity[row]
               /\ \A p \in Open \ {q} : taken'[q][row] > 0 => taken'[p][row] = 0
    <3>1. CASE q = r
      BY <1>2, <2>1, <3>1 DEF StockInv, NoOversell
    <3>2. CASE q # r
      BY <1>2, <3>2 DEF StockInv, NoOversell
    <3>3. QED  BY <3>1, <3>2
  <2>3. QED  BY <2>2 DEF StockInv, NoOversell
<1>5. QED  BY <1>3, <1>4

LEMMA StockInvStep == TypeOK /\ StockInv /\ [Next]_vars => StockInv'
<1> SUFFICES ASSUME TypeOK, StockInv, [Next]_vars PROVE StockInv'
  OBVIOUS
<1>1. Phases'
  BY PhasesStep DEF StockInv
<1>2. LockedUnits' /\ NoOversell'
  <2>1. CASE Quiet
    BY <2>1 DEF Quiet, StockInv, LockedUnits, NoOversell, Open
  <2>2. ASSUME NEW r \in Request, ReserveStock(r) \/ Commit(r)
        PROVE  LockedUnits' /\ NoOversell'
    BY <2>2, ReserveStep, CommitStep
  <2>3. ASSUME NEW r \in Request, NEW answer \in Reply, Rollback(r, answer)
        PROVE  LockedUnits' /\ NoOversell'
    BY <2>3, RollbackStep
  <2>4. QED  BY <2>1, <2>2, <2>3, StockSteps
<1>3. QED  BY <1>1, <1>2 DEF StockInv

LEMMA InitStockInv == Init => StockInv
<1> SUFFICES ASSUME Init PROVE StockInv
  OBVIOUS
<1>1. Phases
  BY DEF Init, Phases
<1>2. LockedUnits
  BY DEF Init, LockedUnits, Open
<1>3. NoOversell
  BY DEF Init, NoOversell, Open
<1>4. QED  BY <1>1, <1>2, <1>3 DEF StockInv

\* No interleaving of checkouts promises more units of a stock row than the
\* warehouse holds, although warehouses are chosen from an unlocked read.
THEOREM NeverOversold == Spec => []NoOversell
<1>1. Spec => []StockInv
  BY InitTypeOK, NextTypeOK, InitStockInv, StockInvStep, PTL DEF Spec
<1>2. StockInv => NoOversell
  BY DEF StockInv
<1>3. QED  BY <1>1, <1>2, PTL

-----------------------------------------------------------------------------
(* The coupon is never used past its limits *)

CouponHeld ==
  \A r \in WithCoupon :
    pc[r] \in {"pick", "reserve"} =>
      /\ couponLock = r
      /\ Below(used, UsageLimit)
      /\ Below(redeemed[CustomerOf[r]], CustomerLimit)

\* While the coupon row is locked only its holder can commit a redemption, so
\* the limits it was checked against still hold at the commit.
LEMMA CouponCommit ==
  ASSUME TypeOK, Phases, CouponHeld, CouponWithinLimits, NEW r \in Request, Commit(r)
  PROVE  CouponHeld' /\ CouponWithinLimits'
<1> DEFINE c == CustomerOf[r]
<1> USE DEF TypeOK
<1>1. /\ used' = used + Redeems(r)
      /\ redeemed' = [redeemed EXCEPT ![c] = @ + Redeems(r)]
      /\ placed' = placed \cup {r}
      /\ pc' = [pc EXCEPT ![r] = "respond"]
      /\ couponLock' = Unlocked(couponLock, r)
      /\ pc[r] = "pick" /\ r \notin placed /\ c \in Customer
  BY DEF Commit, ReleaseLocks, Phases
<1>2. IsFiniteSet(placed \cap WithCoupon)
  <2>1. placed \cap WithCoupon \subseteq Request
    OBVIOUS
  <2>2. QED  BY <2>1, FS_Subset
<1>3. CASE r \notin WithCoupon
  <2>1. used' = used /\ redeemed' = redeemed
    BY <1>1, <1>3 DEF Redeems
  <2>2. placed' \cap WithCoupon = placed \cap WithCoupon
    BY <1>1, <1>3
  <2>3. CouponWithinLimits'
    BY <2>1, <2>2 DEF CouponWithinLimits
  <2>4. CouponHeld'
    BY <1>1, <1>3, <2>1 DEF CouponHeld, Unlocked, Below
  <2>5. QED  BY <2>3, <2>4
<1>4. CASE r \in WithCoupon
  <2>1. couponLock = r /\ Below(used, UsageLimit) /\ Below(redeemed[c], CustomerLimit)
    BY <1>1, <1>4 DEF CouponHeld
  <2>2. used' = used + 1 /\ redeemed' = [redeemed EXCEPT ![c] = @ + 1]
    BY <1>1, <1>4 DEF Redeems
  <2>3. CouponHeld'
    <3> SUFFICES ASSUME NEW q \in WithCoupon PROVE pc'[q] \notin {"pick", "reserve"}
      BY DEF CouponHeld
    <3>1. CASE q = r
      BY <1>1, <3>1
    <3>2. CASE q # r
      BY <1>1, <2>1, <3>2 DEF CouponHeld
    <3>3. QED  BY <3>1, <3>2
  <2>4. UsageLimit # Anything => used' <= UsageLimit
    BY <2>1, <2>2 DEF Below
  <2>5. CustomerLimit # Anything => \A d \in Customer : redeemed'[d] <= CustomerLimit
    <3> SUFFICES ASSUME CustomerLimit # Anything, NEW d \in Customer
                 PROVE  redeemed'[d] <= CustomerLimit
      OBVIOUS
    <3>1. CASE d = c
      BY <1>1, <2>1, <2>2, <3>1 DEF Below
    <3>2. CASE d # c
      BY <2>2, <3>2 DEF CouponWithinLimits
    <3>3. QED  BY <3>1, <3>2
  <2>6. used' = Cardinality(placed' \cap WithCoupon)
    <3>1. placed' \cap WithCoupon = (placed \cap WithCoupon) \cup {r}
      BY <1>1, <1>4
    <3>2. r \notin placed \cap WithCoupon
      BY <1>1
    <3>3. Cardinality((placed \cap WithCoupon) \cup {r}) = Cardinality(placed \cap WithCoupon) + 1
      BY <1>2, <3>2, FS_AddElement
    <3>4. QED  BY <2>2, <3>1, <3>3 DEF CouponWithinLimits
  <2>7. QED  BY <2>3, <2>4, <2>5, <2>6 DEF CouponWithinLimits
<1>5. QED  BY <1>3, <1>4

LEMMA CouponStep ==
  ASSUME TypeOK, Phases, CouponHeld, CouponWithinLimits, [Next]_vars
  PROVE  CouponHeld' /\ CouponWithinLimits'
<1> USE DEF db, locks, txn
<1> DEFINE Still == UNCHANGED <<used, redeemed, placed>>
<1>1. ASSUME NEW r \in Request, Submit(r) \/ LockCart(r) \/ LockCoupon(r) \/ ReserveStock(r)
      PROVE  CouponHeld' /\ Still
  <2>1. CASE Submit(r)
    BY <2>1 DEF Submit, CouponHeld, TypeOK
  <2>2. CASE LockCart(r)
    BY <2>2 DEF LockCart, CouponHeld, TypeOK
  <2>3. CASE LockCoupon(r)
    <3>1. /\ couponLock' = r /\ pc' = [pc EXCEPT ![r] = "pick"] /\ Still
          /\ Below(used, UsageLimit) /\ Below(redeemed[CustomerOf[r]], CustomerLimit)
          /\ couponLock \in {NoOne, r}
      BY <2>3 DEF LockCoupon, CouponApplies, CouponFree, Free
    <3>2. ASSUME NEW q \in WithCoupon, q # r PROVE pc'[q] \notin {"pick", "reserve"}
      BY <3>1, <3>2 DEF CouponHeld, TypeOK
    <3>3. QED  BY <3>1, <3>2 DEF CouponHeld, Below
  <2>4. CASE ReserveStock(r)
    BY <2>4 DEF ReserveStock, CouponHeld, TypeOK
  <2>5. QED  BY <1>1, <2>1, <2>2, <2>3, <2>4
<1>2. ASSUME NEW r \in Request, Respond(r) \/ LoseProcess(r), ~Rollback(r, "lost")
      PROVE  CouponHeld' /\ Still
  <2>1. /\ UNCHANGED <<used, redeemed, placed, couponLock>>
        /\ pc' = [pc EXCEPT ![r] = "done"]
    BY <1>2 DEF Respond, LoseProcess
  <2>2. QED  BY <2>1 DEF CouponHeld, TypeOK
<1>3. ASSUME NEW r \in Request, NEW s \in Sku, AddDigitalItem(r, s) \/ PickWarehouse(r, s)
      PROVE  CouponHeld' /\ Still
  <2>1. CASE AddDigitalItem(r, s)
    BY <2>1 DEF AddDigitalItem, CouponHeld
  <2>2. CASE PickWarehouse(r, s)
    <3>1. /\ UNCHANGED <<used, redeemed, placed, couponLock>>
          /\ pc[r] = "pick" /\ pc' = [pc EXCEPT ![r] = "reserve"]
      BY <2>2 DEF PickWarehouse
    <3>2. QED  BY <3>1 DEF CouponHeld, TypeOK
  <2>3. QED  BY <1>3, <2>1, <2>2
<1>4. ASSUME NEW r \in Request, NEW answer, Rollback(r, answer)
      PROVE  CouponHeld' /\ Still
  BY <1>4 DEF Rollback, ReleaseLocks, Unlocked, CouponHeld, TypeOK
<1>5. ASSUME NEW c \in Customer, NEW s \in Sku, AddToCart(c, s) \/ RemoveLine(c, s)
      PROVE  CouponHeld' /\ Still
  BY <1>5 DEF AddToCart, RemoveLine, CouponHeld
<1>6. CASE UNCHANGED vars
  BY <1>6 DEF vars, CouponHeld, CouponWithinLimits
<1>7. ASSUME CouponHeld' /\ Still PROVE CouponHeld' /\ CouponWithinLimits'
  BY <1>7 DEF CouponWithinLimits
<1>8. ASSUME NEW r \in Request, Serve(r) PROVE CouponHeld' /\ CouponWithinLimits'
  <2>1. ASSUME NEW answer, Rollback(r, answer) PROVE CouponHeld' /\ CouponWithinLimits'
    BY <1>4, <1>7, <2>1
  <2>2. CASE Respond(r)
    BY <1>2, <1>7, <2>1, <2>2
  <2>3. QED
    BY <1>1, <1>3, <1>7, <1>8, <2>1, <2>2, CouponCommit
       DEF Serve, Fill, RejectEmptyCart, RejectCoupon, RejectNoWarehouse, RejectLostRace
<1>9. ASSUME NEW r \in Request, LoseProcess(r) PROVE CouponHeld' /\ CouponWithinLimits'
  BY <1>2, <1>4, <1>7, <1>9
<1>10. QED
  BY <1>1, <1>4, <1>5, <1>6, <1>7, <1>8, <1>9 DEF Next, AbortDeadlocked, Finished

LEMMA InitCoupon == Init => CouponHeld /\ CouponWithinLimits
<1> SUFFICES ASSUME Init PROVE CouponHeld /\ CouponWithinLimits
  OBVIOUS
<1>1. CouponHeld
  BY DEF Init, CouponHeld
<1>2. used = Cardinality(placed \cap WithCoupon)
  <2>1. placed \cap WithCoupon = {}
    BY DEF Init
  <2>2. QED  BY <2>1, FS_EmptySet DEF Init
<1>3. QED  BY <1>1, <1>2 DEF Init, CouponWithinLimits

\* Whatever its limits, a coupon is never redeemed beyond them by checkouts that
\* overlap, and used_count is the number of checkouts that redeemed it.
THEOREM CouponLimits == Spec => []CouponWithinLimits
<1> DEFINE Inv == TypeOK /\ Phases /\ CouponHeld /\ CouponWithinLimits
<1>1. Init => Inv
  BY InitTypeOK, InitStockInv, InitCoupon DEF StockInv
<1>2. Inv /\ [Next]_vars => Inv'
  BY NextTypeOK, PhasesStep, CouponStep
<1>3. Inv => CouponWithinLimits
  OBVIOUS
<1>4. QED
  <2> HIDE DEF Inv
  <2>1. QED  BY <1>1, <1>2, <1>3, PTL DEF Spec

\* The row locks do what they are for: a request's units in flight lie on rows it
\* has locked, and the coupon it found usable stays usable until it commits.
THEOREM LocksProtect == Spec => []TransactionInv
<1> DEFINE Inv == TypeOK /\ StockInv /\ CouponHeld /\ CouponWithinLimits
<1>1. Init => Inv
  BY InitTypeOK, InitStockInv, InitCoupon
<1>2. Inv /\ [Next]_vars => Inv'
  BY NextTypeOK, StockInvStep, CouponStep DEF StockInv
<1>3. Inv => TransactionInv
  BY DEF StockInv, Phases, LockedUnits, CouponHeld, TransactionInv
<1>4. QED
  <2> HIDE DEF Inv
  <2>1. QED  BY <1>1, <1>2, <1>3, PTL DEF Spec

-----------------------------------------------------------------------------
(* A checkout is one indivisible reservation *)

LEMMA InitLedger == Init => Ledger!Init
BY DEF Init, Ledger!Init, Ledger!Nothing

\* The units of committed checkouts are never touched again.
LEMMA LedgerHeld ==
  ASSUME TypeOK, StockInv, [Next]_vars,
         \A r \in Request : ~Commit(r)
  PROVE  placed' = placed /\ reserved' = reserved /\ \A q \in placed : taken'[q] = taken[q]
<1> USE DEF TypeOK
<1>1. CASE Quiet
  BY <1>1 DEF Quiet
<1>2. ASSUME NEW r \in Request, ReserveStock(r)
      PROVE  placed' = placed /\ reserved' = reserved /\ \A q \in placed : taken'[q] = taken[q]
  BY <1>2 DEF ReserveStock, db, StockInv, Phases
<1>3. ASSUME NEW r \in Request, NEW answer \in Reply, Rollback(r, answer),
             pc[r] \in {"cart", "coupon", "pick", "reserve"}
      PROVE  placed' = placed /\ reserved' = reserved /\ \A q \in placed : taken'[q] = taken[q]
  BY <1>3 DEF Rollback, db, StockInv, Phases
<1>4. QED  BY <1>1, <1>2, <1>3, StockSteps

LEMMA LedgerStep ==
  ASSUME TypeOK, StockInv, [Next]_vars
  PROVE  [Ledger!Next]_Ledger!vars
<1> DEFINE Held == [r \in Request |-> IF r \in placed THEN taken[r] ELSE Nothing]
           Ph == [r \in Request |-> IF r \in placed THEN "open" ELSE "new"]
<1>1. CASE \A r \in Request : ~Commit(r)
  <2>1. Held' = Held /\ Ph' = Ph /\ reserved' = reserved
    BY <1>1, LedgerHeld
  <2>2. QED  BY <2>1 DEF Ledger!vars
<1>2. ASSUME NEW r \in Request, Commit(r)
      PROVE  Ledger!Reserve(r)
  <2> USE DEF TypeOK
  <2>1. /\ placed' = placed \cup {r} /\ taken' = taken /\ r \notin placed
        /\ reserved' = [row \in Row |-> reserved[row] + taken[r][row]]
    BY <1>2 DEF Commit, StockInv, Phases
  <2>2. Held'[r] = taken[r] /\ Held' = [Held EXCEPT ![r] = taken[r]]
    BY <2>1
  <2>3. Ph[r] = "new" /\ Ph' = [Ph EXCEPT ![r] = "open"]
    BY <2>1
  <2>4. taken[r] \in [Row -> Nat]
    OBVIOUS
  <2>5. \A row \in Row : reserved[row] + taken[r][row] <= Quantity[row]
    BY <2>1 DEF StockInv, NoOversell, Open
  <2>6. Quantity' = Quantity
    OBVIOUS
  <2>7. QED  BY <2>1, <2>2, <2>3, <2>4, <2>5, <2>6 DEF Ledger!Reserve, Ledger!Enough
<1>3. QED  BY <1>1, <1>2 DEF Ledger!Next

\* Seen from the stock rows a checkout reserves everything at one instant, its
\* commit, or nothing: Checkout implements ReservationLedger.
THEOREM CheckoutImplementsLedger == Spec => ImplementsLedger
<1>1. Init => Ledger!Init
  BY InitLedger
<1>2. TypeOK /\ StockInv /\ [Next]_vars => [Ledger!Next]_Ledger!vars
  BY LedgerStep
<1>3. QED
  BY <1>1, <1>2, InitTypeOK, NextTypeOK, InitStockInv, StockInvStep, PTL
     DEF Spec, Ledger!Spec, ImplementsLedger

-----------------------------------------------------------------------------
(* Orders have what they ordered *)

RowsOf(p) == {row \in Row : RowProduct[row] = p}
SkusOf(p) == {s \in Sku : ProductOf[s] = p}
InHand(r, p) == IF item[r].row \in RowsOf(p) THEN item[r].units ELSE 0

\* What is reserved of a product, about to be, and still to do is what was read.
Filled(r, p) ==
  UnitsOf(taken[r], RowsOf(p)) + InHand(r, p) + UnitsOf(lines[r], SkusOf(p) \cap todo[r])
    = UnitsOf(lines[r], SkusOf(p))

FillFits(r) ==
  /\ pc[r] \in {"idle", "cart", "coupon"} => taken[r] = Nothing
  /\ pc[r] # "reserve" => item[r] = NoItem
  /\ r \in placed => todo[r] = {}
  /\ pc[r] \in {"coupon", "pick", "reserve"} \/ r \in placed =>
       \A p \in Product \ Digital : Filled(r, p)

BackInv == \A row \in Row : reserved[row] = UnitsOf([r \in Request |-> taken[r][row]], placed)

Ordered(c, s) == UnitsOf([r \in Request |-> lines[r][s]], {r \in placed : CustomerOf[r] = c})

\* The lines a request works on are covered by what was put into the cart and
\* not ordered yet, and stay so while the request holds the cart's lock.
CartInv ==
  /\ \A r \in Request :
       pc[r] \in {"coupon", "pick", "reserve"} =>
         /\ cartLock[CustomerOf[r]] = r
         /\ \A s \in Sku : Ordered(CustomerOf[r], s) + lines[r][s] <= put[CustomerOf[r]][s]
  /\ CartOrderedOnce

LEMMA FiniteSums ==
  ASSUME NEW p
  PROVE  /\ IsFiniteSet(RowsOf(p)) /\ RowsOf(p) \subseteq Row
         /\ IsFiniteSet(SkusOf(p)) /\ SkusOf(p) \subseteq Sku
BY FS_Subset DEF RowsOf, SkusOf

LEMMA SumPart ==
  ASSUME NEW S, IsFiniteSet(S), NEW T \in SUBSET S, NEW f,
         \A y \in S : f[y] \in Nat /\ (y \notin T => f[y] = 0)
  PROVE  UnitsOf(f, S) = UnitsOf(f, T)
<1>1. \A y \in S : f[y] \in Nat /\ f[y] = IF y \in T THEN f[y] ELSE 0
  OBVIOUS
<1>2. SumFunctionOnSet(f, S) = SumFunctionOnSet(f, T)
  BY <1>1, SumSame
<1>3. QED  BY <1>2 DEF UnitsOf

LEMMA SumNothing ==
  ASSUME NEW S, IsFiniteSet(S), NEW f, \A y \in S : f[y] = 0
  PROVE  UnitsOf(f, S) = 0
BY SumZeros DEF UnitsOf

\* What a request that a step leaves alone has filled stays filled.
LEMMA FillKept ==
  ASSUME NEW r \in Request, FillFits(r), pc'[r] = pc[r], taken'[r] = taken[r],
         item'[r] = item[r], lines'[r] = lines[r], todo'[r] = todo[r],
         r \in placed' <=> r \in placed
  PROVE  FillFits(r)'
BY DEF FillFits, Filled, InHand

LEMMA FillLock ==
  ASSUME TypeOK, Phases, NEW r \in Request, FillFits(r), LockCart(r)
  PROVE  FillFits(r)'
<1> DEFINE c == CustomerOf[r]
<1>1. /\ pc[r] = "cart" /\ r \notin placed /\ placed' = placed
      /\ pc'[r] \in {"coupon", "pick"}
      /\ taken'[r] = taken[r] /\ item'[r] = item[r]
      /\ lines'[r] = cart[c] /\ todo'[r] = LinesIn(c)
  BY DEF LockCart, Phases, TypeOK, db
<1>2. taken[r] = Nothing /\ item[r] = NoItem
  BY <1>1 DEF FillFits
<1>3. ASSUME NEW p \in Product PROVE Filled(r, p)'
  <2>1. UnitsOf(taken'[r], RowsOf(p)) = 0
    <3>1. \A y \in RowsOf(p) : taken'[r][y] = 0
      BY <1>1, <1>2, FiniteSums
    <3>2. QED  BY <3>1, FiniteSums, SumNothing
  <2>2. InHand(r, p)' = 0
    BY <1>1, <1>2 DEF InHand, RowsOf
  <2>3. UnitsOf(lines'[r], SkusOf(p)) = UnitsOf(lines'[r], SkusOf(p) \cap todo'[r])
    <3>1. cart[c] \in [Sku -> Nat]
      BY DEF TypeOK
    <3>2. \A y \in SkusOf(p) :
            lines'[r][y] \in Nat /\ (y \notin SkusOf(p) \cap todo'[r] => lines'[r][y] = 0)
      BY <1>1, <3>1, FiniteSums DEF LinesIn
    <3>3. SkusOf(p) \cap todo'[r] \in SUBSET SkusOf(p) /\ IsFiniteSet(SkusOf(p))
      BY FiniteSums
    <3>4. QED  BY <3>2, <3>3, SumPart
  <2>4. UnitsOf(lines'[r], SkusOf(p) \cap todo'[r]) \in Nat
    <3>1. IsFiniteSet(SkusOf(p) \cap todo'[r])
      BY FiniteSums, FS_Subset
    <3>2. \A y \in SkusOf(p) \cap todo'[r] : lines'[r][y] \in Nat
      BY <1>1, FiniteSums DEF TypeOK
    <3>3. QED  BY <3>1, <3>2, SumRemove DEF UnitsOf
  <2>5. QED  BY <2>1, <2>2, <2>3, <2>4 DEF Filled
<1>4. QED  BY <1>1, <1>2, <1>3 DEF FillFits

LEMMA FillPick ==
  ASSUME TypeOK, Phases, NEW r \in Request, FillFits(r), NEW s \in Sku, PickWarehouse(r, s)
  PROVE  FillFits(r)'
<1>1. PICK row \in BestRows(r, s) : item' = [item EXCEPT ![r] = [row |-> row, units |-> lines[r][s]]]
  BY DEF PickWarehouse
<1>2. row \in Row /\ RowProduct[row] = ProductOf[s] /\ item'[r] = [row |-> row, units |-> lines[r][s]]
  BY <1>1 DEF BestRows, Rows, TypeOK
<1>3. /\ pc[r] = "pick" /\ r \notin placed /\ placed' = placed /\ pc'[r] = "reserve"
      /\ taken'[r] = taken[r] /\ lines'[r] = lines[r] /\ todo'[r] = todo[r] \ {s}
      /\ s \in todo[r] /\ lines[r] \in [Sku -> Nat]
  BY DEF PickWarehouse, NextLines, Phases, TypeOK, db
<1>4. ASSUME NEW p \in Product \ Digital PROVE Filled(r, p)'
  <2> DEFINE left == SkusOf(p) \cap todo[r]
  <2>1. Filled(r, p) /\ InHand(r, p) = 0
    BY <1>3 DEF FillFits, InHand, RowsOf
  <2>2. SkusOf(p) \cap todo'[r] = left \ {s}
    BY <1>3
  <2>3. IsFiniteSet(left) /\ \A y \in left : lines[r][y] \in Nat
    BY <1>3, FiniteSums, FS_Subset
  <2>4. CASE ProductOf[s] = p
    <3>1. InHand(r, p)' = lines[r][s]
      BY <1>2, <2>4 DEF InHand, RowsOf
    <3>2. s \in left
      BY <1>3, <2>4 DEF SkusOf
    <3>3. UnitsOf(lines[r], left) = lines[r][s] + UnitsOf(lines[r], left \ {s})
      BY <2>3, <3>2, SumRemove DEF UnitsOf
    <3>4. UnitsOf(lines[r], left \ {s}) \in Nat
      <4>1. IsFiniteSet(left \ {s}) /\ \A y \in left \ {s} : lines[r][y] \in Nat
        BY <2>3, FS_RemoveElement
      <4>2. QED  BY <4>1, SumRemove DEF UnitsOf
    <3>5. UnitsOf(taken[r], RowsOf(p)) \in Nat
      <4>1. \A y \in RowsOf(p) : taken[r][y] \in Nat
        BY FiniteSums DEF TypeOK
      <4>2. QED  BY <4>1, FiniteSums, SumRemove DEF UnitsOf
    <3>6. lines[r][s] \in Nat
      BY <1>3
    <3>7. UnitsOf(taken[r], RowsOf(p)) + lines[r][s] + UnitsOf(lines[r], left \ {s})
            = UnitsOf(lines[r], SkusOf(p))
      <4>1. UnitsOf(taken[r], RowsOf(p)) + 0 + UnitsOf(lines[r], left) = UnitsOf(lines[r], SkusOf(p))
        BY <2>1 DEF Filled
      <4> HIDE DEF left
      <4>2. QED  BY <3>3, <3>4, <3>5, <3>6, <4>1
    <3>8. QED  BY <1>3, <2>2, <3>1, <3>7 DEF Filled
  <2>5. CASE ProductOf[s] # p
    <3>1. InHand(r, p)' = 0
      BY <1>2, <2>5 DEF InHand, RowsOf
    <3>2. left \ {s} = left
      BY <2>5 DEF SkusOf
    <3>3. QED  BY <1>3, <2>1, <2>2, <3>1, <3>2 DEF Filled
  <2>6. QED  BY <2>4, <2>5
<1>5. QED  BY <1>3, <1>4 DEF FillFits

LEMMA FillReserve ==
  ASSUME TypeOK, Phases, NEW r \in Request, FillFits(r), ReserveStock(r)
  PROVE  FillFits(r)'
<1> DEFINE row == item[r].row
           n == item[r].units
<1>1. /\ pc[r] = "reserve" /\ r \notin placed /\ placed' = placed /\ pc'[r] = "pick"
      /\ row \in Row /\ n \in Nat /\ taken[r] \in [Row -> Nat]
      /\ taken'[r] = [taken[r] EXCEPT ![row] = @ + n]
      /\ lines'[r] = lines[r] /\ todo'[r] = todo[r] /\ item'[r] = NoItem
  BY DEF ReserveStock, AddUnits, Phases, TypeOK, db
<1>2. ASSUME NEW p \in Product \ Digital PROVE Filled(r, p)'
  <2> DEFINE was == UnitsOf(taken[r], RowsOf(p))
             left == UnitsOf(lines[r], SkusOf(p) \cap todo[r])
  <2>1. was + InHand(r, p) + left = UnitsOf(lines[r], SkusOf(p))
    BY <1>1, <1>2 DEF FillFits, Filled
  <2>2. InHand(r, p)' = 0
    BY <1>1 DEF InHand, RowsOf
  <2>3. \A y \in RowsOf(p) : taken[r][y] \in Nat /\ taken'[r][y] \in Nat
    BY <1>1, FiniteSums
  <2>4. was \in Nat /\ left \in Nat
    <3>1. IsFiniteSet(SkusOf(p) \cap todo[r]) /\ \A y \in SkusOf(p) \cap todo[r] : lines[r][y] \in Nat
      BY FiniteSums, FS_Subset DEF TypeOK
    <3>2. QED  BY <2>3, <3>1, FiniteSums, SumRemove DEF UnitsOf
  <2>5. UnitsOf(taken'[r], RowsOf(p)) = was + InHand(r, p)
    <3>1. CASE row \in RowsOf(p)
      <4> DEFINE rest == RowsOf(p) \ {row}
      <4>1. was = taken[r][row] + UnitsOf(taken[r], rest)
        BY <2>3, <3>1, FiniteSums, SumRemove DEF UnitsOf
      <4>2. UnitsOf(taken'[r], RowsOf(p)) = taken'[r][row] + UnitsOf(taken'[r], rest)
        BY <2>3, <3>1, FiniteSums, SumRemove DEF UnitsOf
      <4>3. IsFiniteSet(rest)
        BY FiniteSums, FS_RemoveElement
      <4>4. UnitsOf(taken'[r], rest) = UnitsOf(taken[r], rest)
        <5>1. \A y \in rest : taken'[r][y] \in Nat /\ taken'[r][y] = IF y \in rest THEN taken[r][y] ELSE 0
          BY <1>1, <2>3, FiniteSums
        <5>2. rest \in SUBSET rest
          OBVIOUS
        <5> HIDE DEF rest
        <5>3. QED  BY <4>3, <5>1, <5>2, SumSame DEF UnitsOf
      <4>5. UnitsOf(taken[r], rest) \in Nat
        <5>1. \A y \in rest : taken[r][y] \in Nat
          BY <2>3
        <5>2. QED  BY <4>3, <5>1, SumRemove DEF UnitsOf
      <4>6. taken'[r][row] = taken[r][row] + n /\ InHand(r, p) = n /\ taken[r][row] \in Nat
        BY <1>1, <3>1 DEF InHand
      <4> HIDE DEF was, rest
      <4>7. QED  BY <1>1, <4>1, <4>2, <4>4, <4>5, <4>6
    <3>2. CASE row \notin RowsOf(p)
      <4>1. \A y \in RowsOf(p) :
              taken'[r][y] \in Nat /\ taken'[r][y] = IF y \in RowsOf(p) THEN taken[r][y] ELSE 0
        BY <1>1, <2>3, <3>2, FiniteSums
      <4>2. UnitsOf(taken'[r], RowsOf(p)) = was
        BY <4>1, FiniteSums, SumSame DEF UnitsOf
      <4>3. InHand(r, p) = 0
        BY <3>2 DEF InHand
      <4> HIDE DEF was
      <4>4. QED  BY <2>4, <4>2, <4>3
    <3>3. QED  BY <3>1, <3>2
  <2>6. UnitsOf(taken'[r], RowsOf(p)) + 0 + left = UnitsOf(lines[r], SkusOf(p))
    <3>1. InHand(r, p) \in Nat
      BY <1>1 DEF InHand
    <3> HIDE DEF was, left
    <3>2. QED  BY <2>1, <2>4, <2>5, <3>1
  <2>7. QED  BY <1>1, <2>2, <2>6 DEF Filled
<1>3. QED  BY <1>1, <1>2 DEF FillFits

LEMMA FillStep ==
  ASSUME TypeOK, Phases, NEW r \in Request, FillFits(r), [Next]_vars
  PROVE  FillFits(r)'
<1> USE DEF db, locks, txn
<1> DEFINE Alike(q) == /\ pc'[q] = pc[q] /\ taken'[q] = taken[q] /\ item'[q] = item[q]
                       /\ lines'[q] = lines[q] /\ todo'[q] = todo[q]
                       /\ (q \in placed' <=> q \in placed)
<1>1. CASE Alike(r)
  BY <1>1, FillKept
<1>2. ASSUME NEW q \in Request, q # r, Submit(q) \/ Serve(q) \/ AbortDeadlocked(q) \/ LoseProcess(q)
      PROVE  Alike(r)
  <2>1. ASSUME NEW answer, Rollback(q, answer) PROVE Alike(r)
    BY <1>2, <2>1 DEF Rollback, TypeOK
  <2>2. CASE Submit(q) \/ LockCart(q) \/ LockCoupon(q) \/ Respond(q)
    BY <1>2, <2>2 DEF Submit, LockCart, LockCoupon, Respond, TypeOK
  <2>3. ASSUME NEW s \in Sku, AddDigitalItem(q, s) \/ PickWarehouse(q, s) PROVE Alike(r)
    BY <1>2, <2>3 DEF AddDigitalItem, PickWarehouse, TypeOK
  <2>4. CASE ReserveStock(q) \/ Commit(q)
    BY <1>2, <2>4 DEF ReserveStock, Commit, TypeOK
  <2>5. CASE LoseProcess(q) /\ ~Rollback(q, "lost")
    BY <1>2, <2>5 DEF LoseProcess, TypeOK
  <2> HIDE DEF Alike
  <2>6. QED
    BY <1>2, <2>1, <2>2, <2>3, <2>4, <2>5
       DEF Serve, Fill, RejectEmptyCart, RejectCoupon, RejectNoWarehouse, RejectLostRace,
           AbortDeadlocked
<1>3. ASSUME NEW answer, Rollback(r, answer),
             pc[r] \in {"cart", "coupon", "pick", "reserve"}
      PROVE  FillFits(r)'
  <2>1. pc'[r] = "done" /\ item'[r] = NoItem /\ r \notin placed /\ placed' = placed
    BY <1>3 DEF Rollback, Phases, TypeOK
  <2>2. QED  BY <2>1 DEF FillFits
<1>4. CASE Submit(r)
  <2>1. /\ pc[r] = "idle" /\ pc'[r] = "cart" /\ r \notin placed
        /\ UNCHANGED <<placed, taken, item, todo>>
    BY <1>4 DEF Submit, Phases, TypeOK
  <2>2. QED  BY <2>1 DEF FillFits
<1>5. CASE LockCart(r)
  BY <1>5, FillLock
<1>6. CASE LockCoupon(r)
  <2>1. /\ pc[r] = "coupon" /\ pc'[r] = "pick" /\ r \notin placed
        /\ UNCHANGED <<placed, taken, item, todo, lines>>
    BY <1>6 DEF LockCoupon, Phases, TypeOK
  <2>2. ASSUME NEW p \in Product \ Digital PROVE Filled(r, p)'
    BY <2>1 DEF FillFits, Filled, InHand
  <2>3. QED  BY <2>1, <2>2 DEF FillFits
<1>7. ASSUME NEW s \in Sku, AddDigitalItem(r, s) PROVE FillFits(r)'
  <2>1. /\ pc[r] = "pick" /\ pc'[r] = "pick" /\ r \notin placed
        /\ UNCHANGED <<placed, taken, item, lines>>
        /\ todo'[r] = todo[r] \ {s} /\ ProductOf[s] \in Digital
    BY <1>7 DEF AddDigitalItem, Phases, TypeOK
  <2>2. ASSUME NEW p \in Product \ Digital PROVE Filled(r, p)'
    <3>1. SkusOf(p) \cap todo'[r] = SkusOf(p) \cap todo[r]
      BY <2>1, <2>2 DEF SkusOf
    <3>2. QED  BY <2>1, <3>1 DEF FillFits, Filled, InHand
  <2>3. QED  BY <2>1, <2>2 DEF FillFits
<1>8. ASSUME NEW s \in Sku, PickWarehouse(r, s) PROVE FillFits(r)'
  BY <1>8, FillPick
<1>9. CASE ReserveStock(r)
  BY <1>9, FillReserve
<1>10. CASE Commit(r)
  <2>1. /\ pc[r] = "pick" /\ pc'[r] = "respond" /\ todo[r] = {}
        /\ UNCHANGED <<taken, item, lines, todo>>
    BY <1>10 DEF Commit, TypeOK
  <2>2. ASSUME NEW p \in Product \ Digital PROVE Filled(r, p)'
    BY <2>1 DEF FillFits, Filled, InHand
  <2>3. QED  BY <2>1, <2>2 DEF FillFits
<1>11. CASE pc[r] = "respond" /\ pc' = [pc EXCEPT ![r] = "done"]
            /\ UNCHANGED <<placed, taken, item, lines, todo>>
  <2>1. pc'[r] = "done" /\ r \in placed
    BY <1>11 DEF Phases, TypeOK
  <2>2. ASSUME NEW p \in Product \ Digital PROVE Filled(r, p)'
    BY <1>11, <2>1 DEF FillFits, Filled, InHand
  <2>3. QED  BY <1>11, <2>1, <2>2 DEF FillFits
<1>12. ASSUME NEW c \in Customer, NEW s \in Sku, AddToCart(c, s) \/ RemoveLine(c, s)
       PROVE  Alike(r)
  BY <1>12 DEF AddToCart, RemoveLine
<1>13. CASE UNCHANGED vars \/ Finished
  BY <1>1, <1>13 DEF vars, Finished
<1>14. CASE Serve(r)
  <2>1. Respond(r) => FillFits(r)'
    BY <1>11 DEF Respond
  <2>2. QED
    BY <1>3, <1>5, <1>6, <1>7, <1>8, <1>9, <1>10, <1>14, <2>1
       DEF Serve, Fill, RejectEmptyCart, RejectCoupon, RejectNoWarehouse, RejectLostRace
<1>15. CASE AbortDeadlocked(r) \/ LoseProcess(r)
  <2>1. AbortDeadlocked(r) => pc[r] \in {"cart", "coupon", "reserve"} /\ Rollback(r, "error")
    BY DEF AbortDeadlocked, InCycle, WaitsFor
  <2>2. CASE AbortDeadlocked(r)
    BY <1>3, <2>1, <2>2
  <2>3. CASE pc[r] \in {"cart", "coupon", "pick", "reserve"} /\ Rollback(r, "lost")
    BY <1>3, <2>3
  <2>4. LoseProcess(r) =>
          \/ pc[r] \in {"cart", "coupon", "pick", "reserve"} /\ Rollback(r, "lost")
          \/ /\ pc[r] = "respond" /\ pc' = [pc EXCEPT ![r] = "done"]
             /\ UNCHANGED <<placed, taken, item, lines, todo>>
    BY DEF LoseProcess
  <2>5. QED  BY <1>11, <1>15, <2>2, <2>3, <2>4
<1> HIDE DEF Alike
<1>16. QED
  BY <1>1, <1>2, <1>4, <1>12, <1>13, <1>14, <1>15 DEF Next

\* What is reserved is the sum of what the placed orders reserved.
LEMMA BackStep ==
  ASSUME TypeOK, StockInv, BackInv, [Next]_vars
  PROVE  BackInv'
<1> DEFINE Units(row) == [q \in Request |-> taken[q][row]]
<1>1. IsFiniteSet(placed) /\ placed \subseteq Request
  BY FS_Subset DEF TypeOK
<1>2. \A row \in Row, q \in Request : Units(row)[q] \in Nat
  BY DEF TypeOK
<1>3. CASE \A r \in Request : ~Commit(r)
  <2>1. placed' = placed /\ reserved' = reserved /\ \A q \in placed : taken'[q] = taken[q]
    BY <1>3, LedgerHeld
  <2>2. ASSUME NEW row \in Row
        PROVE  UnitsOf([q \in Request |-> taken'[q][row]], placed) = UnitsOf(Units(row), placed)
    <3> DEFINE Now == [q \in Request |-> taken'[q][row]]
    <3>1. \A q \in placed : Now[q] \in Nat /\ Now[q] = IF q \in placed THEN Units(row)[q] ELSE 0
      BY <1>1, <1>2, <2>1
    <3>2. placed \in SUBSET placed
      OBVIOUS
    <3> HIDE DEF Now, Units
    <3>3. UnitsOf(Now, placed) = UnitsOf(Units(row), placed)
      BY <1>1, <3>1, <3>2, SumSame DEF UnitsOf
    <3>4. QED  BY <3>3 DEF Now
  <2>3. QED  BY <2>1, <2>2 DEF BackInv
<1>4. ASSUME NEW r \in Request, Commit(r) PROVE BackInv'
  <2>1. /\ placed' = placed \cup {r} /\ taken' = taken /\ r \notin placed
        /\ reserved' = [row \in Row |-> reserved[row] + taken[r][row]]
    BY <1>4 DEF Commit, StockInv, Phases
  <2>2. ASSUME NEW row \in Row
        PROVE  UnitsOf(Units(row), placed \cup {r}) = UnitsOf(Units(row), placed) + taken[r][row]
    <3>1. \A q \in placed \cup {r} : Units(row)[q] \in Nat
      BY <1>1, <1>2
    <3>2. Units(row)[r] = taken[r][row]
      OBVIOUS
    <3> HIDE DEF Units
    <3>3. QED  BY <1>1, <2>1, <3>1, <3>2, SumAdd DEF UnitsOf
  <2>3. QED  BY <2>1, <2>2 DEF BackInv
<1>5. QED  BY <1>3, <1>4

LEMMA OrderedSame ==
  ASSUME TypeOK, placed' = placed, \A q \in placed : lines'[q] = lines[q],
         NEW c \in Customer, NEW s \in Sku
  PROVE  Ordered(c, s)' = Ordered(c, s)
<1> DEFINE Was == [q \in Request |-> lines[q][s]]
           Now == [q \in Request |-> lines'[q][s]]
           S == {q \in placed : CustomerOf[q] = c}
<1>1. IsFiniteSet(S) /\ S \in SUBSET S
  BY FS_Subset DEF TypeOK
<1>2. \A q \in S : Now[q] \in Nat /\ Now[q] = IF q \in S THEN Was[q] ELSE 0
  BY DEF TypeOK
<1>3. UnitsOf(Now, S) = UnitsOf(Was, S)
  <2> HIDE DEF Now, Was, S
  <2>1. QED  BY <1>1, <1>2, SumSame DEF UnitsOf
<1>4. QED  BY <1>3 DEF Ordered

LEMMA OrderedNat ==
  ASSUME TypeOK, NEW c \in Customer, NEW s \in Sku
  PROVE  Ordered(c, s) \in Nat
<1> DEFINE Was == [q \in Request |-> lines[q][s]]
           S == {q \in placed : CustomerOf[q] = c}
<1>1. IsFiniteSet(S)
  BY FS_Subset DEF TypeOK
<1>2. \A q \in S : Was[q] \in Nat
  BY DEF TypeOK
<1>3. UnitsOf(Was, S) \in Nat
  <2> HIDE DEF Was, S
  <2>1. QED  BY <1>1, <1>2, SumRemove DEF UnitsOf
<1>4. QED  BY <1>3 DEF Ordered

\* A commit orders the lines its request read, which put covers, and empties the
\* cart; nobody else works on lines of that cart.
LEMMA CartCommit ==
  ASSUME TypeOK, Phases, CartInv, NEW r \in Request, Commit(r)
  PROVE  CartInv'
<1> DEFINE c == CustomerOf[r]
<1> USE DEF TypeOK
<1>1. /\ placed' = placed \cup {r} /\ r \notin placed /\ c \in Customer
      /\ lines' = lines /\ put' = put /\ cart' = [cart EXCEPT ![c] = Empty]
      /\ pc[r] = "pick" /\ pc' = [pc EXCEPT ![r] = "respond"]
      /\ cartLock' = [d \in Customer |-> Unlocked(cartLock[d], r)]
  BY DEF Commit, ReleaseLocks, Phases
<1>2. cartLock[c] = r /\ \A s \in Sku : Ordered(c, s) + lines[r][s] <= put[c][s]
  BY <1>1 DEF CartInv
<1>3. ASSUME NEW s \in Sku PROVE Ordered(c, s)' = Ordered(c, s) + lines[r][s]
  <2> DEFINE Was == [q \in Request |-> lines[q][s]]
             S == {q \in placed : CustomerOf[q] = c}
  <2>1. {q \in placed' : CustomerOf[q] = c} = S \cup {r} /\ r \notin S
    BY <1>1
  <2>2. IsFiniteSet(S)
    BY FS_Subset
  <2>3. \A q \in S \cup {r} : Was[q] \in Nat
    OBVIOUS
  <2>4. Was[r] = lines[r][s]
    OBVIOUS
  <2>5. UnitsOf(Was, S \cup {r}) = UnitsOf(Was, S) + lines[r][s]
    <3> HIDE DEF Was, S
    <3>1. QED  BY <2>1, <2>2, <2>3, <2>4, SumAdd DEF UnitsOf
  <2>6. Ordered(c, s)' = UnitsOf(Was, S \cup {r})
    BY <1>1, <2>1 DEF Ordered
  <2>7. QED  BY <2>5, <2>6 DEF Ordered
<1>4. ASSUME NEW d \in Customer, d # c, NEW s \in Sku PROVE Ordered(d, s)' = Ordered(d, s)
  <2>1. {q \in placed' : CustomerOf[q] = d} = {q \in placed : CustomerOf[q] = d}
    BY <1>1, <1>4
  <2>2. QED  BY <1>1, <2>1 DEF Ordered
<1>5. ASSUME NEW d \in Customer, NEW s \in Sku
      PROVE  Ordered(d, s)' + cart'[d][s] <= put'[d][s]
  <2>1. CASE d = c
    <3>1. cart'[d][s] = 0
      BY <1>1, <2>1
    <3>2. Ordered(c, s)' \in Nat
      BY <1>1, <1>3, OrderedNat
    <3>3. QED  BY <1>1, <1>2, <1>3, <2>1, <3>1, <3>2
  <2>2. CASE d # c
    BY <1>1, <1>4, <2>2 DEF CartInv, CartOrderedOnce, Ordered
  <2>3. QED  BY <2>1, <2>2
<1>6. ASSUME NEW q \in Request, pc'[q] \in {"coupon", "pick", "reserve"}
      PROVE  /\ cartLock'[CustomerOf[q]] = q
             /\ \A s \in Sku : Ordered(CustomerOf[q], s)' + lines'[q][s] <= put'[CustomerOf[q]][s]
  <2>1. q # r /\ pc[q] \in {"coupon", "pick", "reserve"} /\ CustomerOf[q] \in Customer
    BY <1>1, <1>6
  <2>2. /\ cartLock[CustomerOf[q]] = q
        /\ \A s \in Sku : Ordered(CustomerOf[q], s) + lines[q][s] <= put[CustomerOf[q]][s]
    BY <2>1 DEF CartInv
  <2>3. CustomerOf[q] # c
    BY <1>2, <2>1, <2>2
  <2>4. QED  BY <1>1, <1>4, <2>1, <2>2, <2>3 DEF Unlocked
<1>7. QED  BY <1>5, <1>6 DEF CartInv, CartOrderedOnce, Ordered

LEMMA CartStep ==
  ASSUME TypeOK, Phases, CartInv, [Next]_vars
  PROVE  CartInv'
<1> USE DEF db, locks, txn, TypeOK
<1> DEFINE Working(q) == pc[q] \in {"coupon", "pick", "reserve"}
           Covered(q) == /\ cartLock[CustomerOf[q]] = q
                         /\ \A s \in Sku : Ordered(CustomerOf[q], s) + lines[q][s]
                                            <= put[CustomerOf[q]][s]
           Same == /\ placed' = placed /\ cart' = cart /\ put' = put
                   /\ \A q \in placed : lines'[q] = lines[q]
<1>1. ASSUME Same PROVE CartOrderedOnce'
  <2>1. ASSUME NEW c \in Customer, NEW s \in Sku
        PROVE  Ordered(c, s)' + cart'[c][s] <= put'[c][s]
    <3>1. Ordered(c, s)' = Ordered(c, s)
      BY <1>1, OrderedSame
    <3>2. Ordered(c, s) + cart[c][s] <= put[c][s]
      BY DEF CartInv, CartOrderedOnce, Ordered
    <3>3. QED  BY <1>1, <3>1, <3>2
  <2>2. QED  BY <2>1 DEF CartOrderedOnce, Ordered
<1>2. ASSUME Same, NEW q \in Request, Working(q)', Working(q), lines'[q] = lines[q],
             cartLock'[CustomerOf[q]] = cartLock[CustomerOf[q]]
      PROVE  Covered(q)'
  BY <1>2, OrderedSame DEF CartInv
<1>3. ASSUME Same, \A q \in Request : Working(q)' => Covered(q)' PROVE CartInv'
  BY <1>1, <1>3 DEF CartInv
<1>4. ASSUME Same, cartLock' = cartLock, lines' = lines,
             \A q \in Request : Working(q)' => Working(q)
      PROVE  CartInv'
  <2> HIDE DEF Same, Working, Covered
  <2>1. QED  BY <1>2, <1>3, <1>4
<1>5. ASSUME NEW r \in Request, Submit(r) \/ LockCoupon(r) \/ ReserveStock(r) \/ Respond(r)
      PROVE  CartInv'
  <2>1. CASE Submit(r)
    BY <1>4, <2>1 DEF Submit
  <2>2. CASE LockCoupon(r)
    BY <1>4, <2>2 DEF LockCoupon
  <2>3. CASE ReserveStock(r)
    BY <1>4, <2>3 DEF ReserveStock
  <2>4. CASE Respond(r)
    BY <1>4, <2>4 DEF Respond
  <2>5. QED  BY <1>5, <2>1, <2>2, <2>3, <2>4
<1>6. ASSUME NEW r \in Request, NEW s \in Sku, AddDigitalItem(r, s) \/ PickWarehouse(r, s)
      PROVE  CartInv'
  <2>1. CASE AddDigitalItem(r, s)
    BY <1>4, <2>1 DEF AddDigitalItem
  <2>2. CASE PickWarehouse(r, s)
    BY <1>4, <2>2 DEF PickWarehouse
  <2>3. QED  BY <1>6, <2>1, <2>2
<1>7. ASSUME NEW r \in Request, LockCart(r) PROVE CartInv'
  <2> DEFINE c == CustomerOf[r]
  <2>1. /\ pc[r] = "cart" /\ r \notin placed /\ c \in Customer
        /\ cartLock[c] \in {NoOne, r} /\ cartLock' = [cartLock EXCEPT ![c] = r]
        /\ lines' = [lines EXCEPT ![r] = cart[c]]
        /\ placed' = placed /\ cart' = cart /\ put' = put
        /\ \A q \in Request \ {r} : pc'[q] = pc[q]
    BY <1>7 DEF LockCart, CartFree, Free, Phases
  <2>2. Same
    BY <2>1
  <2>3. Covered(r)'
    <3>1. ASSUME NEW s \in Sku PROVE Ordered(c, s)' + cart[c][s] <= put[c][s]
      <4>1. Ordered(c, s)' = Ordered(c, s)
        BY <2>1, OrderedSame
      <4>2. QED  BY <2>1, <4>1 DEF CartInv, CartOrderedOnce, Ordered
    <3>2. QED  BY <2>1, <3>1
  <2>4. ASSUME NEW q \in Request \ {r}, Working(q)' PROVE Covered(q)'
    <3>1. Working(q) /\ cartLock[CustomerOf[q]] = q /\ lines'[q] = lines[q]
      BY <2>1, <2>4 DEF CartInv
    <3>2. CustomerOf[q] # c
      BY <2>1, <3>1
    <3>3. cartLock'[CustomerOf[q]] = cartLock[CustomerOf[q]]
      BY <2>1, <3>2
    <3> HIDE DEF Same, Working, Covered
    <3>4. QED  BY <1>2, <2>2, <2>4, <3>1, <3>3
  <2> HIDE DEF Same, Working, Covered
  <2>5. QED  BY <1>3, <2>2, <2>3, <2>4
<1>8. ASSUME NEW r \in Request, NEW answer, Rollback(r, answer),
             pc[r] \in {"cart", "coupon", "pick", "reserve"}
      PROVE  CartInv'
  <2>1. /\ r \notin placed /\ pc' = [pc EXCEPT ![r] = "done"]
        /\ lines' = [lines EXCEPT ![r] = Empty]
        /\ cartLock' = [d \in Customer |-> Unlocked(cartLock[d], r)]
        /\ placed' = placed /\ cart' = cart /\ put' = put
    BY <1>8 DEF Rollback, ReleaseLocks, Phases
  <2>2. Same
    BY <2>1
  <2>3. ASSUME NEW q \in Request, Working(q)' PROVE Covered(q)'
    <3>1. q # r /\ Working(q) /\ lines'[q] = lines[q] /\ cartLock[CustomerOf[q]] = q
      BY <2>1, <2>3 DEF CartInv
    <3>2. cartLock'[CustomerOf[q]] = cartLock[CustomerOf[q]]
      BY <2>1, <3>1 DEF Unlocked
    <3> HIDE DEF Same, Working, Covered
    <3>3. QED  BY <1>2, <2>2, <2>3, <3>1, <3>2
  <2> HIDE DEF Same, Working, Covered
  <2>4. QED  BY <1>3, <2>2, <2>3
<1>9. ASSUME NEW d \in Customer, NEW s \in Sku, AddToCart(d, s) \/ RemoveLine(d, s)
      PROVE  CartInv'
  <2>1. /\ placed' = placed /\ lines' = lines /\ pc' = pc /\ cartLock' = cartLock
        /\ \A c \in Customer, t \in Sku :
             /\ put'[c][t] >= put[c][t]
             /\ cart'[c][t] - cart[c][t] <= put'[c][t] - put[c][t]
    <3>1. CASE AddToCart(d, s)
      BY <3>1 DEF AddToCart
    <3>2. CASE RemoveLine(d, s)
      BY <3>2 DEF RemoveLine
    <3>3. QED  BY <1>9, <3>1, <3>2
  <2>2. ASSUME NEW c \in Customer, NEW t \in Sku
        PROVE  /\ Ordered(c, t)' = Ordered(c, t) /\ Ordered(c, t) \in Nat
               /\ put[c][t] \in Nat /\ put'[c][t] \in Nat
               /\ cart[c][t] \in Nat /\ cart'[c][t] \in Nat
    <3>1. put' \in [Customer -> [Sku -> Nat]] /\ cart' \in [Customer -> [Sku -> Nat]]
      BY NextTypeOK
    <3>2. QED  BY <2>1, <3>1, OrderedSame, OrderedNat
  <2>3. ASSUME NEW c \in Customer, NEW t \in Sku
        PROVE  Ordered(c, t)' + cart'[c][t] <= put'[c][t]
    <3>1. Ordered(c, t) + cart[c][t] <= put[c][t]
      BY DEF CartInv, CartOrderedOnce, Ordered
    <3>2. QED  BY <2>1, <2>2, <3>1
  <2>4. ASSUME NEW q \in Request, Working(q)' PROVE Covered(q)'
    <3>1. Working(q) /\ Covered(q) /\ CustomerOf[q] \in Customer
      BY <2>1, <2>4 DEF CartInv
    <3>2. ASSUME NEW t \in Sku
          PROVE  Ordered(CustomerOf[q], t)' + lines'[q][t] <= put'[CustomerOf[q]][t]
      <4>1. lines[q][t] \in Nat
        OBVIOUS
      <4>2. QED  BY <2>1, <2>2, <3>1, <4>1
    <3>3. QED  BY <2>1, <3>1, <3>2
  <2>5. QED  BY <2>3, <2>4 DEF CartInv, CartOrderedOnce, Ordered
<1>10. CASE UNCHANGED vars \/ Finished
  BY <1>4, <1>10 DEF vars, Finished
<1>11. ASSUME NEW r \in Request, AbortDeadlocked(r) \/ LoseProcess(r) PROVE CartInv'
  <2>1. AbortDeadlocked(r) => pc[r] \in {"cart", "coupon", "reserve"} /\ Rollback(r, "error")
    BY DEF AbortDeadlocked, InCycle, WaitsFor
  <2>2. LoseProcess(r) =>
          \/ pc[r] \in {"cart", "coupon", "pick", "reserve"} /\ Rollback(r, "lost")
          \/ /\ pc' = [pc EXCEPT ![r] = "done"]
             /\ UNCHANGED <<placed, cart, put, lines, cartLock>>
    BY DEF LoseProcess
  <2>3. CASE pc' = [pc EXCEPT ![r] = "done"] /\ UNCHANGED <<placed, cart, put, lines, cartLock>>
    BY <1>4, <2>3
  <2>4. QED  BY <1>8, <1>11, <2>1, <2>2, <2>3
<1>12. ASSUME NEW r \in Request, Serve(r) PROVE CartInv'
  BY <1>5, <1>6, <1>7, <1>8, <1>12, CartCommit
     DEF Serve, Fill, RejectEmptyCart, RejectCoupon, RejectNoWarehouse, RejectLostRace
<1>13. QED
  BY <1>5, <1>9, <1>10, <1>11, <1>12 DEF Next

LEMMA InitOrders ==
  ASSUME Init
  PROVE  (\A r \in Request : FillFits(r)) /\ BackInv /\ CartInv
<1>1. \A r \in Request : FillFits(r)
  BY DEF Init, FillFits
<1>2. BackInv
  <2>1. ASSUME NEW row \in Row
        PROVE  UnitsOf([r \in Request |-> taken[r][row]], {}) = 0
    BY SumNothing, FS_EmptySet
  <2>2. QED  BY <2>1 DEF Init, BackInv
<1>3. CartInv
  <2>1. ASSUME NEW c \in Customer, NEW s \in Sku PROVE Ordered(c, s) = 0
    <3>1. {r \in placed : CustomerOf[r] = c} = {}
      BY DEF Init
    <3>2. UnitsOf([r \in Request |-> lines[r][s]], {}) = 0
      BY SumNothing, FS_EmptySet
    <3>3. QED  BY <3>1, <3>2 DEF Ordered
  <2>2. \A c \in Customer, s \in Sku : Ordered(c, s) + cart[c][s] <= put[c][s]
    <3>1. cart \in [Customer -> [Sku -> Nat]] /\ put = cart
      BY DEF Init
    <3>2. QED  BY <2>1, <3>1
  <2>3. QED  BY <2>2 DEF Init, CartInv, CartOrderedOnce, Ordered
<1>4. QED  BY <1>1, <1>2, <1>3

\* An order has all the units it ordered, reserved at rows of the right
\* products, and whatever is reserved belongs to an order, however checkouts
\* are cut short.
THEOREM OrdersAreBacked == Spec => []StockBacksOrders
<1> DEFINE Inv == TypeOK /\ StockInv /\ (\A r \in Request : FillFits(r)) /\ BackInv
<1>1. Init => Inv
  BY InitTypeOK, InitStockInv, InitOrders
<1>2. Inv /\ [Next]_vars => Inv'
  <2>1. ASSUME Inv, [Next]_vars PROVE \A r \in Request : FillFits(r)'
    BY <2>1, FillStep DEF StockInv
  <2>2. QED  BY <2>1, NextTypeOK, StockInvStep, BackStep
<1>3. Inv => StockBacksOrders
  <2> SUFFICES ASSUME Inv PROVE StockBacksOrders
    OBVIOUS
  <2>1. ASSUME NEW r \in placed, NEW p \in Product \ Digital
        PROVE  UnitsOf(taken[r], RowsOf(p)) = UnitsOf(lines[r], SkusOf(p))
    <3>1. r \in Request /\ pc[r] # "reserve" /\ FillFits(r)
      BY DEF TypeOK, StockInv, Phases
    <3>2. item[r] = NoItem /\ SkusOf(p) \cap todo[r] = {} /\ Filled(r, p)
      BY <3>1 DEF FillFits
    <3>3. InHand(r, p) = 0
      BY <3>2 DEF InHand, RowsOf
    <3>4. UnitsOf(lines[r], {}) = 0
      BY SumNothing, FS_EmptySet
    <3>5. UnitsOf(taken[r], RowsOf(p)) \in Nat
      <4>1. \A y \in RowsOf(p) : taken[r][y] \in Nat
        BY <3>1, FiniteSums DEF TypeOK
      <4>2. QED  BY <4>1, FiniteSums, SumRemove DEF UnitsOf
    <3>6. UnitsOf(taken[r], RowsOf(p)) + 0 + 0 = UnitsOf(lines[r], SkusOf(p))
      BY <3>2, <3>3, <3>4 DEF Filled
    <3>7. QED  BY <3>5, <3>6
  <2>2. QED  BY <2>1 DEF BackInv, StockBacksOrders, RowsOf, SkusOf
<1>4. QED
  <2> HIDE DEF Inv
  <2>1. QED  BY <1>1, <1>2, <1>3, PTL DEF Spec

\* However often a customer submits and edits the cart meanwhile, no unit put
\* into the cart is ordered twice.
THEOREM NothingOrderedTwice == Spec => []CartOrderedOnce
<1> DEFINE Inv == TypeOK /\ Phases /\ CartInv
<1>1. Init => Inv
  BY InitTypeOK, InitStockInv, InitOrders DEF StockInv
<1>2. Inv /\ [Next]_vars => Inv'
  BY NextTypeOK, PhasesStep, CartStep
<1>3. Inv => CartOrderedOnce
  BY DEF CartInv
<1>4. QED
  <2> HIDE DEF Inv
  <2>1. QED  BY <1>1, <1>2, <1>3, PTL DEF Spec

=============================================================================
