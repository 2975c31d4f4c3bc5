------------------------------ MODULE Checkout ------------------------------
(***************************************************************************)
(* Concurrent checkouts: CheckoutView.post and orders.services.place_order *)
(* with the parts of cart, coupons and inventory it calls.                 *)
(*                                                                         *)
(* Every request runs one database transaction under READ COMMITTED.  Its  *)
(* uncommitted reservations are kept apart from the committed columns: a   *)
(* plain SELECT (the search for a warehouse) sees the committed columns    *)
(* and the request's own writes; a SELECT ... FOR UPDATE waits for the row *)
(* lock and then sees the newest values.  A commit publishes everything at *)
(* once; a ValueError, a lock cycle broken by the database or a lost       *)
(* process rolls everything back.                                          *)
(***************************************************************************)
EXTENDS Integers, FiniteSets, Functions

CONSTANTS
  Request,     \* checkout requests; two of one customer are a double submit
  Customer,
  Sku,         \* what a cart line holds: a (product, variant) pair
  Product,
  Row,         \* stock rows, one per (product, warehouse)
  NoOne,       \* not a request: the holder of a free lock
  NoRow,       \* not a row: a digital line has no warehouse
  Anything,    \* not a number and not a store: a limit or a scope left NULL
  CustomerOf,  \* [Request -> Customer]
  WithCoupon,  \* the requests that carry the coupon code
  Prepaid,     \* the requests paid through a gateway (stripe, jazzcash, easypaisa)
  ProductOf,   \* [Sku -> Product]
  StoreOf,     \* [Product -> store]
  RowProduct,  \* [Row -> Product]
  Digital,     \* the digital products: nothing to reserve
  Quantity,    \* [Row -> Nat], Stock.quantity
  Price,       \* [Sku -> Nat]
  Carts,       \* the carts customers may start with
  CouponStore, \* Coupon.store, or Anything
  UsageLimit,  \* Coupon.usage_limit, or Anything
  CustomerLimit, \* Coupon.per_customer_limit, or Anything
  MinOrder,    \* Coupon.min_order_amount
  MaxEdits     \* bound: cart edits while checkouts run

ASSUME ConstantsAssumption ==
  /\ IsFiniteSet(Request) /\ IsFiniteSet(Row) /\ IsFiniteSet(Sku)
  /\ NoOne \notin Request /\ NoRow \notin Row
  /\ CustomerOf \in [Request -> Customer]
  /\ WithCoupon \subseteq Request /\ Prepaid \subseteq Request
  /\ ProductOf \in [Sku -> Product]
  /\ RowProduct \in [Row -> Product]
  /\ Digital \subseteq Product
  /\ Quantity \in [Row -> Nat]
  /\ Carts \subseteq [Customer -> [Sku -> Nat]]
  /\ UsageLimit = Anything \/ UsageLimit \in Nat
  /\ CustomerLimit = Anything \/ CustomerLimit \in Nat
  /\ MaxEdits \in Nat

VARIABLES
  \* committed columns
  cart,        \* cart[c][s]: CartItem.quantity, 0 when there is no such line
  reserved,    \* reserved[row]: Stock.reserved_quantity
  used,        \* Coupon.used_count
  redeemed,    \* redeemed[c]: the customer's CouponRedemption rows
  placed,      \* the requests whose orders are committed
  \* row locks: the request that holds SELECT ... FOR UPDATE
  cartLock, couponLock, rowLock,
  \* each request's transaction
  pc,          \* what the request does next
  lines,       \* lines[r]: the cart lines it read
  todo,        \* todo[r]: the lines it has not yet turned into order items
  group,       \* group[r]: the store whose order it is filling
  item,        \* item[r]: the line and the warehouse it is about to reserve
  taken,       \* taken[r][row]: units it reserved, uncommitted unless placed
  reply,       \* reply[r]: HTTP status of the response
  \* history
  put,         \* put[c][s]: units ever put into the cart
  edits        \* cart edits so far

db == <<cart, reserved, used, redeemed, placed>>
locks == <<cartLock, couponLock, rowLock>>
txn == <<pc, lines, todo, group, item, taken, reply>>
vars == <<db, locks, txn, put, edits>>

PC == {"idle", "cart", "coupon", "pick", "reserve", "respond", "done"}
Reply == {"none", "created", "rejected", "error", "unavailable", "lost"}
Empty == [s \in Sku |-> 0]
Nothing == [row \in Row |-> 0]
NoItem == [row |-> NoRow, units |-> 0]
Stores == {StoreOf[p] : p \in Product}
StoreOfSku(s) == StoreOf[ProductOf[s]]

TypeOK ==
  /\ cart \in [Customer -> [Sku -> Nat]]
  /\ reserved \in [Row -> Nat]
  /\ used \in Nat
  /\ redeemed \in [Customer -> Nat]
  /\ placed \subseteq Request
  /\ cartLock \in [Customer -> Request \cup {NoOne}]
  /\ couponLock \in Request \cup {NoOne}
  /\ rowLock \in [Row -> Request \cup {NoOne}]
  /\ pc \in [Request -> PC]
  /\ lines \in [Request -> [Sku -> Nat]]
  /\ todo \in [Request -> SUBSET Sku]
  /\ group \in [Request -> Stores \cup {Anything}]
  /\ item \in [Request -> [row : Row \cup {NoRow}, units : Nat]]
  /\ taken \in [Request -> [Row -> Nat]]
  /\ reply \in [Request -> Reply]
  /\ put \in [Customer -> [Sku -> Nat]]
  /\ edits \in 0..MaxEdits

Init ==
  /\ cart \in Carts
  /\ reserved = Nothing
  /\ used = 0
  /\ redeemed = [c \in Customer |-> 0]
  /\ placed = {}
  /\ cartLock = [c \in Customer |-> NoOne]
  /\ couponLock = NoOne
  /\ rowLock = [row \in Row |-> NoOne]
  /\ pc = [r \in Request |-> "idle"]
  /\ lines = [r \in Request |-> Empty]
  /\ todo = [r \in Request |-> {}]
  /\ group = [r \in Request |-> Anything]
  /\ item = [r \in Request |-> NoItem]
  /\ taken = [r \in Request |-> Nothing]
  /\ reply = [r \in Request |-> "none"]
  /\ put = cart
  /\ edits = 0

-----------------------------------------------------------------------------
(* Row locks and the end of a transaction *)

Free(lock, r) == lock \in {NoOne, r}

Unlocked(lock, r) == IF lock = r THEN NoOne ELSE lock

ReleaseLocks(r) ==
  /\ cartLock' = [c \in Customer |-> Unlocked(cartLock[c], r)]
  /\ couponLock' = Unlocked(couponLock, r)
  /\ rowLock' = [row \in Row |-> Unlocked(rowLock[row], r)]

\* The request gives up: the database undoes its writes and frees its locks.
Rollback(r, answer) ==
  /\ pc' = [pc EXCEPT ![r] = "done"]
  /\ reply' = [reply EXCEPT ![r] = answer]
  /\ lines' = [lines EXCEPT ![r] = Empty]
  /\ todo' = [todo EXCEPT ![r] = {}]
  /\ group' = [group EXCEPT ![r] = Anything]
  /\ item' = [item EXCEPT ![r] = NoItem]
  /\ taken' = [taken EXCEPT ![r] = Nothing]
  /\ ReleaseLocks(r)
  /\ UNCHANGED <<db, put, edits>>

-----------------------------------------------------------------------------
(* CheckoutView.post calls place_order *)

Submit(r) ==
  /\ pc[r] = "idle"
  /\ pc' = [pc EXCEPT ![r] = "cart"]
  /\ UNCHANGED <<db, locks, lines, todo, group, item, taken, reply, put, edits>>

\* cart = Cart.objects.select_for_update().get(pk=cart.pk), then the items.
\* Mutant: the cart is read without select_for_update.
CartFreeAlways(r) == pc[r] = "cart"

CartFree(r) == Free(cartLock[CustomerOf[r]], r)
LinesIn(c) == {s \in Sku : cart[c][s] > 0}

LockCart(r) ==
  LET c == CustomerOf[r] IN
  /\ pc[r] = "cart" /\ CartFree(r)
  /\ LinesIn(c) # {}
  /\ cartLock' = [cartLock EXCEPT ![c] = r]
  /\ lines' = [lines EXCEPT ![r] = cart[c]]
  /\ todo' = [todo EXCEPT ![r] = LinesIn(c)]
  /\ pc' = [pc EXCEPT ![r] = IF r \in WithCoupon THEN "coupon" ELSE "pick"]
  /\ UNCHANGED <<db, couponLock, rowLock, group, item, taken, reply, put, edits>>

RejectEmptyCart(r) ==
  /\ pc[r] = "cart" /\ CartFree(r)
  /\ LinesIn(CustomerOf[r]) = {}
  /\ Rollback(r, "rejected")

\* validate_coupon(..., lock=True): the limits are read after the row lock.
\* Mutant: validate_coupon(..., lock=False).
CouponFreeAlways(r) == pc[r] = "coupon"

CouponFree(r) == Free(couponLock, r)

Subtotal(r) == SumFunction([s \in Sku |-> Price[s] * lines[r][s]])

Below(count, limit) == limit # Anything => count < limit

CouponApplies(r) ==
  /\ Below(used, UsageLimit)
  /\ Below(redeemed[CustomerOf[r]], CustomerLimit)
  /\ Subtotal(r) >= MinOrder
  /\ CouponStore # Anything => \E s \in todo[r] : StoreOfSku(s) = CouponStore

LockCoupon(r) ==
  /\ pc[r] = "coupon" /\ CouponFree(r)
  /\ CouponApplies(r)
  /\ couponLock' = r
  /\ pc' = [pc EXCEPT ![r] = "pick"]
  /\ UNCHANGED <<db, cartLock, rowLock, lines, todo, group, item, taken, reply, put, edits>>

RejectCoupon(r) ==
  /\ pc[r] = "coupon" /\ CouponFree(r)
  /\ ~CouponApplies(r)
  /\ Rollback(r, "rejected")

-----------------------------------------------------------------------------
(* The order items, one store after the other *)

\* The lines that may come next: a store's order is filled before the next
\* store's is begun.  Which line is first is the order of the cart's rows.
NextLines(r) ==
  LET sameStore == {s \in todo[r] : StoreOfSku(s) = group[r]}
  IN  IF sameStore = {} THEN todo[r] ELSE sameStore

Rows(s) == {row \in Row : RowProduct[row] = ProductOf[s]}

\* Mutant: the request does not see its own reservations.
AvailableCommitted(r, row) == Quantity[row] - reserved[row]

\* quantity - reserved_quantity as request r sees it: the committed columns
\* and its own uncommitted writes.
Available(r, row) == Quantity[row] - reserved[row] - taken[r][row]

\* order_by("-available"): the first candidate is one with the most units.
BestRows(r, s) ==
  {row \in Rows(s) : \A other \in Rows(s) : Available(r, other) <= Available(r, row)}

AddDigitalItem(r, s) ==
  /\ pc[r] = "pick" /\ s \in NextLines(r)
  /\ ProductOf[s] \in Digital
  /\ group' = [group EXCEPT ![r] = StoreOfSku(s)]
  /\ todo' = [todo EXCEPT ![r] = @ \ {s}]
  /\ UNCHANGED <<db, locks, pc, lines, item, taken, reply, put, edits>>

\* _pick_warehouse_with_stock: an unlocked read.
PickWarehouse(r, s) ==
  /\ pc[r] = "pick" /\ s \in NextLines(r)
  /\ ProductOf[s] \notin Digital
  /\ \E row \in BestRows(r, s) :
       /\ Available(r, row) >= lines[r][s]
       /\ item' = [item EXCEPT ![r] = [row |-> row, units |-> lines[r][s]]]
  /\ group' = [group EXCEPT ![r] = StoreOfSku(s)]
  /\ todo' = [todo EXCEPT ![r] = @ \ {s}]
  /\ pc' = [pc EXCEPT ![r] = "reserve"]
  /\ UNCHANGED <<db, locks, lines, taken, reply, put, edits>>

\* Mutant: a request waits for somebody to restock a warehouse.
SearchAgain(r, s) ==
  /\ pc[r] = "pick" /\ s \in NextLines(r)
  /\ \A row \in Rows(s) : Available(r, row) < lines[r][s]
  /\ UNCHANGED vars

RejectNoWarehouse(r, s) ==
  /\ pc[r] = "pick" /\ s \in NextLines(r)
  /\ ProductOf[s] \notin Digital
  /\ \A row \in Rows(s) : Available(r, row) < lines[r][s]
  /\ Rollback(r, "rejected")

\* reserve_stock: lock the row, read it again, check it again.
RowFree(r) == Free(rowLock[item[r].row], r)
\* Mutants: the second look is left out; a reservation overwrites the
\* request's earlier one on the row.
StillAvailableAssumed(r) == pc[r] = "reserve"
AddUnitsOverwrite(n, units) == units

StillAvailable(r) == Available(r, item[r].row) >= item[r].units
AddUnits(n, units) == n + units

ReserveStock(r) ==
  LET row == item[r].row IN
  /\ pc[r] = "reserve" /\ RowFree(r)
  /\ StillAvailable(r)
  /\ rowLock' = [rowLock EXCEPT ![row] = r]
  /\ taken' = [taken EXCEPT ![r][row] = AddUnits(@, item[r].units)]
  /\ item' = [item EXCEPT ![r] = NoItem]
  /\ pc' = [pc EXCEPT ![r] = "pick"]
  /\ UNCHANGED <<db, cartLock, couponLock, lines, todo, group, reply, put, edits>>

RejectLostRace(r) ==
  /\ pc[r] = "reserve" /\ RowFree(r)
  /\ ~StillAvailable(r)
  /\ Rollback(r, "rejected")

-----------------------------------------------------------------------------
(* Commit, response, and what cuts a request short *)

Redeems(r) == IF r \in WithCoupon THEN 1 ELSE 0

\* The orders, the reservations and the redemption become visible together,
\* and clear_cart empties the cart whatever it holds by then.
Commit(r) ==
  LET c == CustomerOf[r] IN
  /\ pc[r] = "pick" /\ todo[r] = {}
  /\ reserved' = [row \in Row |-> reserved[row] + taken[r][row]]
  /\ used' = used + Redeems(r)
  /\ redeemed' = [redeemed EXCEPT ![c] = @ + Redeems(r)]
  /\ cart' = [cart EXCEPT ![c] = Empty]
  /\ placed' = placed \cup {r}
  /\ pc' = [pc EXCEPT ![r] = "respond"]
  /\ ReleaseLocks(r)
  /\ UNCHANGED <<lines, todo, group, item, taken, reply, put, edits>>

\* The orders stand.  A gateway that is not configured, or that fails, still
\* turns the answer into 503.
Respond(r) ==
  /\ pc[r] = "respond"
  /\ pc' = [pc EXCEPT ![r] = "done"]
  /\ \/ reply' = [reply EXCEPT ![r] = "created"]
     \/ r \in Prepaid /\ reply' = [reply EXCEPT ![r] = "unavailable"]
  /\ UNCHANGED <<db, locks, lines, todo, group, item, taken, put, edits>>

\* Request r waits for a lock that request q holds.
WaitsFor(r, q) ==
  /\ q # r
  /\ \/ pc[r] = "cart" /\ cartLock[CustomerOf[r]] = q
     \/ pc[r] = "coupon" /\ couponLock = q
     \/ pc[r] = "reserve" /\ rowLock[item[r].row] = q

InCycle(r) ==
  \E cycle \in SUBSET Request :
    /\ r \in cycle
    /\ \A x \in cycle : /\ \E y \in cycle : WaitsFor(x, y)
                        /\ \E y \in cycle : WaitsFor(y, x)

\* PostgreSQL picks one transaction of a wait cycle and aborts it; the
\* OperationalError is not a ValueError, so the client sees a 500.
AbortDeadlocked(r) ==
  /\ InCycle(r)
  /\ Rollback(r, "error")

\* The worker or its connection dies before the commit, or after it.
LoseProcess(r) ==
  \/ /\ pc[r] \in {"cart", "coupon", "pick", "reserve"}
     /\ Rollback(r, "lost")
  \/ /\ pc[r] = "respond"
     /\ pc' = [pc EXCEPT ![r] = "done"]
     /\ reply' = [reply EXCEPT ![r] = "lost"]
     /\ UNCHANGED <<db, locks, lines, todo, group, item, taken, put, edits>>

-----------------------------------------------------------------------------
(* Customers keep editing their carts meanwhile *)

Tracked(s) == ProductOf[s] \notin Digital /\ Rows(s) # {}
InStock(s) == SumFunctionOnSet([row \in Row |-> Quantity[row] - reserved[row]], Rows(s))

\* add_item of one unit.  A new line inserts a CartItem, whose foreign key
\* waits for a cart row locked by a checkout; a further unit of an existing
\* line updates the CartItem, which does not.
AddToCart(c, s) ==
  /\ edits < MaxEdits
  /\ Tracked(s) => cart[c][s] + 1 <= InStock(s)
  /\ cart[c][s] = 0 => cartLock[c] = NoOne
  /\ cart' = [cart EXCEPT ![c][s] = @ + 1]
  /\ put' = [put EXCEPT ![c][s] = @ + 1]
  /\ edits' = edits + 1
  /\ UNCHANGED <<reserved, used, redeemed, placed, locks, txn>>

RemoveLine(c, s) ==
  /\ edits < MaxEdits
  /\ cart[c][s] > 0
  /\ cart' = [cart EXCEPT ![c][s] = 0]
  /\ edits' = edits + 1
  /\ UNCHANGED <<reserved, used, redeemed, placed, locks, txn, put>>

-----------------------------------------------------------------------------

Fill(r) ==
  \E s \in Sku : AddDigitalItem(r, s) \/ PickWarehouse(r, s) \/ RejectNoWarehouse(r, s)

\* What the server does for a request once it has arrived.
Serve(r) ==
  \/ LockCart(r) \/ RejectEmptyCart(r)
  \/ LockCoupon(r) \/ RejectCoupon(r)
  \/ Fill(r)
  \/ ReserveStock(r) \/ RejectLostRace(r)
  \/ Commit(r) \/ Respond(r)

Finished ==
  /\ \A r \in Request : pc[r] = "done"
  /\ UNCHANGED vars

Next ==
  \/ \E r \in Request :
       Submit(r) \/ Serve(r) \/ AbortDeadlocked(r) \/ LoseProcess(r)
  \/ \E c \in Customer, s \in Sku : AddToCart(c, s) \/ RemoveLine(c, s)
  \/ Finished

Spec == Init /\ [][Next]_vars

\* A worker that has a request goes on with it, and the database's deadlock
\* detector runs; clients, crashes and cart edits owe nothing.
FairSpec ==
  /\ Spec
  /\ \A r \in Request : WF_vars(Serve(r)) /\ WF_vars(AbortDeadlocked(r))

-----------------------------------------------------------------------------
(* Properties *)

Open == Request \ placed
UnitsOf(f, S) == SumFunctionOnSet(f, S)

\* No row is promised beyond its stock, not even once the checkouts still
\* running commit, and no two of those hold units of one row: reserve_stock's
\* second look, under the row lock, makes up for the unlocked search.
NoOversell ==
  \A row \in Row :
    /\ reserved[row] <= Quantity[row]
    /\ \A r \in Open :
         /\ reserved[row] + taken[r][row] <= Quantity[row]
         /\ \A q \in Open \ {r} : taken[r][row] > 0 => taken[q][row] = 0

\* An order exists only with all its units reserved at rows of the right
\* products, and every reserved unit belongs to such an order: no checkout
\* leaves a partial reservation behind, and none orders what it did not get.
StockBacksOrders ==
  /\ \A r \in placed, p \in Product \ Digital :
       UnitsOf(taken[r], {row \in Row : RowProduct[row] = p})
         = UnitsOf(lines[r], {s \in Sku : ProductOf[s] = p})
  /\ \A row \in Row : reserved[row] = UnitsOf([r \in Request |-> taken[r][row]], placed)

\* However often the customer submits, no unit put into a cart is ordered
\* twice: the cart row's lock makes the second submit find the cart empty.
CartOrderedOnce ==
  \A c \in Customer, s \in Sku :
    UnitsOf([r \in Request |-> lines[r][s]], {r \in placed : CustomerOf[r] = c})
      + cart[c][s] <= put[c][s]

\* Concurrent checkouts never push a coupon past its limits, and it is
\* counted once for every checkout that used it.
CouponWithinLimits ==
  /\ UsageLimit # Anything => used <= UsageLimit
  /\ CustomerLimit # Anything => \A c \in Customer : redeemed[c] <= CustomerLimit
  /\ used = Cardinality(placed \cap WithCoupon)

\* What makes the locks work, and the strengthening the proofs rest on: a
\* request's uncommitted units lie on rows whose lock it holds; a coupon that
\* was found usable stays usable, and locked, until its request ends; orders
\* are committed exactly when their request goes on to answer.
TransactionInv ==
  /\ \A r \in Open, row \in Row : taken[r][row] > 0 => rowLock[row] = r
  /\ \A r \in WithCoupon :
       pc[r] \in {"pick", "reserve"} =>
         /\ couponLock = r
         /\ Below(used, UsageLimit)
         /\ Below(redeemed[CustomerOf[r]], CustomerLimit)
  /\ \A r \in Request :
       /\ pc[r] = "respond" => r \in placed
       /\ r \in placed => pc[r] \in {"respond", "done"}
       /\ pc[r] = "reserve" => item[r].row \in Row

\* Seen from the stock rows, a checkout is one indivisible reservation of
\* all its units, or nothing.
Ledger == INSTANCE ReservationLedger WITH
  Holder <- Request, Corrected <- {}, quantity <- Quantity,
  held <- [r \in Request |-> IF r \in placed THEN taken[r] ELSE Nothing],
  phase <- [r \in Request |-> IF r \in placed THEN "open" ELSE "new"]
ImplementsLedger == Ledger!Spec

\* Every checkout that arrives is answered, or dies: waits for row locks end,
\* wait cycles included.
EventuallyAnswered == \A r \in Request : pc[r] = "cart" ~> reply[r] # "none"

=============================================================================
