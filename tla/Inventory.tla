----------------------------- MODULE Inventory ------------------------------
(***************************************************************************)
(* Stock rows of one product and transfers between its warehouses:         *)
(* inventory.services and the views that call it, catalog's                *)
(* set_stock_quantity and the plain PATCH of a stock row.                  *)
(*                                                                         *)
(* adjust_stock, reserve_stock and release_stock lock their row, read it,  *)
(* write it and log the change in one transaction.  complete_transfer does *)
(* so for two rows, the source first; two opposite transfers may lock each *)
(* other out, until the database aborts one.  Whether a transfer is still  *)
(* pending is decided on what the view loaded, before any lock.            *)
(***************************************************************************)
EXTENDS Integers, FiniteSets, Functions

CONSTANTS
  Row,       \* stock rows, one per warehouse
  Transfer,  \* rows the table of transfers may get
  Call,      \* the requests that may be running at one time
  Idle,      \* what a call that is not running does
  NoOne,     \* not a call: the holder of a free lock
  Stock,     \* Stock[row]: units there at the beginning
  Edited,    \* the rows whose columns are also written past the services
  Overlap,   \* may several requests work on one transfer at a time?
  Amounts,   \* bound: units of one change
  MaxUnits,  \* bound: the highest number a seller types in
  MaxEdits   \* bound: changes besides transfers

ASSUME InventoryAssumption ==
  /\ NoOne \notin Call
  /\ Stock \in [Row -> Nat]
  /\ Edited \subseteq Row
  /\ Overlap \in BOOLEAN
  /\ MaxUnits \in Nat /\ MaxEdits \in Nat
  /\ Amounts \subseteq Nat \ {0}
  /\ Row # {} /\ Amounts # {}

VARIABLES
  \* committed columns
  quantity,   \* quantity[row]: Stock.quantity
  reserved,   \* reserved[row]: Stock.reserved_quantity
  transfers,  \* transfers[t]: StockTransfer
  logged,     \* logged[row]: sum of the row's InventoryLog.quantity_delta
  promised,   \* promised[row]: sum of its InventoryLog.reserved_delta
  \* requests
  rowLock,    \* the call that holds SELECT ... FOR UPDATE on the row
  calls,      \* calls[c]: what a running request does next, on what it has read
  \* history
  moved,      \* moved[t]: how often the transfer's units were moved
  edits       \* changes besides transfers so far

columns == <<quantity, reserved, transfers, logged, promised, moved>>
inventoryVars == <<columns, rowLock, calls, edits>>

TransferStatus == {"none", "pending", "completed", "cancelled"}
Route == [from : Row, to : Row, units : Amounts]
SomeRoute == CHOOSE route \in Route : TRUE
Nothing == [row \in Row |-> 0]

\* seen: quantity and reserved_quantity as the request read them.
Job ==
  [do : {"take", "put", "cancel"}, transfer : Transfer, seen : Int]
    \cup [do : {"patch"}, row : Row, seen : Nat, seenReserved : Nat]

InventoryTypeOK ==
  /\ quantity \in [Row -> Nat]
  /\ reserved \in [Row -> Nat]
  /\ transfers \in [Transfer -> [status : TransferStatus, route : Route]]
  /\ logged \in [Row -> Int]
  /\ promised \in [Row -> Int]
  /\ moved \in [Transfer -> Nat]
  /\ rowLock \in [Row -> Call \cup {NoOne}]
  /\ edits \in 0..MaxEdits
  /\ calls \in [Call -> Job \cup {Idle}]

InventoryInit ==
  /\ quantity = Stock
  /\ reserved = Nothing
  /\ transfers = [t \in Transfer |-> [status |-> "none", route |-> SomeRoute]]
  /\ logged = Nothing
  /\ promised = Nothing
  /\ moved = [t \in Transfer |-> 0]
  /\ edits = 0
  /\ rowLock = [row \in Row |-> NoOne]
  /\ calls = [c \in Call |-> Idle]

-----------------------------------------------------------------------------
(* Changes of one row: one transaction, one lock *)

\* Mutant: a row is read without select_for_update.
UnlockedAlways(row) == row \in Row

Unlocked(row) == rowLock[row] = NoOne

Edit == edits < MaxEdits /\ edits' = edits + 1

\* restock and adjust; the log row is written in the same transaction.
AdjustStock(row, delta) ==
  /\ Unlocked(row)
  /\ quantity[row] + delta >= 0
  /\ Edit
  /\ quantity' = [quantity EXCEPT ![row] = @ + delta]
  /\ logged' = [logged EXCEPT ![row] = @ + delta]
  /\ UNCHANGED <<reserved, transfers, promised, moved, rowLock, calls>>

Reservable(row, n) == quantity[row] - reserved[row] >= n
Releasable(row, n) == reserved[row] >= n

ReserveStock(row, n) ==
  /\ Unlocked(row) /\ Reservable(row, n)
  /\ Edit
  /\ reserved' = [reserved EXCEPT ![row] = @ + n]
  /\ promised' = [promised EXCEPT ![row] = @ + n]
  /\ UNCHANGED <<quantity, transfers, logged, moved, rowLock, calls>>

ReleaseStock(row, n) ==
  /\ Unlocked(row) /\ Releasable(row, n)
  /\ Edit
  /\ reserved' = [reserved EXCEPT ![row] = @ - n]
  /\ promised' = [promised EXCEPT ![row] = @ - n]
  /\ UNCHANGED <<quantity, transfers, logged, moved, rowLock, calls>>

\* set_stock_quantity: a seller's new number goes straight into the row.
SetQuantity(row, n) ==
  /\ Unlocked(row)
  /\ Edit
  /\ quantity' = [quantity EXCEPT ![row] = n]
  /\ UNCHANGED <<reserved, transfers, logged, promised, moved, rowLock, calls>>

\* PATCH of the row's low_stock_threshold: the view loads the row and saves it
\* whole, with the two quantities it read.
LoadRow(c, row) ==
  /\ calls[c] = Idle
  /\ Edit
  /\ calls' = [calls EXCEPT ![c] =
       [do |-> "patch", row |-> row, seen |-> quantity[row], seenReserved |-> reserved[row]]]
  /\ UNCHANGED <<columns, rowLock>>

SaveRow(c) ==
  LET job == calls[c] IN
  /\ job # Idle /\ job.do = "patch"
  /\ Unlocked(job.row)
  /\ quantity' = [quantity EXCEPT ![job.row] = job.seen]
  /\ reserved' = [reserved EXCEPT ![job.row] = job.seenReserved]
  /\ calls' = [calls EXCEPT ![c] = Idle]
  /\ UNCHANGED <<transfers, logged, promised, moved, rowLock, edits>>

-----------------------------------------------------------------------------
(* Transfers *)

\* create_transfer looks at what is available, and holds none of it.
CreateTransfer(t, route) ==
  /\ transfers[t].status = "none"
  /\ route.from # route.to
  /\ quantity[route.from] - reserved[route.from] >= route.units
  /\ transfers' = [transfers EXCEPT ![t] = [status |-> "pending", route |-> route]]
  /\ UNCHANGED <<quantity, reserved, logged, promised, moved, rowLock, calls, edits>>

InHand(t) == \E c \in Call : calls[c] # Idle /\ calls[c].do # "patch" /\ calls[c].transfer = t

StillPending(t) == transfers[t].status = "pending"

\* complete and cancel load the transfer and check its status.
LoadTransfer(c, t, do) ==
  /\ calls[c] = Idle
  /\ Overlap \/ ~InHand(t)
  /\ StillPending(t)
  /\ calls' = [calls EXCEPT ![c] = [do |-> do, transfer |-> t, seen |-> 0]]
  /\ UNCHANGED <<columns, rowLock, edits>>

\* adjust_stock of the source row, which stays locked; nothing is committed.
TakeOut(c) ==
  LET job == calls[c]
      route == transfers[job.transfer].route
  IN
  /\ job # Idle /\ job.do = "take"
  /\ Unlocked(route.from)
  /\ quantity[route.from] >= route.units
  /\ rowLock' = [rowLock EXCEPT ![route.from] = c]
  /\ calls' = [calls EXCEPT ![c] =
       [do |-> "put", transfer |-> job.transfer, seen |-> quantity[route.from]]]
  /\ UNCHANGED <<columns, edits>>

ReleaseLocks(c) == [row \in Row |-> IF rowLock[row] = c THEN NoOne ELSE rowLock[row]]

\* adjust_stock of the target row, the transfer's status, and the commit.
PutIn(c) ==
  LET job == calls[c]
      route == transfers[job.transfer].route
  IN
  /\ job # Idle /\ job.do = "put"
  /\ Unlocked(route.to)
  /\ quantity' = [quantity EXCEPT ![route.from] = job.seen - route.units,
                                  ![route.to] = @ + route.units]
  /\ logged' = [logged EXCEPT ![route.from] = @ - route.units,
                              ![route.to] = @ + route.units]
  /\ transfers' = [transfers EXCEPT ![job.transfer].status = "completed"]
  /\ moved' = [moved EXCEPT ![job.transfer] = @ + 1]
  /\ rowLock' = ReleaseLocks(c)
  /\ calls' = [calls EXCEPT ![c] = Idle]
  /\ UNCHANGED <<reserved, promised, edits>>

CancelTransfer(c) ==
  LET job == calls[c] IN
  /\ job # Idle /\ job.do = "cancel"
  /\ transfers' = [transfers EXCEPT ![job.transfer].status = "cancelled"]
  /\ calls' = [calls EXCEPT ![c] = Idle]
  /\ UNCHANGED <<quantity, reserved, logged, promised, moved, rowLock, edits>>

Abandon(c) ==
  /\ calls' = [calls EXCEPT ![c] = Idle]
  /\ rowLock' = ReleaseLocks(c)
  /\ UNCHANGED <<columns, edits>>

\* Mutant: a transfer waits until its source row has enough.
AwaitStock(c) == calls[c] # Idle /\ calls[c].do = "take" /\ UNCHANGED inventoryVars

\* adjust_stock would make the source row negative.
Refuse(c) ==
  LET route == transfers[calls[c].transfer].route IN
  /\ calls[c] # Idle /\ calls[c].do = "take"
  /\ Unlocked(route.from)
  /\ quantity[route.from] < route.units
  /\ Abandon(c)

\* Request c holds its source row and waits for one that request d holds.
WaitsFor(c, d) ==
  /\ calls[c] # Idle /\ calls[c].do = "put"
  /\ rowLock[transfers[calls[c].transfer].route.to] = d

\* PostgreSQL breaks a cycle of waits by aborting one transaction.
AbortDeadlocked(c) ==
  /\ \E d \in Call : WaitsFor(c, d) /\ WaitsFor(d, c)
  /\ Abandon(c)

LoseProcess(c) ==
  /\ calls[c] # Idle
  /\ Abandon(c)

-----------------------------------------------------------------------------

\* What goes on by itself once a request runs.
Work(c) == TakeOut(c) \/ PutIn(c) \/ CancelTransfer(c) \/ Refuse(c) \/ SaveRow(c)

InventoryNext ==
  \/ \E row \in Row, n \in Amounts :
       \/ AdjustStock(row, n) \/ AdjustStock(row, -n)
       \/ ReserveStock(row, n) \/ ReleaseStock(row, n)
  \/ \E row \in Edited :
       \/ \E n \in 0..MaxUnits : SetQuantity(row, n)
       \/ \E c \in Call : LoadRow(c, row)
  \/ \E t \in Transfer, route \in Route : CreateTransfer(t, route)
  \/ \E c \in Call, t \in Transfer, do \in {"take", "cancel"} : LoadTransfer(c, t, do)
  \/ \E c \in Call : Work(c) \/ AbortDeadlocked(c) \/ LoseProcess(c)

InventorySpec == InventoryInit /\ [][InventoryNext]_inventoryVars

\* The workers go on, and the database detects deadlocks.
InventoryFairSpec ==
  /\ InventorySpec
  /\ \A c \in Call : SF_inventoryVars(Work(c)) /\ WF_inventoryVars(AbortDeadlocked(c))

-----------------------------------------------------------------------------
(* Properties *)

\* The log explains the stock: whatever interleaves, aborts or crashes, a row
\* written only through the services holds what its InventoryLog rows add up to.
LogExplainsStock ==
  \A row \in Row \ Edited :
    /\ quantity[row] = Stock[row] + logged[row]
    /\ reserved[row] = promised[row]

\* A transfer moves its units once if it is completed, and never otherwise
\* ("Only pending transfers can be completed.", inventory/services.py): so it is
\* if requests on one transfer follow one another, and not if they overlap.
MovedAsRecorded ==
  \A t \in Transfer : moved[t] = IF transfers[t].status = "completed" THEN 1 ELSE 0

\* Every request on a transfer or a row ends, even if two opposite transfers
\* wait for each other's rows.
RequestsEnd == \A c \in Call : calls[c] # Idle ~> calls[c] = Idle

=============================================================================
