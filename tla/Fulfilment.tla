----------------------------- MODULE Fulfilment -----------------------------
(***************************************************************************)
(* The life of an order after checkout: transition_status and the requests *)
(* that call it (transition, cancel, a gateway's confirmation), with the   *)
(* stock rows it moves.                                                    *)
(*                                                                         *)
(* A request first loads the order, without a lock, and checks the status  *)
(* it read; the transaction that follows never looks at the status again.  *)
(* In between, anybody else may move the order.  A gateway's webhook locks *)
(* the order row instead and decides on what it then reads.                *)
(*                                                                         *)
(* The transaction itself is one step here: every stock row it changes is  *)
(* locked before it is read and stays locked until the commit, and the     *)
(* order row is written last.                                              *)
(***************************************************************************)
EXTENDS Integers, FiniteSets, Functions

CONSTANTS
  Order,
  Row,          \* stock rows
  Call,         \* the requests that may be running at one time
  Idle,         \* what a call that is not running does
  Need,         \* Need[o][row]: units of the order's items at that row
  Stock,        \* Stock[row]: units there at the beginning
  Overlap,      \* may several requests work on one order at a time?
  Corrected,    \* the rows whose quantity staff correct by hand
  MaxUnits      \* bound: units a row may hold

Status == {"none", "pending", "processing", "packed", "shipped", "delivered",
           "returned", "cancelled", "refunded"}
Targets == Status \ {"none", "pending"}
Work == [order : Order, to : Targets]

ASSUME FulfilmentAssumption ==
  /\ Need \in [Order -> [Row -> Nat]]
  /\ Stock \in [Row -> Nat]
  /\ Overlap \in BOOLEAN
  /\ Corrected \subseteq Row
  /\ Idle \notin Work
  /\ MaxUnits \in Nat

VARIABLES
  status,     \* status[o]: Order.status, "none" before checkout
  quantity,   \* quantity[row]: Stock.quantity
  reserved,   \* reserved[row]: Stock.reserved_quantity
  calls       \* calls[c]: the order a running request loaded and its new status

vars == <<status, quantity, reserved, calls>>

Allowed == [s \in Status |->
  CASE s = "pending"    -> {"processing", "cancelled"}
    [] s = "processing" -> {"packed", "cancelled"}
    [] s = "packed"     -> {"shipped", "cancelled"}
    [] s = "shipped"    -> {"delivered"}
    [] s = "delivered"  -> {"returned"}
    [] s = "returned"   -> {"refunded"}
    [] OTHER            -> {}]

Reserving == {"pending", "processing", "packed"}

Nothing == [row \in Row |-> 0]
TypeOK ==
  /\ status \in [Order -> Status]
  /\ quantity \in [Row -> Nat]
  /\ reserved \in [Row -> Nat]
  /\ calls \in [Call -> Work \cup {Idle}]

Init ==
  /\ status = [o \in Order |-> "none"]
  /\ quantity = Stock
  /\ reserved = Nothing
  /\ calls = [c \in Call |-> Idle]

-----------------------------------------------------------------------------

\* A checkout commits the order (module Checkout, as one step).
Place(o) ==
  /\ status[o] = "none"
  /\ \A row \in Row : reserved[row] + Need[o][row] <= quantity[row]
  /\ status' = [status EXCEPT ![o] = "pending"]
  /\ reserved' = [row \in Row |-> reserved[row] + Need[o][row]]
  /\ UNCHANGED <<quantity, calls>>

Busy(o) == \E c \in Call : calls[c] # Idle /\ calls[c].order = o

\* The view loads the order and transition_status checks what was loaded.
\* Mutant: transition_status checks nothing.
MayMoveAlways(seen, to) == seen # "none" /\ to \in Targets

MayMove(seen, to) == to \in Allowed[seen]

Load(c, o, to) ==
  /\ calls[c] = Idle
  /\ Overlap \/ ~Busy(o)
  /\ MayMove(status[o], to)
  /\ calls' = [calls EXCEPT ![c] = [order |-> o, to |-> to]]
  /\ UNCHANGED <<status, quantity, reserved>>

\* What adjust_stock and release_stock insist on, item after item.
StockAllows(o, to) ==
  \A row \in Row :
    /\ to = "shipped" => Need[o][row] <= quantity[row]
    /\ to \in {"shipped", "cancelled"} => Need[o][row] <= reserved[row]

\* Mutant: shipping forgets the reservation.
ClearedOnCancel(o, to) == IF to = "cancelled" THEN Need[o] ELSE Nothing

Cleared(o, to) == IF to \in {"shipped", "cancelled"} THEN Need[o] ELSE Nothing
Deducted(o, to) == IF to = "shipped" THEN Need[o] ELSE Nothing
Restored(o, to) == IF to = "returned" THEN Need[o] ELSE Nothing

\* The body of transition_status: the items' stock, then the order.
Move(o, to) ==
  /\ StockAllows(o, to)
  /\ reserved' = [row \in Row |-> reserved[row] - Cleared(o, to)[row]]
  /\ quantity' = [row \in Row |-> quantity[row] - Deducted(o, to)[row] + Restored(o, to)[row]]
  /\ \A row \in Row : quantity'[row] <= MaxUnits
  /\ status' = [status EXCEPT ![o] = to]

Apply(c) ==
  /\ calls[c] # Idle
  /\ Move(calls[c].order, calls[c].to)
  /\ calls' = [calls EXCEPT ![c] = Idle]

\* A ValueError from the stock rows (400), a deadlock or a lost process:
\* nothing of the transaction remains.
Fail(c) ==
  /\ calls[c] # Idle
  /\ calls' = [calls EXCEPT ![c] = Idle]
  /\ UNCHANGED <<status, quantity, reserved>>

\* A webhook or a gateway's callback, with the order row locked.
ConfirmPayment(o) ==
  /\ status[o] = "pending"
  /\ Move(o, "processing")
  /\ UNCHANGED calls

\* Staff restock or correct a row; adjust_stock refuses only a negative result.
CorrectStock(row) ==
  /\ \E n \in 0..MaxUnits : quantity' = [quantity EXCEPT ![row] = n]
  /\ UNCHANGED <<status, reserved, calls>>

Next ==
  \/ \E o \in Order : Place(o) \/ ConfirmPayment(o)
  \/ \E c \in Call, o \in Order, to \in Targets : Load(c, o, to)
  \/ \E c \in Call : Apply(c) \/ Fail(c)
  \/ \E row \in Corrected : CorrectStock(row)

Spec == Init /\ [][Next]_vars

-----------------------------------------------------------------------------
(* Properties *)

Open == {o \in Order : status[o] \in Reserving}

\* An order only ever takes a step its status allows ("a validated
\* order-status state machine", README.md).
OnlyAllowedMoves ==
  [][\A o \in Order :
       \/ status'[o] = status[o]
       \/ status'[o] \in Allowed[status[o]]
       \/ status[o] = "none" /\ status'[o] = "pending"]_vars

\* What a row has reserved is what the open orders need of it: a reservation
\* is cleared once, and no order's is spent on another ("reservation cleared,
\* not double counted", orders/tests.py).
ReservedForOpenOrders ==
  \A row \in Row : reserved[row] = SumFunctionOnSet([o \in Order |-> Need[o][row]], Open)

\* A row never promises more than it has, however often transitions overlap,
\* unless staff correct its quantity below what is reserved.
NoOversell == \A row \in Row \ Corrected : reserved[row] <= quantity[row]

\* Goods leave and come back as the abstract ledger says: every order reserves
\* once, then releases or ships once, and restocks at most once.
Phase(s) ==
  CASE s = "none" -> "new"
    [] s \in Reserving -> "open"
    [] s = "cancelled" -> "released"
    [] s \in {"shipped", "delivered"} -> "shipped"
    [] s \in {"returned", "refunded"} -> "restocked"

Ledger == INSTANCE ReservationLedger WITH
  Holder <- Order,
  held <- [o \in Order |-> IF status[o] = "none" THEN Nothing ELSE Need[o]],
  phase <- [o \in Order |-> Phase(status[o])]
ImplementsLedger == Ledger!Spec

=============================================================================
