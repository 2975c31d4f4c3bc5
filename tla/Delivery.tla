------------------------------ MODULE Delivery ------------------------------
(***************************************************************************)
(* Bringing a packed order to the customer, and taking it back: delivery   *)
(* attempts (shipping.services.assign_delivery, update_delivery_status)    *)
(* and return requests (orders.api_views.ReturnRequestViewSet), on top of  *)
(* the orders and stock rows of module Fulfilment.                         *)
(*                                                                         *)
(* Like a transition, each of these requests decides on what it read when  *)
(* it began: a delivery reads its attempt together with the order, a       *)
(* return request reads the order or its own row.  What it then writes is  *)
(* one transaction, except for an approval, which moves the order in one   *)
(* transaction and marks the return request in another.                    *)
(***************************************************************************)
EXTENDS Fulfilment

CONSTANTS
  Attempt,    \* rows the table of delivery assignments may get
  Return,     \* rows the table of return requests may get
  NoRecord    \* a row that does not exist (yet)

ASSUME DeliveryAssumption == NoRecord \notin Order

VARIABLES
  attempts,   \* attempts[a]: the order of the DeliveryAssignment and its status
  returns,    \* returns[x]: the order of the ReturnRequest and its status
  visits      \* visits[c]: what a running request of this module has read

deliveryVars == <<vars, attempts, returns, visits>>

AttemptStatus == {"assigned", "picked_up", "out_for_delivery", "delivered", "failed"}
ReturnStatus == {"requested", "approved", "rejected"}

\* move is the status the order is to take as well, "none" if it stays.
Visit ==
  [what : {"assign", "update"}, order : Order, row : Attempt,
   to : AttemptStatus, move : {"none", "shipped", "delivered"}] \cup
  [what : {"ask", "respond", "mark"}, order : Order, row : Return,
   to : ReturnStatus, move : {"none", "returned"}]

DeliveryTypeOK ==
  /\ TypeOK
  /\ attempts \in [Attempt -> [order : Order \cup {NoRecord}, status : AttemptStatus]]
  /\ returns \in [Return -> [order : Order \cup {NoRecord}, status : ReturnStatus]]
  /\ visits \in [Call -> Visit \cup {Idle}]

DeliveryInit ==
  /\ Init
  /\ attempts = [a \in Attempt |-> [order |-> NoRecord, status |-> "assigned"]]
  /\ returns = [x \in Return |-> [order |-> NoRecord, status |-> "requested"]]
  /\ visits = [c \in Call |-> Idle]

-----------------------------------------------------------------------------

Visited(o) == \E c \in Call : visits[c] # Idle /\ visits[c].order = o

\* A request may begin work on order o.
Begin(c, o) ==
  /\ calls[c] = Idle /\ visits[c] = Idle
  /\ Overlap \/ ~(Busy(o) \/ Visited(o))

Read(c, visit) ==
  /\ Begin(c, visit.order)
  /\ visits' = [visits EXCEPT ![c] = visit]
  /\ UNCHANGED <<vars, attempts, returns>>

Done(c) == visits' = [visits EXCEPT ![c] = Idle]

AttemptsOf(o) == {a \in Attempt : attempts[a].order = o}
ReturnsOf(o) == {x \in Return : returns[x].order = o}
Unused(records) == {k \in DOMAIN records : records[k].order = NoRecord}

-----------------------------------------------------------------------------
(* Delivery attempts *)

AttemptAllowed(s) ==
  CASE s = "assigned"         -> {"picked_up", "failed"}
    [] s = "picked_up"        -> {"out_for_delivery", "failed"}
    [] s = "out_for_delivery" -> {"delivered", "failed"}
    [] OTHER                  -> {}

Active(s) == s \notin {"failed", "delivered"}

\* Mutant: nobody looks for an active attempt.
AssignableAgain(o) == status[o] \in {"packed", "shipped"}

Assignable(o) ==
  /\ status[o] \in {"packed", "shipped"}
  /\ \A a \in AttemptsOf(o) : ~Active(attempts[a].status)

\* assign_delivery looks at the order and its attempts, then inserts a new one.
ReadForAssign(c, o) ==
  /\ Assignable(o)
  /\ \E a \in Unused(attempts) :
       Read(c, [what |-> "assign", order |-> o, row |-> a, to |-> "assigned", move |-> "none"])

Assign(c) ==
  LET v == visits[c] IN
  /\ v # Idle /\ v.what = "assign"
  /\ v.row \in Unused(attempts)
  /\ attempts' = [attempts EXCEPT ![v.row] = [order |-> v.order, status |-> "assigned"]]
  /\ Done(c)
  /\ UNCHANGED <<vars, returns>>

\* Mutant: picking up leaves the order packed.
OrderMoveLate(seen, to) ==
  IF to = "delivered" /\ seen = "shipped" THEN "delivered" ELSE "none"

\* What update_delivery_status does to an order it saw in status seen.
OrderMove(seen, to) ==
  IF to = "picked_up" /\ seen = "packed" THEN "shipped"
  ELSE IF to = "delivered" /\ seen = "shipped" THEN "delivered" ELSE "none"

ReadForUpdate(c, a, to) ==
  LET o == attempts[a].order IN
  /\ o \in Order
  /\ to \in AttemptAllowed(attempts[a].status)
  /\ Read(c, [what |-> "update", order |-> o, row |-> a, to |-> to,
              move |-> OrderMove(status[o], to)])

\* The attempt and, through transition_status, the order: one transaction.
UpdateAttempt(c) ==
  LET v == visits[c] IN
  /\ v # Idle /\ v.what = "update"
  /\ IF v.move = "none" THEN UNCHANGED <<status, quantity, reserved>>
     ELSE Move(v.order, v.move)
  /\ attempts' = [attempts EXCEPT ![v.row].status = v.to]
  /\ Done(c)
  /\ UNCHANGED <<calls, returns>>

-----------------------------------------------------------------------------
(* Return requests *)

\* Mutants: any order may be asked to be taken back; several requests may be
\* pending.
ReturnableAlways(o) == status[o] # "none"
PendingNever(o) == {x \in ReturnsOf(o) : returns[x].status = "none"}

Returnable(o) == status[o] = "delivered"
Pending(o) == {x \in ReturnsOf(o) : returns[x].status = "requested"}

\* perform_create looks at the order and for a pending request, then inserts.
ReadForReturn(c, o) ==
  /\ Returnable(o) /\ Pending(o) = {}
  /\ \E x \in Unused(returns) :
       Read(c, [what |-> "ask", order |-> o, row |-> x, to |-> "requested", move |-> "none"])

AskReturn(c) ==
  LET v == visits[c] IN
  /\ v # Idle /\ v.what = "ask"
  /\ v.row \in Unused(returns)
  /\ returns' = [returns EXCEPT ![v.row] = [order |-> v.order, status |-> "requested"]]
  /\ Done(c)
  /\ UNCHANGED <<vars, attempts>>

\* respond: an approval needs transition_status's consent to the move.
ReadForRespond(c, x, to) ==
  LET o == returns[x].order
      approves == to = "approved"
  IN
  /\ o \in Order
  /\ to # "requested" /\ returns[x].status = "requested"
  /\ approves => MayMove(status[o], "returned")
  /\ Read(c, [what |-> IF approves THEN "respond" ELSE "mark", order |-> o, row |-> x,
              to |-> to, move |-> IF approves THEN "returned" ELSE "none"])

\* transition_status commits; the return request is not marked yet.
TakeBack(c) ==
  LET v == visits[c] IN
  /\ v # Idle /\ v.what = "respond"
  /\ Move(v.order, v.move)
  /\ visits' = [visits EXCEPT ![c].what = "mark"]
  /\ UNCHANGED <<calls, attempts, returns>>

MarkReturn(c) ==
  LET v == visits[c] IN
  /\ v # Idle /\ v.what = "mark"
  /\ returns' = [returns EXCEPT ![v.row].status = v.to]
  /\ Done(c)
  /\ UNCHANGED <<vars, attempts>>

-----------------------------------------------------------------------------

\* A refusal by the stock rows or a lost process.  Lost after TakeBack, the
\* order is returned and the return request still pending.
DropVisit(c) ==
  /\ visits[c] # Idle
  /\ Done(c)
  /\ UNCHANGED <<vars, attempts, returns>>

\* The steps of Fulfilment.  A call that is visiting cannot load an order too.
FulfilmentStep ==
  /\ Next
  /\ \A c \in Call : calls[c] = Idle /\ calls'[c] # Idle => Begin(c, calls'[c].order)
  /\ UNCHANGED <<attempts, returns, visits>>

DeliveryNext ==
  \/ FulfilmentStep
  \/ \E c \in Call :
       \/ \E o \in Order : ReadForAssign(c, o) \/ ReadForReturn(c, o)
       \/ \E a \in Attempt, to \in AttemptStatus : ReadForUpdate(c, a, to)
       \/ \E x \in Return, to \in ReturnStatus : ReadForRespond(c, x, to)
       \/ Assign(c) \/ UpdateAttempt(c)
       \/ AskReturn(c) \/ TakeBack(c) \/ MarkReturn(c)
       \/ DropVisit(c)

DeliverySpec == DeliveryInit /\ [][DeliveryNext]_deliveryVars

-----------------------------------------------------------------------------
(* Properties *)

\* No two delivery boys carry one order ("already has an active delivery
\* assignment", shipping/services.py).
OneActiveAttempt ==
  \A o \in Order : Cardinality({a \in AttemptsOf(o) : Active(attempts[a].status)}) <= 1

\* Goods on the road have left the stock: the order of an attempt that was
\* picked up holds no reservation any more.
GoodsLeftStock ==
  \A a \in Attempt :
    attempts[a].order # NoRecord
      /\ attempts[a].status \in {"picked_up", "out_for_delivery", "delivered"} =>
      status[attempts[a].order] \notin Reserving

\* An approved return brought the order back, once; a request is only ever
\* about an order that was delivered.
ReturnsMatchOrders ==
  \A x \in Return :
    returns[x].order # NoRecord =>
      /\ status[returns[x].order] \in {"delivered", "returned", "refunded"}
      /\ returns[x].status = "approved" =>
           status[returns[x].order] \in {"returned", "refunded"}

\* At most one return request of an order is open or was approved.
OneReturn ==
  \A o \in Order :
    Cardinality({x \in ReturnsOf(o) : returns[x].status # "rejected"}) <= 1

=============================================================================
