--------------------------- MODULE DeliveryProofs ---------------------------
(***************************************************************************)
(* What Fulfilment guarantees for any set of orders, stock rows and        *)
(* requests, and Delivery with it for any set of attempts and return       *)
(* requests; and which of these guarantees need requests for one order to  *)
(* follow one another.                                                     *)
(***************************************************************************)
EXTENDS Delivery, SumProofs, FiniteSetTheorems, TLAPS

USE FulfilmentAssumption DEF Nothing, Work, Status, Targets

-----------------------------------------------------------------------------
(* What one move does to the stock *)

\* A move the stock rows allow leaves the stock in its types and never
\* narrows the gap between what a row holds and what it promises.
LEMMA MoveKeepsStock ==
  ASSUME TypeOK, NEW o \in Order, NEW to \in Status, Move(o, to)
  PROVE  /\ status' = [status EXCEPT ![o] = to]
         /\ reserved' \in [Row -> Nat]
         /\ quantity' \in [Row -> Nat]
         /\ \A row \in Row : reserved[row] <= quantity[row] => reserved'[row] <= quantity'[row]
<1>1. /\ status' = [status EXCEPT ![o] = to]
      /\ reserved' = [row \in Row |-> reserved[row] - Cleared(o, to)[row]]
      /\ quantity' = [row \in Row |->
                        quantity[row] - Deducted(o, to)[row] + Restored(o, to)[row]]
      /\ StockAllows(o, to)
  BY DEF Move
<1>2. ASSUME NEW row \in Row
      PROVE  /\ reserved[row] - Cleared(o, to)[row] \in Nat
             /\ quantity[row] - Deducted(o, to)[row] + Restored(o, to)[row] \in Nat
             /\ reserved[row] <= quantity[row] =>
                  reserved[row] - Cleared(o, to)[row]
                    <= quantity[row] - Deducted(o, to)[row] + Restored(o, to)[row]
  <2>1. Need[o][row] \in Nat /\ reserved[row] \in Nat /\ quantity[row] \in Nat
    BY DEF TypeOK
  <2>2. CASE to = "shipped"
    <3>1. Need[o][row] <= quantity[row] /\ Need[o][row] <= reserved[row]
      BY <1>1, <2>2 DEF StockAllows
    <3>2. QED  BY <2>1, <2>2, <3>1 DEF Cleared, Deducted, Restored
  <2>3. CASE to = "cancelled"
    <3>1. Need[o][row] <= reserved[row]
      BY <1>1, <2>3 DEF StockAllows
    <3>2. QED  BY <2>1, <2>3, <3>1 DEF Cleared, Deducted, Restored
  <2>4. CASE to = "returned"
    BY <2>1, <2>4 DEF Cleared, Deducted, Restored
  <2>5. CASE to \notin {"shipped", "cancelled", "returned"}
    BY <2>1, <2>5 DEF Cleared, Deducted, Restored
  <2>6. QED  BY <2>2, <2>3, <2>4, <2>5
<1>3. QED  BY <1>1, <1>2

-----------------------------------------------------------------------------
(* Type correctness *)

LEMMA InitTypeOK == Init => TypeOK
BY DEF Init, TypeOK

LEMMA NextTypeOK == TypeOK /\ [Next]_vars => TypeOK'
<1> SUFFICES ASSUME TypeOK, [Next]_vars PROVE TypeOK'
  OBVIOUS
<1>1. ASSUME NEW o \in Order, Place(o) PROVE TypeOK'
  <2>1. reserved' \in [Row -> Nat]
    BY <1>1 DEF Place, TypeOK
  <2>2. QED  BY <1>1, <2>1 DEF Place, TypeOK
<1>2. ASSUME NEW o \in Order, ConfirmPayment(o) PROVE TypeOK'
  <2>1. Move(o, "processing") /\ calls' = calls /\ "processing" \in Targets
    BY <1>2 DEF ConfirmPayment
  <2>2. /\ status' = [status EXCEPT ![o] = "processing"]
        /\ reserved' \in [Row -> Nat] /\ quantity' \in [Row -> Nat]
    BY <2>1, MoveKeepsStock
  <2>3. QED  BY <2>1, <2>2 DEF TypeOK
<1>3. ASSUME NEW c \in Call, NEW o \in Order, NEW to \in Targets, Load(c, o, to)
      PROVE  TypeOK'
  BY <1>3 DEF Load, TypeOK
<1>4. ASSUME NEW c \in Call, Apply(c) PROVE TypeOK'
  <2>1. calls[c].order \in Order /\ calls[c].to \in Targets
    BY <1>4 DEF Apply, TypeOK
  <2>2. QED  BY <1>4, <2>1, MoveKeepsStock DEF Apply, TypeOK
<1>5. ASSUME NEW c \in Call, Fail(c) PROVE TypeOK'
  BY <1>5 DEF Fail, TypeOK
<1>6. ASSUME NEW row \in Corrected, CorrectStock(row) PROVE TypeOK'
  BY <1>6 DEF CorrectStock, TypeOK
<1>7. CASE UNCHANGED vars
  BY <1>7 DEF vars, TypeOK
<1>8. QED  BY <1>1, <1>2, <1>3, <1>4, <1>5, <1>6, <1>7 DEF Next

\* No interleaving of transitions drives a stock column below zero or gives an
\* order a status it cannot have.
THEOREM TypeCorrect == Spec => []TypeOK
BY InitTypeOK, NextTypeOK, PTL DEF Spec

-----------------------------------------------------------------------------
(* No oversell, however transitions overlap *)

LEMMA NoOversellStep ==
  ASSUME TypeOK, NoOversell, [Next]_vars
  PROVE  NoOversell'
<1>1. ASSUME NEW o \in Order, Place(o) PROVE NoOversell'
  BY <1>1 DEF Place, NoOversell, TypeOK
<1>2. ASSUME NEW o \in Order, ConfirmPayment(o) PROVE NoOversell'
  BY <1>2, MoveKeepsStock DEF ConfirmPayment, NoOversell
<1>3. ASSUME NEW c \in Call, Apply(c) PROVE NoOversell'
  <2>1. calls[c].order \in Order /\ calls[c].to \in Targets
    BY <1>3 DEF Apply, TypeOK
  <2>2. QED  BY <1>3, <2>1, MoveKeepsStock DEF Apply, NoOversell
<1>4. ASSUME UNCHANGED <<quantity, reserved>> PROVE NoOversell'
  BY <1>4 DEF NoOversell
<1>5. ASSUME NEW row \in Corrected, CorrectStock(row) PROVE NoOversell'
  BY <1>5 DEF CorrectStock, NoOversell, TypeOK
<1>6. QED
  BY <1>1, <1>2, <1>3, <1>4, <1>5 DEF Next, Load, Fail, vars

\* Requests may move one order at the same time, twice, in any order: no row
\* that nobody corrects by hand ever promises more than it holds.
THEOREM NeverOversold == Spec => []NoOversell
<1>1. Init => NoOversell
  BY DEF Init, NoOversell
<1>2. TypeOK /\ NoOversell /\ [Next]_vars => NoOversell'
  BY NoOversellStep
<1>3. QED  BY <1>1, <1>2, TypeCorrect, PTL DEF Spec

-----------------------------------------------------------------------------
(* The status machine and the ledger, when requests for one order take turns *)

\* What a running request has checked still holds when it comes to act on it; a
\* webhook may have confirmed the payment meanwhile, which changes nothing.
CheckedInv ==
  /\ \A c \in Call : calls[c] # Idle =>
       \/ calls[c].to \in Allowed[status[calls[c].order]]
       \/ calls[c].to = "processing" /\ status[calls[c].order] = "processing"
  /\ \A c, d \in Call :
       calls[c] # Idle /\ calls[d] # Idle /\ calls[c].order = calls[d].order => c = d

LEMMA CheckedStep ==
  ASSUME ~Overlap, TypeOK, CheckedInv, [Next]_vars
  PROVE  CheckedInv'
<1> USE DEF CheckedInv
<1>1. ASSUME NEW o \in Order, Place(o) PROVE CheckedInv'
  BY <1>1 DEF Place, TypeOK, Allowed
<1>2. ASSUME NEW o \in Order, ConfirmPayment(o) PROVE CheckedInv'
  BY <1>2 DEF ConfirmPayment, Move, TypeOK, Allowed
<1>3. ASSUME NEW c \in Call, NEW o \in Order, NEW to \in Targets, Load(c, o, to)
      PROVE  CheckedInv'
  <2>1. /\ calls' = [calls EXCEPT ![c] = [order |-> o, to |-> to]]
        /\ status' = status /\ to \in Allowed[status[o]]
        /\ \A d \in Call : calls[d] # Idle => calls[d].order # o
    BY <1>3 DEF Load, MayMove, Busy
  <2>2. QED  BY <2>1 DEF TypeOK
<1>4. ASSUME NEW c \in Call, Apply(c) PROVE CheckedInv'
  <2>1. /\ calls' = [calls EXCEPT ![c] = Idle]
        /\ status' = [status EXCEPT ![calls[c].order] = calls[c].to]
        /\ calls[c] # Idle
    BY <1>4 DEF Apply, Move
  <2>2. ASSUME NEW d \in Call, calls'[d] # Idle
        PROVE  d # c /\ calls'[d] = calls[d] /\ calls[d].order # calls[c].order
    BY <2>1, <2>2 DEF TypeOK
  <2>3. QED  BY <2>1, <2>2 DEF TypeOK
<1>5. ASSUME NEW c \in Call, Fail(c) PROVE CheckedInv'
  BY <1>5 DEF Fail, TypeOK
<1>6. ASSUME UNCHANGED <<status, calls>> PROVE CheckedInv'
  BY <1>6
<1>7. QED
  BY <1>1, <1>2, <1>3, <1>4, <1>5, <1>6 DEF Next, CorrectStock, vars

\* Every move of an order is one its status allows.
LEMMA MovesAllowed ==
  ASSUME TypeOK, CheckedInv, [Next]_vars, NEW o \in Order
  PROVE  \/ status'[o] = status[o]
         \/ status'[o] \in Allowed[status[o]]
         \/ status[o] = "none" /\ status'[o] = "pending"
<1>1. ASSUME NEW p \in Order, Place(p) \/ ConfirmPayment(p)
      PROVE  \/ status'[o] = status[o]
             \/ status'[o] \in Allowed[status[o]]
             \/ status[o] = "none" /\ status'[o] = "pending"
  BY <1>1 DEF Place, ConfirmPayment, Move, TypeOK, Allowed
<1>2. ASSUME NEW c \in Call, Apply(c)
      PROVE  status'[o] = status[o] \/ status'[o] \in Allowed[status[o]]
  BY <1>2 DEF Apply, Move, CheckedInv, TypeOK
<1>3. QED
  BY <1>1, <1>2 DEF Next, Load, Fail, CorrectStock, vars

\* When requests for one order take turns, the order never takes a step the
\* table of allowed transitions forbids, webhooks included.
THEOREM StatusMachine ==
  ASSUME ~Overlap
  PROVE  Spec => OnlyAllowedMoves
<1>1. Init => CheckedInv
  BY DEF Init, CheckedInv
<1>2. TypeOK /\ CheckedInv /\ [Next]_vars => CheckedInv'
  BY CheckedStep
<1>3. TypeOK /\ CheckedInv /\ [Next]_vars =>
        [\A o \in Order :
           \/ status'[o] = status[o]
           \/ status'[o] \in Allowed[status[o]]
           \/ status[o] = "none" /\ status'[o] = "pending"]_vars
  BY MovesAllowed
<1>4. QED  BY <1>1, <1>2, <1>3, TypeCorrect, PTL DEF Spec, OnlyAllowedMoves

-----------------------------------------------------------------------------
(* Every order reserves, releases, ships and restocks as the ledger says *)

Held == [o \in Order |-> IF status[o] = "none" THEN Nothing ELSE Need[o]]
Phases == [o \in Order |-> Phase(status[o])]
Stutter == UNCHANGED <<quantity, reserved, Held, Phases>>
LedgerMoves(o) == Ledger!Release(o) \/ Ledger!Ship(o) \/ Ledger!Restock(o)

LEMMA LedgerMove ==
  ASSUME TypeOK, NEW o \in Order, NEW to \in Targets, Move(o, to),
         \/ to \in Allowed[status[o]]
         \/ (to = "processing" /\ status[o] = "processing")
  PROVE  LedgerMoves(o) \/ Stutter
<1>1. /\ status' = [status EXCEPT ![o] = to]
      /\ reserved' = [row \in Row |-> reserved[row] - Cleared(o, to)[row]]
      /\ quantity' = [row \in Row |->
                        quantity[row] - Deducted(o, to)[row] + Restored(o, to)[row]]
      /\ StockAllows(o, to)
  BY DEF Move
<1>2. status[o] # "none" /\ to # "none"
  BY DEF Allowed, TypeOK
<1>3. Held' = Held /\ Held[o] = Need[o]
  BY <1>1, <1>2 DEF Held, TypeOK
<1>4. Phases' = [Phases EXCEPT ![o] = Phase(to)]
  BY <1>1 DEF Phases, TypeOK
<1>5. /\ reserved \in [Row -> Nat] /\ quantity \in [Row -> Nat]
      /\ Need[o] \in [Row -> Nat]
  BY DEF TypeOK
<1>6. CASE to = "cancelled"
  <2>1. Phase(status[o]) = "open" /\ Phase(to) = "released"
    BY <1>6 DEF Allowed, Phase, Reserving, TypeOK
  <2>2. reserved' = [row \in Row |-> reserved[row] - Held[o][row]]
    BY <1>1, <1>3, <1>6 DEF Cleared
  <2>3. quantity' = quantity
    BY <1>1, <1>5, <1>6 DEF Deducted, Restored
  <2>4. \A row \in Row : Held[o][row] <= reserved[row]
    BY <1>1, <1>3, <1>6 DEF StockAllows
  <2>5. Ledger!Release(o)
    BY <1>3, <1>4, <2>1, <2>2, <2>3, <2>4 DEF Ledger!Release, Held, Phases
  <2>6. QED  BY <2>5 DEF LedgerMoves
<1>7. CASE to = "shipped"
  <2>1. Phase(status[o]) = "open" /\ Phase(to) = "shipped"
    BY <1>7 DEF Allowed, Phase, Reserving, TypeOK
  <2>2. reserved' = [row \in Row |-> reserved[row] - Held[o][row]]
    BY <1>1, <1>3, <1>7 DEF Cleared
  <2>3. quantity' = [row \in Row |-> quantity[row] - Held[o][row]]
    BY <1>1, <1>3, <1>5, <1>7 DEF Deducted, Restored
  <2>4. \A row \in Row : Held[o][row] <= reserved[row]
    BY <1>1, <1>3, <1>7 DEF StockAllows
  <2>5. Ledger!Ship(o)
    BY <1>3, <1>4, <2>1, <2>2, <2>3, <2>4 DEF Ledger!Ship, Held, Phases
  <2>6. QED  BY <2>5 DEF LedgerMoves
<1>8. CASE to = "returned"
  <2>1. Phase(status[o]) = "shipped" /\ Phase(to) = "restocked"
    BY <1>8 DEF Allowed, Phase, Reserving, TypeOK
  <2>2. reserved' = reserved
    BY <1>1, <1>5, <1>8 DEF Cleared
  <2>3. quantity' = [row \in Row |-> quantity[row] + Held[o][row]]
    BY <1>1, <1>3, <1>5, <1>8 DEF Deducted, Restored
  <2>4. Ledger!Restock(o)
    BY <1>3, <1>4, <2>1, <2>2, <2>3 DEF Ledger!Restock, Held, Phases
  <2>5. QED  BY <2>4 DEF LedgerMoves
<1>9. CASE to \notin {"cancelled", "shipped", "returned"}
  <2>1. Phase(status[o]) = Phase(to)
    BY <1>9 DEF Allowed, Phase, Reserving, TypeOK
  <2>2. Phases' = Phases
    BY <1>4, <2>1 DEF Phases
  <2>3. reserved' = reserved /\ quantity' = quantity
    BY <1>1, <1>5, <1>9 DEF Cleared, Deducted, Restored
  <2>4. QED  BY <1>3, <2>2, <2>3 DEF Stutter
<1>10. QED  BY <1>6, <1>7, <1>8, <1>9

LEMMA LedgerStep ==
  ASSUME TypeOK, CheckedInv, [Next]_vars
  PROVE  [Ledger!Next]_Ledger!vars
<1>1. ASSUME NEW o \in Order, Place(o) PROVE Ledger!Reserve(o)
  <2>1. /\ status' = [status EXCEPT ![o] = "pending"]
        /\ Held' = [Held EXCEPT ![o] = Need[o]] /\ Held'[o] = Need[o]
    BY <1>1 DEF Place, Held, TypeOK
  <2>2. Phases[o] = "new" /\ Phases' = [Phases EXCEPT ![o] = "open"]
    <3>1. Phase("none") = "new" /\ Phase("pending") = "open"
      BY DEF Phase, Reserving
    <3>2. status[o] = "none" /\ status'[o] = "pending"
          /\ \A q \in Order \ {o} : status'[q] = status[q]
      BY <1>1, <2>1 DEF Place, TypeOK
    <3>3. QED  BY <3>1, <3>2 DEF Phases
  <2>3. Need[o] \in [Row -> Nat]
    OBVIOUS
  <2>4. QED
    BY <1>1, <2>1, <2>2, <2>3 DEF Place, Ledger!Reserve, Ledger!Enough, Held, Phases
<1>2. ASSUME NEW o \in Order, ConfirmPayment(o)
      PROVE  Stutter \/ \E p \in Order : LedgerMoves(p)
  <2>1. Move(o, "processing") /\ status[o] = "pending" /\ "processing" \in Targets
    BY <1>2 DEF ConfirmPayment
  <2>2. "processing" \in Allowed[status[o]]
    BY <2>1 DEF Allowed
  <2>3. QED  BY <2>1, <2>2, LedgerMove
<1>3. ASSUME NEW c \in Call, Apply(c)
      PROVE  Stutter \/ \E p \in Order : LedgerMoves(p)
  <2>1. calls[c].order \in Order /\ calls[c].to \in Targets
    BY <1>3 DEF Apply, TypeOK
  <2>2. \/ calls[c].to \in Allowed[status[calls[c].order]]
        \/ calls[c].to = "processing" /\ status[calls[c].order] = "processing"
    BY <1>3 DEF Apply, CheckedInv
  <2>3. Move(calls[c].order, calls[c].to)
    BY <1>3 DEF Apply
  <2>4. QED  BY <2>1, <2>2, <2>3, LedgerMove
<1>4. ASSUME UNCHANGED <<status, quantity, reserved>> PROVE Stutter
  BY <1>4 DEF Stutter, Held, Phases
<1>5. ASSUME NEW row \in Corrected, CorrectStock(row) PROVE Ledger!Correct(row)
  <2>1. PICK n \in 0..MaxUnits : quantity' = [quantity EXCEPT ![row] = n]
    BY <1>5 DEF CorrectStock
  <2>2. quantity'[row] = n /\ quantity'[row] \in Nat
    BY <2>1 DEF TypeOK
  <2>3. QED  BY <1>5, <2>1, <2>2 DEF CorrectStock, Ledger!Correct
<1>6. \/ Stutter
      \/ \E p \in Order : Ledger!Reserve(p) \/ LedgerMoves(p)
      \/ \E row \in Corrected : Ledger!Correct(row)
  BY <1>1, <1>2, <1>3, <1>4, <1>5 DEF Next, Load, Fail, vars
<1>7. QED
  BY <1>6 DEF Stutter, Held, Phases, LedgerMoves, Ledger!Next, Ledger!vars

LEMMA InitLedger == Init => Ledger!Init
<1> SUFFICES ASSUME Init PROVE Ledger!Init
  OBVIOUS
<1>1. Held = [o \in Order |-> Ledger!Nothing] /\ Phases = [o \in Order |-> "new"]
  BY DEF Init, Held, Phases, Phase, Reserving, Ledger!Nothing
<1>2. quantity \in [Row -> Nat] /\ reserved = Ledger!Nothing
  BY DEF Init, Ledger!Nothing
<1>3. QED  BY <1>1, <1>2 DEF Ledger!Init, Held, Phases

\* Requests for one order taking turns, every order reserves its units once,
\* gives them back or ships them once, and brings them back at most once:
\* Fulfilment implements ReservationLedger.
THEOREM FulfilmentImplementsLedger ==
  ASSUME ~Overlap
  PROVE  Spec => ImplementsLedger
<1>1. Init => Ledger!Init
  BY InitLedger
<1>2. Init => CheckedInv
  BY DEF Init, CheckedInv
<1>3. TypeOK /\ CheckedInv /\ [Next]_vars => CheckedInv'
  BY CheckedStep
<1>4. TypeOK /\ CheckedInv /\ [Next]_vars => [Ledger!Next]_Ledger!vars
  BY LedgerStep
<1>5. QED
  BY <1>1, <1>2, <1>3, <1>4, TypeCorrect, PTL DEF Spec, Ledger!Spec, ImplementsLedger

-----------------------------------------------------------------------------
(* What is reserved is what the open orders need *)

Needed(row) == [o \in Order |-> Need[o][row]]
BooksInv == IsFiniteSet(Open) /\ ReservedForOpenOrders

LEMMA BooksStand ==
  ASSUME BooksInv, UNCHANGED <<status, reserved>>
  PROVE  BooksInv'
<1>1. Open' = Open
  BY DEF Open
<1>2. QED  BY <1>1 DEF BooksInv, ReservedForOpenOrders

LEMMA BooksPlace ==
  ASSUME TypeOK, BooksInv, NEW o \in Order, Place(o)
  PROVE  BooksInv'
<1>1. Open' = Open \cup {o} /\ o \notin Open /\ IsFiniteSet(Open')
  <2>1. Open' = Open \cup {o} /\ o \notin Open
    BY DEF Place, Open, Reserving, TypeOK
  <2>2. QED  BY <2>1, FS_AddElement DEF BooksInv
<1>2. ASSUME NEW row \in Row
      PROVE  reserved'[row] = SumFunctionOnSet(Needed(row), Open')
  <2>1. Open \subseteq Order /\ \A q \in Open \cup {o} : Needed(row)[q] \in Nat
    BY DEF Open, Needed
  <2>2. SumFunctionOnSet(Needed(row), Open \cup {o})
          = SumFunctionOnSet(Needed(row), Open) + Needed(row)[o]
    <3>1. IsFiniteSet(Open)
      BY DEF BooksInv
    <3>2. QED  BY <1>1, <2>1, <3>1, SumAdd
  <2>3. reserved[row] = SumFunctionOnSet(Needed(row), Open)
    BY DEF BooksInv, ReservedForOpenOrders, Needed
  <2>4. reserved'[row] = reserved[row] + Need[o][row] /\ Needed(row)[o] = Need[o][row]
    BY DEF Place, Needed
  <2>5. QED  BY <1>1, <2>2, <2>3, <2>4
<1>3. QED  BY <1>1, <1>2 DEF BooksInv, ReservedForOpenOrders, Needed

\* An order that may take the move gives its units back when it leaves the
\* statuses that reserve, and only then.
LEMMA BooksMove ==
  ASSUME TypeOK, BooksInv, NEW o \in Order, NEW to \in Targets, Move(o, to),
         \/ to \in Allowed[status[o]]
         \/ (to = "processing" /\ status[o] = "processing")
  PROVE  BooksInv'
<1>1. /\ status' = [status EXCEPT ![o] = to]
      /\ reserved' = [row \in Row |-> reserved[row] - Cleared(o, to)[row]]
  BY DEF Move
<1>2. Open \subseteq Order /\ IsFiniteSet(Open) /\ reserved \in [Row -> Nat]
  BY DEF Open, BooksInv, TypeOK
<1>3. CASE to \in {"shipped", "cancelled"}
  <2>1. status[o] \in Reserving /\ to \notin Reserving
    BY <1>3 DEF Allowed, Reserving, TypeOK
  <2>2. Open' = Open \ {o} /\ o \in Open
    BY <1>1, <2>1 DEF Open, TypeOK
  <2>3. IsFiniteSet(Open')
    BY <1>2, <2>2, FS_RemoveElement
  <2>4. ASSUME NEW row \in Row
        PROVE  reserved'[row] = SumFunctionOnSet(Needed(row), Open')
    <3>1. \A q \in Open : Needed(row)[q] \in Nat
      BY <1>2 DEF Needed
    <3>2. SumFunctionOnSet(Needed(row), Open)
            = Needed(row)[o] + SumFunctionOnSet(Needed(row), Open \ {o})
      BY <1>2, <2>2, <3>1, SumRemove
    <3>3. SumFunctionOnSet(Needed(row), Open \ {o}) \in Nat
      <4>1. IsFiniteSet(Open \ {o}) /\ \A q \in Open \ {o} : Needed(row)[q] \in Nat
        BY <2>2, <2>3, <3>1
      <4>2. QED  BY <4>1, SumRemove
    <3>4. reserved[row] = SumFunctionOnSet(Needed(row), Open)
      BY DEF BooksInv, ReservedForOpenOrders, Needed
    <3>5. reserved'[row] = reserved[row] - Needed(row)[o] /\ Needed(row)[o] \in Nat
      BY <1>1, <1>3 DEF Cleared, Needed
    <3>6. QED  BY <2>2, <3>2, <3>3, <3>4, <3>5
  <2>5. QED  BY <2>3, <2>4 DEF BooksInv, ReservedForOpenOrders, Needed
<1>4. CASE to \notin {"shipped", "cancelled"}
  <2>1. to \in Reserving <=> status[o] \in Reserving
    BY <1>4 DEF Allowed, Reserving, TypeOK
  <2>2. Open' = Open
    BY <1>1, <2>1 DEF Open, TypeOK
  <2>3. \A row \in Row : reserved'[row] = reserved[row]
    BY <1>1, <1>2, <1>4 DEF Cleared
  <2>4. QED  BY <2>2, <2>3 DEF BooksInv, ReservedForOpenOrders
<1>5. QED  BY <1>3, <1>4

LEMMA BooksStep ==
  ASSUME TypeOK, CheckedInv, BooksInv, [Next]_vars
  PROVE  BooksInv'
<1>1. ASSUME NEW o \in Order, ConfirmPayment(o) PROVE BooksInv'
  <2>1. Move(o, "processing") /\ "processing" \in Targets /\ "processing" \in Allowed[status[o]]
    BY <1>1 DEF ConfirmPayment, Allowed
  <2>2. QED  BY <2>1, BooksMove
<1>2. ASSUME NEW c \in Call, Apply(c) PROVE BooksInv'
  <2>1. PICK o \in Order, to \in Targets : calls[c].order = o /\ calls[c].to = to
    BY <1>2 DEF Apply, TypeOK
  <2>2. Move(o, to)
    BY <1>2, <2>1 DEF Apply
  <2>3. \/ to \in Allowed[status[o]]
        \/ (to = "processing" /\ status[o] = "processing")
    BY <1>2, <2>1 DEF Apply, CheckedInv
  <2>4. QED  BY <2>2, <2>3, BooksMove
<1>3. QED
  BY <1>1, <1>2, BooksPlace, BooksStand DEF Next, Load, Fail, CorrectStock, vars

LEMMA BooksStart == Init => BooksInv
<1> SUFFICES ASSUME Init PROVE BooksInv
  OBVIOUS
<1>1. Open = {} /\ IsFiniteSet({})
  BY FS_EmptySet DEF Init, Open, Reserving
<1>2. \A row \in Row : reserved[row] = SumFunctionOnSet(Needed(row), {})
  BY <1>1, SumZeros DEF Init
<1>3. QED  BY <1>1, <1>2 DEF BooksInv, ReservedForOpenOrders, Needed

\* Requests for one order taking turns, a reservation is cleared once and no
\* order's is spent on another: every unit that a row has reserved is needed
\* there by an open order.
THEOREM ReservationsAreNeeded == ~Overlap => (Spec => []ReservedForOpenOrders)
<1> SUFFICES ASSUME ~Overlap PROVE Spec => []ReservedForOpenOrders
  OBVIOUS
<1>1. Init => CheckedInv /\ BooksInv
  BY BooksStart DEF Init, CheckedInv
<1>2. TypeOK /\ CheckedInv /\ BooksInv /\ [Next]_vars => CheckedInv' /\ BooksInv'
  BY CheckedStep, BooksStep
<1>3. BooksInv => ReservedForOpenOrders
  BY DEF BooksInv
<1>4. QED  BY <1>1, <1>2, <1>3, TypeCorrect, PTL DEF Spec

-----------------------------------------------------------------------------
(* Deliveries and return requests *)

USE DeliveryAssumption DEF AttemptStatus, ReturnStatus, Visit

LEMMA AtMostOne ==
  ASSUME NEW S, \A x, y \in S : x = y
  PROVE  Cardinality(S) <= 1
<1>1. CASE S = {}
  BY <1>1, FS_EmptySet
<1>2. ASSUME NEW x \in S PROVE Cardinality(S) = 1
  <2>1. S = {x}
    BY <1>2
  <2>2. QED  BY <2>1, FS_Singleton
<1>3. QED  BY <1>1, <1>2

-----------------------------------------------------------------------------
(* What a request has read still holds when it acts on it *)

\* An order is the business of one running request at most.
InTurn ==
  /\ \A c, d \in Call :
       calls[c] # Idle /\ visits[d] # Idle => calls[c].order # visits[d].order
  /\ \A c, d \in Call :
       visits[c] # Idle /\ visits[d] # Idle /\ visits[c].order = visits[d].order => c = d

StillHolds(v) ==
  LET o == v.order IN
  /\ v.what = "assign" => Assignable(o)
  /\ v.what = "update" =>
       /\ attempts[v.row].order = o
       /\ v.to \in AttemptAllowed(attempts[v.row].status)
       /\ v.move = OrderMove(status[o], v.to)
  /\ v.what = "ask" => Returnable(o) /\ Pending(o) = {}
  /\ v.what \in {"respond", "mark"} =>
       /\ returns[v.row].order = o /\ returns[v.row].status = "requested"
       /\ v.to # "requested"
  /\ v.what = "respond" => status[o] = "delivered" /\ v.to = "approved" /\ v.move = "returned"
  /\ v.what = "mark" /\ v.to = "approved" => status[o] = "returned"

VisitInv == \A c \in Call : visits[c] # Idle => StillHolds(visits[c])

\* Only a packed order gets an attempt, and one that is on the road has been
\* shipped; an order keeps one open attempt and one request that may bring it back.
OnTheRoad == {"picked_up", "out_for_delivery", "delivered"}
AttemptStands(a) ==
  LET o == attempts[a].order IN
  o # NoRecord =>
    /\ status[o] \notin {"none", "pending", "processing"}
    /\ attempts[a].status \in OnTheRoad => status[o] \notin Reserving
ReturnStands(x) ==
  LET o == returns[x].order IN
  o # NoRecord =>
    /\ status[o] \in {"delivered", "returned", "refunded"}
    /\ returns[x].status = "approved" => status[o] \in {"returned", "refunded"}
Twice(a, b) ==
  /\ attempts[a].order # NoRecord /\ attempts[a].order = attempts[b].order
  /\ Active(attempts[a].status) /\ Active(attempts[b].status)
AskedTwice(x, y) ==
  /\ returns[x].order # NoRecord /\ returns[x].order = returns[y].order
  /\ returns[x].status # "rejected" /\ returns[y].status # "rejected"

AttemptsInv ==
  /\ \A a \in Attempt : AttemptStands(a)
  /\ \A a, b \in Attempt : Twice(a, b) => a = b
ReturnsInv ==
  /\ \A x \in Return : ReturnStands(x)
  /\ \A x, y \in Return : AskedTwice(x, y) => x = y

DeliveryInv == DeliveryTypeOK /\ CheckedInv /\ InTurn /\ VisitInv /\ AttemptsInv /\ ReturnsInv

\* What is read holds when it is read.
LEMMA ReadsHold ==
  ASSUME DeliveryTypeOK, NEW c \in Call,
         \/ \E o \in Order : ReadForAssign(c, o) \/ ReadForReturn(c, o)
         \/ \E a \in Attempt, to \in AttemptStatus : ReadForUpdate(c, a, to)
         \/ \E x \in Return, to \in ReturnStatus : ReadForRespond(c, x, to)
  PROVE  \E visit \in Visit : Read(c, visit) /\ StillHolds(visit)
<1> USE DEF DeliveryTypeOK
<1>1. ASSUME NEW o \in Order, ReadForAssign(c, o)
      PROVE  \E visit \in Visit : Read(c, visit) /\ StillHolds(visit)
  <2>1. PICK a \in Unused(attempts) :
          Read(c, [what |-> "assign", order |-> o, row |-> a, to |-> "assigned",
                   move |-> "none"])
    BY <1>1 DEF ReadForAssign
  <2>2. a \in Attempt /\ Assignable(o)
    BY <1>1, <2>1 DEF Unused, ReadForAssign
  <2>3. QED  BY <2>1, <2>2 DEF StillHolds
<1>2. ASSUME NEW o \in Order, ReadForReturn(c, o)
      PROVE  \E visit \in Visit : Read(c, visit) /\ StillHolds(visit)
  <2>1. PICK x \in Unused(returns) :
          Read(c, [what |-> "ask", order |-> o, row |-> x, to |-> "requested",
                   move |-> "none"])
    BY <1>2 DEF ReadForReturn
  <2>2. x \in Return /\ Returnable(o) /\ Pending(o) = {}
    BY <1>2, <2>1 DEF Unused, ReadForReturn
  <2>3. QED  BY <2>1, <2>2 DEF StillHolds
<1>3. ASSUME NEW a \in Attempt, NEW to \in AttemptStatus, ReadForUpdate(c, a, to)
      PROVE  \E visit \in Visit : Read(c, visit) /\ StillHolds(visit)
  BY <1>3 DEF ReadForUpdate, OrderMove, StillHolds
<1>4. ASSUME NEW x \in Return, NEW to \in ReturnStatus, ReadForRespond(c, x, to)
      PROVE  \E visit \in Visit : Read(c, visit) /\ StillHolds(visit)
  <2>1. returns[x].order \in Order /\ returns[x].status = "requested" /\ to # "requested"
    BY <1>4 DEF ReadForRespond
  <2>2. CASE to = "approved"
    <3>1. status[returns[x].order] = "delivered"
      BY <1>4, <2>1, <2>2 DEF ReadForRespond, MayMove, Allowed, TypeOK
    <3>2. Read(c, [what |-> "respond", order |-> returns[x].order, row |-> x,
                   to |-> "approved", move |-> "returned"])
      BY <1>4, <2>2 DEF ReadForRespond
    <3>3. QED  BY <2>1, <3>1, <3>2 DEF StillHolds
  <2>3. CASE to # "approved"
    <3>1. Read(c, [what |-> "mark", order |-> returns[x].order, row |-> x,
                   to |-> to, move |-> "none"])
      BY <1>4, <2>3 DEF ReadForRespond
    <3>2. QED  BY <2>1, <2>3, <3>1 DEF StillHolds
  <2>4. QED  BY <2>2, <2>3
<1>5. QED  BY <1>1, <1>2, <1>3, <1>4

-----------------------------------------------------------------------------
(* Type correctness *)

LEMMA MoveTypeOK ==
  ASSUME TypeOK, NEW o \in Order, NEW to \in Status, Move(o, to), calls' = calls
  PROVE  TypeOK'
<1>1. /\ status' = [status EXCEPT ![o] = to]
      /\ reserved' \in [Row -> Nat] /\ quantity' \in [Row -> Nat]
  BY MoveKeepsStock
<1>2. QED  BY <1>1 DEF TypeOK

LEMMA DeliveryNextTypeOK == DeliveryTypeOK /\ [DeliveryNext]_deliveryVars => DeliveryTypeOK'
<1> SUFFICES ASSUME DeliveryTypeOK, [DeliveryNext]_deliveryVars PROVE DeliveryTypeOK'
  OBVIOUS
<1> USE DEF DeliveryTypeOK
<1>1. CASE FulfilmentStep
  BY <1>1, NextTypeOK DEF FulfilmentStep
<1>2. ASSUME NEW c \in Call, NEW visit \in Visit, Read(c, visit) PROVE DeliveryTypeOK'
  BY <1>2 DEF Read, vars, TypeOK
<1>3. ASSUME NEW c \in Call, Assign(c) PROVE DeliveryTypeOK'
  <2>1. visits[c] \in Visit /\ TypeOK'
    BY <1>3 DEF Assign, TypeOK, vars
  <2>2. QED  BY <1>3, <2>1 DEF Assign, Done, Unused
<1>4. ASSUME NEW c \in Call, UpdateAttempt(c) PROVE DeliveryTypeOK'
  <2>1. visits[c] \in Visit /\ visits[c].what = "update"
    BY <1>4 DEF UpdateAttempt
  <2>2. TypeOK'
    <3>1. CASE visits[c].move = "none"
      BY <1>4, <3>1 DEF UpdateAttempt, TypeOK
    <3>2. CASE visits[c].move # "none"
      <4>1. Move(visits[c].order, visits[c].move) /\ calls' = calls
        BY <1>4, <3>2 DEF UpdateAttempt
      <4>2. visits[c].order \in Order /\ visits[c].move \in {"shipped", "delivered"}
        BY <2>1, <3>2
      <4>3. QED  BY <4>1, <4>2, MoveTypeOK
    <3>3. QED  BY <3>1, <3>2
  <2>3. attempts' \in [Attempt -> [order : Order \cup {NoRecord}, status : AttemptStatus]]
    <3>1. attempts' = [attempts EXCEPT ![visits[c].row].status = visits[c].to]
      BY <1>4 DEF UpdateAttempt
    <3>2. QED  BY <3>1, <2>1
  <2>4. QED  BY <1>4, <2>1, <2>2, <2>3 DEF UpdateAttempt, Done
<1>5. ASSUME NEW c \in Call, AskReturn(c) PROVE DeliveryTypeOK'
  <2>1. visits[c] \in Visit /\ TypeOK'
    BY <1>5 DEF AskReturn, TypeOK, vars
  <2>2. QED  BY <1>5, <2>1 DEF AskReturn, Done, Unused
<1>6. ASSUME NEW c \in Call, TakeBack(c) PROVE DeliveryTypeOK'
  <2>1. visits[c] \in Visit /\ visits[c].what = "respond"
    BY <1>6 DEF TakeBack
  <2>2. Move(visits[c].order, visits[c].move) /\ calls' = calls
    BY <1>6 DEF TakeBack
  <2>3. TypeOK'
    <3>1. visits[c].order \in Order /\ visits[c].move \in Status
      BY <2>1
    <3>2. QED  BY <2>2, <3>1, MoveTypeOK
  <2>4. [visits[c] EXCEPT !.what = "mark"] \in Visit
    BY <2>1
  <2>5. QED  BY <1>6, <2>3, <2>4 DEF TakeBack
<1>7. ASSUME NEW c \in Call, MarkReturn(c) PROVE DeliveryTypeOK'
  <2>1. visits[c] \in Visit /\ visits[c].what = "mark" /\ TypeOK'
    BY <1>7 DEF MarkReturn, TypeOK, vars
  <2>2. returns' = [returns EXCEPT ![visits[c].row].status = visits[c].to]
    BY <1>7 DEF MarkReturn
  <2>3. returns' \in [Return -> [order : Order \cup {NoRecord}, status : ReturnStatus]]
    BY <2>1, <2>2
  <2>4. QED  BY <1>7, <2>1, <2>3 DEF MarkReturn, Done
<1>8. ASSUME NEW c \in Call, DropVisit(c) PROVE DeliveryTypeOK'
  BY <1>8 DEF DropVisit, Done, TypeOK, vars
<1>9. CASE UNCHANGED deliveryVars
  BY <1>9 DEF deliveryVars, vars, TypeOK
<1>10. QED
  BY <1>1, <1>2, ReadsHold, <1>3, <1>4, <1>5, <1>6, <1>7, <1>8, <1>9
  DEF DeliveryNext

\* Whatever overlaps, a delivery or a return request that is lost, refused or
\* repeated leaves orders, stock rows, attempts and requests in their types.
THEOREM DeliveryTypeCorrect == DeliverySpec => []DeliveryTypeOK
<1>1. DeliveryInit => DeliveryTypeOK
  BY InitTypeOK DEF DeliveryInit, DeliveryTypeOK
<1>2. QED  BY <1>1, DeliveryNextTypeOK, PTL DEF DeliverySpec

-----------------------------------------------------------------------------
(* Requests in turn: what the others do to an order under work *)

LEMMA VisitedOrder ==
  ASSUME DeliveryInv, NEW c \in Call, visits[c] # Idle
  PROVE  /\ visits[c] \in Visit /\ visits[c].order \in Order /\ StillHolds(visits[c])
         /\ status[visits[c].order] \notin {"none", "pending", "processing"}
<1> DEFINE v == visits[c]
           o == v.order
<1>1. v \in Visit /\ o \in Order /\ StillHolds(v)
  BY DEF DeliveryInv, DeliveryTypeOK, VisitInv
<1>2. CASE v.what \in {"assign", "ask"}
  BY <1>1, <1>2 DEF StillHolds, Assignable, Returnable
<1>3. CASE v.what = "update"
  <2>1. v.row \in Attempt /\ attempts[v.row].order = o
    BY <1>1, <1>3 DEF StillHolds
  <2>2. AttemptStands(v.row)
    BY <2>1 DEF DeliveryInv, AttemptsInv
  <2>3. QED  BY <1>1, <2>1, <2>2 DEF AttemptStands
<1>4. CASE v.what \in {"respond", "mark"}
  <2>1. v.row \in Return /\ returns[v.row].order = o
    BY <1>1, <1>4 DEF StillHolds
  <2>2. ReturnStands(v.row)
    BY <2>1 DEF DeliveryInv, ReturnsInv
  <2>3. QED  BY <1>1, <2>1, <2>2 DEF ReturnStands
<1>5. QED  BY <1>1, <1>2, <1>3, <1>4

\* The move a delivery or an approval makes is one the order's status allows.
LEMMA VisitMoves ==
  ASSUME DeliveryInv, NEW c \in Call, UpdateAttempt(c) \/ TakeBack(c)
  PROVE  \/ UNCHANGED <<status, quantity, reserved>>
         \/ /\ Move(visits[c].order, visits[c].move)
            /\ visits[c].move \in Targets
            /\ visits[c].move \in Allowed[status[visits[c].order]]
<1> DEFINE v == visits[c]
           o == v.order
<1>1. v # Idle /\ v \in Visit /\ o \in Order /\ StillHolds(v)
  BY VisitedOrder DEF UpdateAttempt, TakeBack
<1>2. status[o] \in Status
  BY <1>1 DEF DeliveryInv, DeliveryTypeOK, TypeOK
<1>3. CASE UpdateAttempt(c) /\ v.move # "none"
  <2>1. Move(o, v.move) /\ v.move = OrderMove(status[o], v.to)
    BY <1>1, <1>3 DEF UpdateAttempt, StillHolds
  <2>2. QED  BY <1>1, <1>2, <1>3, <2>1 DEF OrderMove, Allowed
<1>4. CASE UpdateAttempt(c) /\ v.move = "none"
  BY <1>4 DEF UpdateAttempt
<1>5. CASE TakeBack(c)
  <2>1. Move(o, v.move) /\ v.move = "returned" /\ status[o] = "delivered"
    BY <1>1, <1>5 DEF TakeBack, StillHolds
  <2>2. QED  BY <1>1, <1>2, <2>1 DEF Allowed
<1>6. QED  BY <1>3, <1>4, <1>5

OneMove(o) ==
  \/ status'[o] = status[o]
  \/ status'[o] \in Allowed[status[o]]
  \/ status[o] = "none" /\ status'[o] = "pending"

\* Every step moves each order as its status allows, or not at all.
LEMMA DeliveryMovesAllowed ==
  ASSUME DeliveryInv, [DeliveryNext]_deliveryVars, NEW o \in Order
  PROVE  OneMove(o)
<1>1. CASE FulfilmentStep
  BY <1>1, MovesAllowed DEF FulfilmentStep, DeliveryInv, DeliveryTypeOK, OneMove
<1>2. ASSUME NEW c \in Call, UpdateAttempt(c) \/ TakeBack(c) PROVE OneMove(o)
  <2>1. visits[c].order \in Order /\ status \in [Order -> Status]
    BY <1>2, VisitedOrder DEF UpdateAttempt, TakeBack, DeliveryInv, DeliveryTypeOK, TypeOK
  <2>2. CASE UNCHANGED <<status, quantity, reserved>>
    BY <2>2 DEF OneMove
  <2>3. CASE /\ Move(visits[c].order, visits[c].move)
             /\ visits[c].move \in Allowed[status[visits[c].order]]
    <3>1. status' = [status EXCEPT ![visits[c].order] = visits[c].move]
      BY <2>3 DEF Move
    <3>2. QED  BY <2>1, <2>3, <3>1 DEF OneMove
  <2>4. QED  BY <1>2, <2>2, <2>3, VisitMoves
<1>3. ASSUME UNCHANGED vars PROVE OneMove(o)
  BY <1>3 DEF vars, OneMove
<1>4. ASSUME NEW c \in Call, NEW visit \in Visit, Read(c, visit) PROVE OneMove(o)
  BY <1>3, <1>4 DEF Read
<1>5. QED
  BY <1>1, <1>2, <1>3, <1>4, ReadsHold
  DEF DeliveryNext, Assign, AskReturn, MarkReturn, DropVisit, deliveryVars, DeliveryInv

\* Nobody moves an order while a request works on it.
LEMMA SeenStays ==
  ASSUME DeliveryInv, [DeliveryNext]_deliveryVars, NEW c \in Call,
         visits[c] # Idle, visits'[c] = visits[c]
  PROVE  status'[visits[c].order] = status[visits[c].order]
<1> DEFINE o == visits[c].order
<1>1. o \in Order /\ status[o] \notin {"none", "pending", "processing"}
  BY VisitedOrder
<1>2. status \in [Order -> Status] /\ InTurn
  BY DEF DeliveryInv, DeliveryTypeOK, TypeOK
<1> SUFFICES status'[o] = status[o]
  OBVIOUS
<1> HIDE DEF o
<1>3. ASSUME NEW p \in Order, NEW to, Move(p, to), p # o PROVE status'[o] = status[o]
  BY <1>1, <1>2, <1>3 DEF Move
<1>4. CASE FulfilmentStep
  <2>1. ASSUME NEW p \in Order, Place(p) PROVE status'[o] = status[o]
    BY <1>1, <1>2, <2>1 DEF Place
  <2>2. ASSUME NEW p \in Order, ConfirmPayment(p) PROVE status'[o] = status[o]
    BY <1>1, <1>3, <2>2 DEF ConfirmPayment
  <2>3. ASSUME NEW d \in Call, Apply(d) PROVE status'[o] = status[o]
    <3>1. calls[d] # Idle /\ calls[d].order \in Order /\ Move(calls[d].order, calls[d].to)
      BY <2>3 DEF Apply, DeliveryInv, DeliveryTypeOK, TypeOK
    <3>2. calls[d].order # o
      BY <1>2, <3>1 DEF InTurn, o
    <3>3. QED  BY <1>3, <3>1, <3>2
  <2>4. \/ status' = status
        \/ \E p \in Order : Place(p) \/ ConfirmPayment(p)
        \/ \E d \in Call : Apply(d)
    BY <1>4 DEF FulfilmentStep, Next, Load, Fail, CorrectStock
  <2>5. QED  BY <2>1, <2>2, <2>3, <2>4
<1>5. ASSUME NEW d \in Call, UpdateAttempt(d) \/ TakeBack(d) PROVE status'[o] = status[o]
  <2>1. visits[d] # Idle /\ visits[d] \in Visit /\ visits[d].order \in Order
    BY <1>5, VisitedOrder DEF UpdateAttempt, TakeBack
  <2>2. d # c
    <3>1. visits'[d] # visits[d]
      BY <1>5, <2>1 DEF UpdateAttempt, TakeBack, Done, DeliveryInv, DeliveryTypeOK
    <3>2. QED  BY <3>1
  <2>3. visits[d].order # o
    BY <1>2, <2>1, <2>2 DEF InTurn, o
  <2>4. QED  BY <1>3, <1>5, <2>1, <2>3, VisitMoves
<1>6. QED
  BY <1>4, <1>5, ReadsHold
  DEF DeliveryNext, Read, Assign, AskReturn, MarkReturn, DropVisit, deliveryVars, vars,
      o, DeliveryInv

LEMMA InTurnStep ==
  ASSUME ~Overlap, DeliveryInv, [DeliveryNext]_deliveryVars
  PROVE  InTurn'
<1> USE DEF InTurn
<1>1. /\ InTurn /\ visits \in [Call -> Visit \cup {Idle}]
      /\ calls \in [Call -> Work \cup {Idle}]
  BY DEF DeliveryInv, DeliveryTypeOK, TypeOK
<1>2. CASE FulfilmentStep
  <2>1. ASSUME NEW c \in Call, NEW o \in Order, NEW to \in Targets, Load(c, o, to)
        PROVE  InTurn'
    <3>1. calls[c] = Idle /\ calls' = [calls EXCEPT ![c] = [order |-> o, to |-> to]]
      BY <2>1 DEF Load
    <3>2. calls'[c] # Idle /\ calls'[c].order = o
      BY <1>1, <3>1
    <3>3. Begin(c, o) /\ visits' = visits
      BY <1>2, <3>1, <3>2 DEF FulfilmentStep
    <3>4. \A d \in Call : visits[d] # Idle => visits[d].order # o
      BY <3>3 DEF Begin, Visited
    <3>5. QED  BY <1>1, <3>1, <3>2, <3>3, <3>4
  <2>2. ASSUME visits' = visits,
               \A c \in Call : calls'[c] # Idle => calls[c] # Idle /\ calls'[c] = calls[c]
        PROVE  InTurn'
    BY <1>1, <2>2
  <2>3. QED
    BY <1>1, <1>2, <2>1, <2>2
    DEF FulfilmentStep, Next, Place, ConfirmPayment, Apply, Fail, CorrectStock
<1>3. ASSUME NEW c \in Call, NEW visit \in Visit, Read(c, visit) PROVE InTurn'
  <2>1. /\ visits' = [visits EXCEPT ![c] = visit] /\ calls' = calls
        /\ \A d \in Call : calls[d] # Idle => calls[d].order # visit.order
        /\ \A d \in Call : visits[d] # Idle => visits[d].order # visit.order
    BY <1>3 DEF Read, Begin, Busy, Visited, vars
  <2>2. QED  BY <1>1, <2>1
<1>4. ASSUME NEW c \in Call, Done(c), calls' = calls PROVE InTurn'
  BY <1>1, <1>4 DEF Done
<1>5. ASSUME NEW c \in Call, TakeBack(c) PROVE InTurn'
  <2>1. /\ calls' = calls /\ visits[c] # Idle
        /\ \A d \in Call : d # c => visits'[d] = visits[d]
    BY <1>1, <1>5 DEF TakeBack
  <2>2. visits'[c].order = visits[c].order
    BY <1>1, <1>5 DEF TakeBack
  <2>3. QED  BY <1>1, <2>1, <2>2
<1>6. CASE UNCHANGED deliveryVars
  BY <1>1, <1>6 DEF deliveryVars, vars
<1>7. QED
  BY <1>2, <1>3, <1>4, <1>5, <1>6, ReadsHold
  DEF DeliveryNext, Assign, UpdateAttempt, AskReturn, MarkReturn, DropVisit, vars,
      DeliveryInv

LEMMA DeliveryCheckedStep ==
  ASSUME ~Overlap, DeliveryInv, [DeliveryNext]_deliveryVars
  PROVE  CheckedInv'
<1>1. TypeOK /\ CheckedInv /\ InTurn
  BY DEF DeliveryInv, DeliveryTypeOK
<1>2. CASE FulfilmentStep
  BY <1>1, <1>2, CheckedStep DEF FulfilmentStep
<1>3. ASSUME NEW c \in Call, UpdateAttempt(c) \/ TakeBack(c) PROVE CheckedInv'
  <2>1. calls' = calls /\ visits[c] # Idle
    BY <1>3 DEF UpdateAttempt, TakeBack
  <2>2. ASSUME NEW d \in Call, calls[d] # Idle
        PROVE  status'[calls[d].order] = status[calls[d].order]
    <3>1. calls[d].order # visits[c].order /\ calls[d].order \in Order
      BY <1>1, <2>1, <2>2 DEF InTurn, TypeOK
    <3>2. QED  BY <1>1, <1>3, <3>1, VisitMoves DEF Move, TypeOK
  <2>3. QED  BY <1>1, <2>1, <2>2 DEF CheckedInv
<1>4. ASSUME UNCHANGED vars PROVE CheckedInv'
  BY <1>1, <1>4 DEF vars, CheckedInv
<1>5. ASSUME NEW c \in Call, NEW visit \in Visit, Read(c, visit) PROVE CheckedInv'
  BY <1>4, <1>5 DEF Read
<1>6. QED
  BY <1>2, <1>3, <1>4, <1>5, ReadsHold
  DEF DeliveryNext, Assign, AskReturn, MarkReturn, DropVisit, deliveryVars, DeliveryInv


-----------------------------------------------------------------------------
(* The attempts and the return requests *)

\* An order that was packed, left, arrived or came back stays so.
LEMMA OnlyForward ==
  ASSUME DeliveryInv, [DeliveryNext]_deliveryVars, NEW o \in Order
  PROVE  /\ status[o] \notin {"none", "pending", "processing"} =>
              status'[o] \notin {"none", "pending", "processing"}
         /\ status[o] \notin {"none", "pending", "processing", "packed"} =>
              status'[o] \notin {"none", "pending", "processing", "packed"}
         /\ status[o] \in {"delivered", "returned", "refunded"} =>
              status'[o] \in {"delivered", "returned", "refunded"}
         /\ status[o] \in {"returned", "refunded"} => status'[o] \in {"returned", "refunded"}
<1>1. OneMove(o)
  BY DeliveryMovesAllowed
<1>2. status[o] \in Status
  BY DEF DeliveryInv, DeliveryTypeOK, TypeOK
<1>3. QED  BY <1>1, <1>2 DEF OneMove, Allowed

LEMMA AttemptsStep ==
  ASSUME DeliveryInv, [DeliveryNext]_deliveryVars
  PROVE  AttemptsInv'
<1>1. /\ attempts \in [Attempt -> [order : Order \cup {NoRecord}, status : AttemptStatus]]
      /\ status \in [Order -> Status]
      /\ \A a \in Attempt : AttemptStands(a)
      /\ \A a, b \in Attempt : Twice(a, b) => a = b
  BY DEF DeliveryInv, DeliveryTypeOK, TypeOK, AttemptsInv
<1>2. ASSUME NEW a \in Attempt, attempts'[a] = attempts[a] PROVE AttemptStands(a)'
  <2>1. CASE attempts[a].order = NoRecord
    BY <1>2, <2>1 DEF AttemptStands
  <2>2. CASE attempts[a].order # NoRecord
    <3>1. attempts[a].order \in Order /\ AttemptStands(a)
      BY <1>1, <2>2
    <3>2. QED  BY <1>2, <2>2, <3>1, OnlyForward DEF AttemptStands, Reserving
  <2>3. QED  BY <2>1, <2>2
<1>3. CASE attempts' = attempts
  BY <1>1, <1>2, <1>3 DEF AttemptsInv, Twice
<1>4. ASSUME NEW c \in Call, Assign(c) PROVE AttemptsInv'
  <2>0. visits[c] # Idle /\ visits[c].what = "assign"
    BY <1>4 DEF Assign
  <2>1. PICK o \in Order, r \in Attempt : o = visits[c].order /\ r = visits[c].row
    BY <2>0, VisitedOrder
  <2>2. /\ r \in Unused(attempts) /\ status' = status
        /\ attempts' = [attempts EXCEPT ![r] = [order |-> o, status |-> "assigned"]]
        /\ Assignable(o)
    BY <1>4, <2>0, <2>1, VisitedOrder DEF Assign, vars, StillHolds
  <2>3. attempts'[r].order = o /\ attempts'[r].status = "assigned" /\ o # NoRecord
    BY <1>1, <2>2
  <2>4. \A a \in Attempt \ {r} : attempts'[a] = attempts[a]
    BY <1>1, <2>2
  <2>5. AttemptStands(r)'
    BY <1>1, <2>2, <2>3 DEF AttemptStands, Assignable, OnTheRoad
  <2>6. \A a \in Attempt : attempts[a].order = o => ~Active(attempts[a].status)
    BY <2>2 DEF Assignable, AttemptsOf
  <2>7. ASSUME NEW a \in Attempt, NEW b \in Attempt, Twice(a, b)' PROVE a = b
    BY <1>1, <2>3, <2>4, <2>6, <2>7 DEF Twice
  <2>8. QED  BY <1>2, <2>4, <2>5, <2>7 DEF AttemptsInv
<1>5. ASSUME NEW c \in Call, UpdateAttempt(c) PROVE AttemptsInv'
  <2>0. visits[c] # Idle /\ visits[c].what = "update"
    BY <1>5 DEF UpdateAttempt
  <2>1. PICK o \in Order, r \in Attempt, to \in AttemptStatus :
          o = visits[c].order /\ r = visits[c].row /\ to = visits[c].to
    BY <2>0, VisitedOrder
  <2>2. /\ attempts' = [attempts EXCEPT ![r].status = to]
        /\ attempts[r].order = o /\ to \in AttemptAllowed(attempts[r].status)
        /\ status[o] \notin {"none", "pending", "processing"}
        /\ OrderMove(status[o], to) # "none" => Move(o, OrderMove(status[o], to))
    BY <1>5, <2>0, <2>1, VisitedOrder DEF UpdateAttempt, StillHolds
  <2>3. attempts'[r].order = o /\ attempts'[r].status = to
    BY <1>1, <2>1, <2>2
  <2>4. \A a \in Attempt \ {r} : attempts'[a] = attempts[a]
    BY <1>1, <2>2
  <2>5. Active(attempts[r].status)
    BY <2>2 DEF AttemptAllowed, Active
  <2>6. AttemptStands(r)'
    <3>1. AttemptStands(r) /\ o # NoRecord
      BY <1>1, <2>2
    <3>2. status'[o] \notin {"none", "pending", "processing"}
      BY <2>2, OnlyForward
    <3>3. CASE attempts[r].status \in OnTheRoad
      BY <2>2, <2>3, <3>1, <3>2, <3>3, OnlyForward DEF AttemptStands, Reserving
    <3>4. CASE to \notin OnTheRoad
      BY <2>3, <3>2, <3>4 DEF AttemptStands
    <3>5. CASE attempts[r].status \notin OnTheRoad /\ to \in OnTheRoad
      <4>1. to = "picked_up"
        BY <1>1, <2>2, <3>5 DEF AttemptAllowed, OnTheRoad
      <4>2. CASE status[o] = "packed"
        <5>1. status' = [status EXCEPT ![o] = "shipped"]
          BY <2>2, <4>1, <4>2 DEF OrderMove, Move
        <5>2. QED  BY <1>1, <2>2, <2>3, <5>1 DEF AttemptStands, Reserving
      <4>3. CASE status[o] # "packed"
        BY <2>2, <2>3, <3>2, <4>3, OnlyForward DEF AttemptStands, Reserving
      <4>4. QED  BY <4>2, <4>3
    <3>6. QED  BY <3>3, <3>4, <3>5
  <2>7. ASSUME NEW a \in Attempt, NEW b \in Attempt, Twice(a, b)' PROVE a = b
    <3>1. Twice(a, b)
      BY <2>2, <2>3, <2>4, <2>5, <2>7 DEF Twice
    <3>2. QED  BY <1>1, <3>1
  <2>8. QED  BY <1>2, <2>4, <2>6, <2>7 DEF AttemptsInv
<1>6. QED
  BY <1>3, <1>4, <1>5, ReadsHold
  DEF DeliveryNext, FulfilmentStep, Read, AskReturn, TakeBack, MarkReturn, DropVisit,
      deliveryVars, DeliveryInv


LEMMA ReturnsStep ==
  ASSUME DeliveryInv, [DeliveryNext]_deliveryVars
  PROVE  ReturnsInv'
<1>1. /\ returns \in [Return -> [order : Order \cup {NoRecord}, status : ReturnStatus]]
      /\ status \in [Order -> Status]
      /\ \A x \in Return : ReturnStands(x)
      /\ \A x, y \in Return : AskedTwice(x, y) => x = y
  BY DEF DeliveryInv, DeliveryTypeOK, TypeOK, ReturnsInv
<1>2. ASSUME NEW x \in Return, returns'[x] = returns[x] PROVE ReturnStands(x)'
  <2>1. CASE returns[x].order = NoRecord
    BY <1>2, <2>1 DEF ReturnStands
  <2>2. CASE returns[x].order # NoRecord
    <3>1. returns[x].order \in Order /\ ReturnStands(x)
      BY <1>1, <2>2
    <3>2. QED  BY <1>2, <2>2, <3>1, OnlyForward DEF ReturnStands
  <2>3. QED  BY <2>1, <2>2
<1>3. CASE returns' = returns
  BY <1>1, <1>2, <1>3 DEF ReturnsInv, AskedTwice
<1>4. ASSUME NEW c \in Call, AskReturn(c) PROVE ReturnsInv'
  <2>0. visits[c] # Idle /\ visits[c].what = "ask"
    BY <1>4 DEF AskReturn
  <2>1. PICK o \in Order, r \in Return : o = visits[c].order /\ r = visits[c].row
    BY <2>0, VisitedOrder
  <2>2. /\ r \in Unused(returns) /\ status' = status
        /\ returns' = [returns EXCEPT ![r] = [order |-> o, status |-> "requested"]]
        /\ status[o] = "delivered" /\ Pending(o) = {}
    BY <1>4, <2>0, <2>1, VisitedOrder DEF AskReturn, vars, StillHolds, Returnable
  <2>3. returns'[r].order = o /\ returns'[r].status = "requested" /\ o # NoRecord
    BY <1>1, <2>2
  <2>4. \A x \in Return \ {r} : returns'[x] = returns[x]
    BY <1>1, <2>2
  <2>5. ReturnStands(r)'
    BY <2>2, <2>3 DEF ReturnStands
  <2>6. ASSUME NEW x \in Return, returns[x].order = o PROVE returns[x].status = "rejected"
    <3>1. returns[x].status # "requested"
      BY <2>2, <2>6 DEF Pending, ReturnsOf
    <3>2. returns[x].status # "approved"
      BY <1>1, <2>2, <2>3, <2>6 DEF ReturnStands
    <3>3. QED  BY <1>1, <3>1, <3>2
  <2>7. ASSUME NEW x \in Return, NEW y \in Return, AskedTwice(x, y)' PROVE x = y
    BY <1>1, <2>3, <2>4, <2>6, <2>7 DEF AskedTwice
  <2>8. QED  BY <1>2, <2>4, <2>5, <2>7 DEF ReturnsInv
<1>5. ASSUME NEW c \in Call, MarkReturn(c) PROVE ReturnsInv'
  <2>0. visits[c] # Idle /\ visits[c].what = "mark"
    BY <1>5 DEF MarkReturn
  <2>1. PICK o \in Order, r \in Return, to \in ReturnStatus :
          o = visits[c].order /\ r = visits[c].row /\ to = visits[c].to
    BY <2>0, VisitedOrder
  <2>2. /\ returns' = [returns EXCEPT ![r].status = to] /\ status' = status
        /\ returns[r].order = o /\ returns[r].status = "requested"
        /\ to = "approved" => status[o] = "returned"
    BY <1>5, <2>0, <2>1, VisitedOrder DEF MarkReturn, vars, StillHolds
  <2>3. returns'[r].order = o /\ returns'[r].status = to
    BY <1>1, <2>1, <2>2
  <2>4. \A x \in Return \ {r} : returns'[x] = returns[x]
    BY <1>1, <2>2
  <2>5. ReturnStands(r)'
    BY <1>1, <2>2, <2>3 DEF ReturnStands
  <2>6. ASSUME NEW x \in Return, NEW y \in Return, AskedTwice(x, y)' PROVE x = y
    <3>1. AskedTwice(x, y)
      BY <2>2, <2>3, <2>4, <2>6 DEF AskedTwice
    <3>2. QED  BY <1>1, <3>1
  <2>7. QED  BY <1>2, <2>4, <2>5, <2>6 DEF ReturnsInv
<1>6. QED
  BY <1>3, <1>4, <1>5, ReadsHold
  DEF DeliveryNext, FulfilmentStep, Read, Assign, UpdateAttempt, TakeBack, DropVisit,
      deliveryVars, DeliveryInv

-----------------------------------------------------------------------------
(* What a request has read *)

\* No other request writes the rows of an order under work.
LEMMA RowsStay ==
  ASSUME DeliveryInv, [DeliveryNext]_deliveryVars, NEW c \in Call, NEW o \in Order,
         visits[c] # Idle, visits'[c] = visits[c], o = visits[c].order
  PROVE  /\ \A a \in Attempt :
              o \in {attempts[a].order, attempts'[a].order} => attempts'[a] = attempts[a]
         /\ \A x \in Return :
              o \in {returns[x].order, returns'[x].order} => returns'[x] = returns[x]
<1>1. /\ attempts \in [Attempt -> [order : Order \cup {NoRecord}, status : AttemptStatus]]
      /\ returns \in [Return -> [order : Order \cup {NoRecord}, status : ReturnStatus]]
      /\ visits \in [Call -> Visit \cup {Idle}] /\ InTurn
  BY DEF DeliveryInv, DeliveryTypeOK
<1>2. ASSUME NEW d \in Call, visits[d] # Idle, visits'[d] # visits[d]
      PROVE  visits[d].order \in Order /\ visits[d].order # o
  BY <1>1, <1>2, VisitedOrder DEF InTurn
<1>3. ASSUME NEW d \in Call, Assign(d) \/ UpdateAttempt(d)
      PROVE  \A a \in Attempt :
               o \in {attempts[a].order, attempts'[a].order} => attempts'[a] = attempts[a]
  <2>1. visits[d] # Idle /\ visits'[d] = Idle
    BY <1>1, <1>3 DEF Assign, UpdateAttempt, Done
  <2>2. PICK p \in Order, r \in Attempt :
          p = visits[d].order /\ r = visits[d].row /\ p # o
    BY <1>2, <1>3, <2>1, VisitedOrder DEF Assign, UpdateAttempt
  <2>3. CASE Assign(d)
    <3>1. /\ r \in Unused(attempts)
          /\ attempts' = [attempts EXCEPT ![r] = [order |-> p, status |-> "assigned"]]
      BY <2>2, <2>3 DEF Assign
    <3>2. QED  BY <1>1, <2>2, <3>1 DEF Unused
  <2>4. CASE UpdateAttempt(d)
    <3>1. /\ attempts' = [attempts EXCEPT ![r].status = visits[d].to]
          /\ attempts[r].order = p
      BY <2>1, <2>2, <2>4, VisitedOrder DEF UpdateAttempt, StillHolds
    <3>2. attempts'[r].order = p
      BY <1>1, <3>1
    <3>3. \A a \in Attempt \ {r} : attempts'[a] = attempts[a]
      BY <1>1, <3>1
    <3>4. QED  BY <2>2, <3>1, <3>2, <3>3
  <2>5. QED  BY <1>3, <2>3, <2>4
<1>4. ASSUME NEW d \in Call, AskReturn(d) \/ MarkReturn(d)
      PROVE  \A x \in Return :
               o \in {returns[x].order, returns'[x].order} => returns'[x] = returns[x]
  <2>1. visits[d] # Idle /\ visits'[d] = Idle
    BY <1>1, <1>4 DEF AskReturn, MarkReturn, Done
  <2>2. PICK p \in Order, r \in Return :
          p = visits[d].order /\ r = visits[d].row /\ p # o
    BY <1>2, <1>4, <2>1, VisitedOrder DEF AskReturn, MarkReturn
  <2>3. CASE AskReturn(d)
    <3>1. /\ r \in Unused(returns)
          /\ returns' = [returns EXCEPT ![r] = [order |-> p, status |-> "requested"]]
      BY <2>2, <2>3 DEF AskReturn
    <3>2. QED  BY <1>1, <2>2, <3>1 DEF Unused
  <2>4. CASE MarkReturn(d)
    <3>1. /\ returns' = [returns EXCEPT ![r].status = visits[d].to]
          /\ returns[r].order = p
      BY <2>1, <2>2, <2>4, VisitedOrder DEF MarkReturn, StillHolds
    <3>2. returns'[r].order = p
      BY <1>1, <3>1
    <3>3. \A x \in Return \ {r} : returns'[x] = returns[x]
      BY <1>1, <3>1
    <3>4. QED  BY <2>2, <3>1, <3>2, <3>3
  <2>5. QED  BY <1>4, <2>3, <2>4
<1>5. /\ attempts' = attempts \/ \E d \in Call : Assign(d) \/ UpdateAttempt(d)
      /\ returns' = returns \/ \E d \in Call : AskReturn(d) \/ MarkReturn(d)
  BY ReadsHold
  DEF DeliveryNext, FulfilmentStep, Read, Assign, UpdateAttempt, AskReturn, TakeBack,
      MarkReturn, DropVisit, deliveryVars, DeliveryInv
<1>6. QED  BY <1>3, <1>4, <1>5


LEMMA HeldStays ==
  ASSUME DeliveryInv, [DeliveryNext]_deliveryVars, NEW c \in Call, NEW v,
         visits[c] # Idle, visits'[c] = visits[c], v = visits[c]
  PROVE  StillHolds(v)'
<1>1. v \in Visit /\ v.order \in Order /\ StillHolds(v) /\ status'[v.order] = status[v.order]
  BY VisitedOrder, SeenStays
<1>2. \A a \in Attempt :
        v.order \in {attempts[a].order, attempts'[a].order} => attempts'[a] = attempts[a]
  BY <1>1, RowsStay
<1>3. \A x \in Return :
        v.order \in {returns[x].order, returns'[x].order} => returns'[x] = returns[x]
  BY <1>1, RowsStay
<1>4. CASE v.what = "assign"
  <2>1. Assignable(v.order)'
    BY <1>1, <1>2, <1>4 DEF StillHolds, Assignable, AttemptsOf
  <2>2. QED  BY <1>4, <2>1 DEF StillHolds
<1>5. CASE v.what = "update"
  BY <1>1, <1>2, <1>5 DEF StillHolds
<1>6. CASE v.what = "ask"
  <2>1. Returnable(v.order)'
    BY <1>1, <1>6 DEF StillHolds, Returnable
  <2>2. ASSUME NEW x \in Return, returns'[x].order = v.order
        PROVE  returns'[x].status # "requested"
    <3>1. returns'[x] = returns[x] /\ Pending(v.order) = {}
      BY <1>1, <1>3, <1>6, <2>2 DEF StillHolds
    <3>2. QED  BY <2>2, <3>1 DEF Pending, ReturnsOf
  <2>3. Pending(v.order)' = {}
    BY <2>2 DEF Pending, ReturnsOf
  <2>4. QED  BY <1>6, <2>1, <2>3 DEF StillHolds
<1>7. CASE v.what \in {"respond", "mark"}
  BY <1>1, <1>3, <1>7 DEF StillHolds
<1>8. QED  BY <1>1, <1>4, <1>5, <1>6, <1>7

LEMMA VisitStep ==
  ASSUME DeliveryInv, [DeliveryNext]_deliveryVars
  PROVE  VisitInv'
<1>1. visits \in [Call -> Visit \cup {Idle}] /\ VisitInv
  BY DEF DeliveryInv, DeliveryTypeOK
<1> SUFFICES ASSUME NEW d \in Call, NEW v, v = visits'[d], v # Idle
             PROVE  StillHolds(v)'
  <2>1. ASSUME \A d \in Call : \A v : v = visits'[d] /\ v # Idle => StillHolds(v)'
        PROVE  VisitInv'
    <3>1. ASSUME NEW d \in Call, visits'[d] # Idle PROVE StillHolds(visits[d])'
      <4>1. PICK v : v = visits'[d]
        OBVIOUS
      <4>2. StillHolds(v)'
        BY <2>1, <3>1, <4>1
      <4>3. QED  BY <4>1, <4>2 DEF StillHolds
    <3>2. QED  BY <3>1 DEF VisitInv
  <2>2. QED  BY <2>1
<1>2. CASE visits'[d] = visits[d]
  BY <1>2, HeldStays
<1>3. ASSUME NEW c \in Call, NEW visit \in Visit, Read(c, visit), StillHolds(visit)
      PROVE  StillHolds(v)'
  <2>1. visits' = [visits EXCEPT ![c] = visit]
        /\ UNCHANGED <<status, attempts, returns>>
    BY <1>3 DEF Read, vars
  <2>2. StillHolds(visit)'
    BY <1>3, <2>1 DEF StillHolds, Assignable, AttemptsOf, Returnable, Pending, ReturnsOf
  <2>3. QED  BY <1>1, <1>2, <2>1, <2>2
<1>4. ASSUME NEW c \in Call, Done(c) PROVE StillHolds(v)'
  BY <1>1, <1>2, <1>4 DEF Done
<1>5. ASSUME NEW c \in Call, TakeBack(c) PROVE StillHolds(v)'
  <2>1. visits[c] # Idle /\ visits[c].what = "respond"
    BY <1>5 DEF TakeBack
  <2>2. /\ visits' = [visits EXCEPT ![c].what = "mark"] /\ returns' = returns
        /\ visits[c] \in Visit /\ StillHolds(visits[c]) /\ status \in [Order -> Status]
        /\ Move(visits[c].order, visits[c].move)
    BY <1>5, <2>1, VisitedOrder DEF TakeBack, DeliveryInv, DeliveryTypeOK, TypeOK
  <2>3. CASE d # c
    BY <1>1, <1>2, <2>2, <2>3
  <2>4. CASE d = c
    <3>1. PICK u \in Visit : u = visits[c]
      BY <2>2
    <3>2. v.what = "mark" /\ v.order = u.order /\ v.row = u.row /\ v.to = u.to
      BY <1>1, <2>2, <2>4, <3>1
    <3>3. /\ returns[u.row].order = u.order /\ returns[u.row].status = "requested"
          /\ u.to # "requested" /\ u.move = "returned"
      BY <2>1, <2>2, <3>1 DEF StillHolds
    <3>4. status'[u.order] = "returned"
      BY <2>2, <3>1, <3>3 DEF Move
    <3>5. QED  BY <2>2, <3>2, <3>3, <3>4 DEF StillHolds
  <2>5. QED  BY <2>3, <2>4
<1>6. CASE visits' = visits
  BY <1>2, <1>6
<1>7. QED
  BY <1>3, <1>4, <1>5, <1>6, ReadsHold
  DEF DeliveryNext, FulfilmentStep, Assign, UpdateAttempt, AskReturn, MarkReturn,
      DropVisit, deliveryVars, DeliveryInv

-----------------------------------------------------------------------------
(* The guarantees *)

LEMMA DeliveryInvariant == ~Overlap => (DeliverySpec => []DeliveryInv)
<1> SUFFICES ASSUME ~Overlap PROVE DeliverySpec => []DeliveryInv
  OBVIOUS
<1>1. DeliveryInit => DeliveryInv
  <2> SUFFICES ASSUME DeliveryInit PROVE DeliveryInv
    OBVIOUS
  <2>1. DeliveryTypeOK
    BY InitTypeOK DEF DeliveryInit, DeliveryTypeOK
  <2>2. CheckedInv /\ InTurn /\ VisitInv
    BY DEF DeliveryInit, Init, CheckedInv, InTurn, VisitInv
  <2>3. AttemptsInv /\ ReturnsInv
    BY DEF DeliveryInit, AttemptsInv, AttemptStands, Twice, ReturnsInv, ReturnStands,
           AskedTwice
  <2>4. QED  BY <2>1, <2>2, <2>3 DEF DeliveryInv
<1>2. DeliveryInv /\ [DeliveryNext]_deliveryVars => DeliveryInv'
  <2> SUFFICES ASSUME DeliveryInv, [DeliveryNext]_deliveryVars PROVE DeliveryInv'
    OBVIOUS
  <2>1. DeliveryTypeOK'
    BY DeliveryNextTypeOK DEF DeliveryInv
  <2>2. QED
    BY <2>1, DeliveryCheckedStep, InTurnStep, VisitStep, AttemptsStep, ReturnsStep
    DEF DeliveryInv
<1>3. QED  BY <1>1, <1>2, PTL DEF DeliverySpec

\* Requests for one order taking turns, an order never has two delivery boys.
THEOREM OneDeliveryBoy == ~Overlap => (DeliverySpec => []OneActiveAttempt)
<1>1. DeliveryInv => OneActiveAttempt
  <2> SUFFICES ASSUME DeliveryInv, NEW o \in Order
               PROVE  Cardinality({a \in AttemptsOf(o) : Active(attempts[a].status)}) <= 1
    BY DEF OneActiveAttempt
  <2>1. \A a, b \in {a \in AttemptsOf(o) : Active(attempts[a].status)} : a = b
    BY DEF DeliveryInv, AttemptsInv, Twice, AttemptsOf
  <2>2. QED  BY <2>1, AtMostOne
<1>2. QED  BY <1>1, DeliveryInvariant, PTL

\* Goods on the road hold no reservation: the attempt was picked up in the same
\* transaction that shipped the order, and nothing takes the order back behind
\* that.
THEOREM PickedUpGoodsLeft == ~Overlap => (DeliverySpec => []GoodsLeftStock)
<1>1. DeliveryInv => GoodsLeftStock
  BY DEF DeliveryInv, AttemptsInv, AttemptStands, OnTheRoad, GoodsLeftStock
<1>2. QED  BY <1>1, DeliveryInvariant, PTL

\* Though an approval moves the order in one transaction and marks the request
\* in another, with a crash possible between them, an approved request is always
\* about an order that came back.
THEOREM ApprovedCameBack == ~Overlap => (DeliverySpec => []ReturnsMatchOrders)
<1>1. DeliveryInv => ReturnsMatchOrders
  BY DEF DeliveryInv, ReturnsInv, ReturnStands, ReturnsMatchOrders
<1>2. QED  BY <1>1, DeliveryInvariant, PTL

\* An order is never taken back on two requests.
THEOREM AskedOnce == ~Overlap => (DeliverySpec => []OneReturn)
<1>1. DeliveryInv => OneReturn
  <2> SUFFICES ASSUME DeliveryInv, NEW o \in Order
               PROVE  Cardinality({x \in ReturnsOf(o) : returns[x].status # "rejected"}) <= 1
    BY DEF OneReturn
  <2>1. \A x, y \in {x \in ReturnsOf(o) : returns[x].status # "rejected"} : x = y
    BY DEF DeliveryInv, ReturnsInv, AskedTwice, ReturnsOf
  <2>2. QED  BY <2>1, AtMostOne
<1>2. QED  BY <1>1, DeliveryInvariant, PTL

\* Deliveries and approved returns move an order only as its status allows.
THEOREM DeliveryStatusMachine == ~Overlap => (DeliverySpec => OnlyAllowedMoves)
<1> SUFFICES ASSUME ~Overlap PROVE DeliverySpec => OnlyAllowedMoves
  OBVIOUS
<1>1. DeliveryInv /\ [DeliveryNext]_deliveryVars =>
        [\A o \in Order :
           \/ status'[o] = status[o]
           \/ status'[o] \in Allowed[status[o]]
           \/ status[o] = "none" /\ status'[o] = "pending"]_vars
  BY DeliveryMovesAllowed DEF OneMove
<1>2. QED  BY <1>1, DeliveryInvariant, PTL DEF DeliverySpec, OnlyAllowedMoves

\* Deliveries and returns included, every order reserves once, ships or releases
\* once and restocks at most once: Delivery implements ReservationLedger.
THEOREM DeliveryImplementsLedger == ~Overlap => (DeliverySpec => ImplementsLedger)
<1> SUFFICES ASSUME ~Overlap PROVE DeliverySpec => ImplementsLedger
  OBVIOUS
<1>1. DeliveryInit => Ledger!Init
  BY InitLedger DEF DeliveryInit
<1>2. DeliveryInv /\ [DeliveryNext]_deliveryVars => [Ledger!Next]_Ledger!vars
  <2> SUFFICES ASSUME DeliveryInv, [DeliveryNext]_deliveryVars
               PROVE  [Ledger!Next]_Ledger!vars
    OBVIOUS
  <2>1. CASE FulfilmentStep
    BY <2>1, LedgerStep DEF FulfilmentStep, DeliveryInv, DeliveryTypeOK
  <2>2. ASSUME UNCHANGED <<status, quantity, reserved>> PROVE UNCHANGED Ledger!vars
    BY <2>2 DEF Ledger!vars
  <2>3. ASSUME NEW c \in Call, UpdateAttempt(c) \/ TakeBack(c)
        PROVE  [Ledger!Next]_Ledger!vars
    <3>1. visits[c].order \in Order /\ TypeOK
      BY <2>3, VisitedOrder DEF UpdateAttempt, TakeBack, DeliveryInv, DeliveryTypeOK
    <3>2. UNCHANGED <<status, quantity, reserved>> \/ LedgerMoves(visits[c].order) \/ Stutter
      BY <2>3, <3>1, VisitMoves, LedgerMove
    <3>3. QED
      BY <2>2, <3>1, <3>2 DEF Stutter, Held, Phases, LedgerMoves, Ledger!Next, Ledger!vars
  <2>4. QED
    BY <2>1, <2>2, <2>3, ReadsHold
    DEF DeliveryNext, Read, Assign, AskReturn, MarkReturn, DropVisit, vars, deliveryVars,
        DeliveryInv
<1>3. QED
  BY <1>1, <1>2, DeliveryInvariant, PTL DEF DeliverySpec, Ledger!Spec, ImplementsLedger

\* Deliveries that ship an order clear its reservation as well, returns clear
\* none: with them too, what is reserved is what open orders need.
THEOREM DeliveryReservationsAreNeeded == ~Overlap => (DeliverySpec => []ReservedForOpenOrders)
<1> SUFFICES ASSUME ~Overlap PROVE DeliverySpec => []ReservedForOpenOrders
  OBVIOUS
<1>1. DeliveryInit => BooksInv
  BY BooksStart DEF DeliveryInit
<1>2. DeliveryInv /\ BooksInv /\ [DeliveryNext]_deliveryVars => BooksInv'
  <2> SUFFICES ASSUME DeliveryInv, BooksInv, [DeliveryNext]_deliveryVars PROVE BooksInv'
    OBVIOUS
  <2>1. TypeOK /\ CheckedInv
    BY DEF DeliveryInv, DeliveryTypeOK
  <2>2. CASE FulfilmentStep
    BY <2>1, <2>2, BooksStep DEF FulfilmentStep
  <2>3. ASSUME NEW c \in Call, UpdateAttempt(c) \/ TakeBack(c) PROVE BooksInv'
    <3>1. PICK o \in Order : visits[c].order = o
      BY <2>3, VisitedOrder DEF UpdateAttempt, TakeBack, DeliveryInv, DeliveryTypeOK
    <3>2. \/ UNCHANGED <<status, quantity, reserved>>
          \/ \E to \in Targets : to \in Allowed[status[o]] /\ Move(o, to)
      BY <2>3, <3>1, VisitMoves
    <3>3. QED  BY <2>1, <3>2, BooksMove, BooksStand
  <2>4. QED
    BY <2>2, <2>3, BooksStand, ReadsHold
    DEF DeliveryNext, Read, Assign, AskReturn, MarkReturn, DropVisit, vars, deliveryVars,
        DeliveryInv
<1>3. BooksInv => ReservedForOpenOrders
  BY DEF BooksInv
<1>4. QED  BY <1>1, <1>2, <1>3, DeliveryInvariant, PTL DEF DeliverySpec

\* Whatever overlaps, deliveries and approvals included, no row that nobody
\* corrects by hand promises more than it holds.
THEOREM DeliveryNeverOversold == DeliverySpec => []NoOversell
<1>1. DeliveryInit => NoOversell
  BY DEF DeliveryInit, Init, NoOversell
<1>2. DeliveryTypeOK /\ NoOversell /\ [DeliveryNext]_deliveryVars => NoOversell'
  <2> SUFFICES ASSUME DeliveryTypeOK, NoOversell, [DeliveryNext]_deliveryVars
               PROVE  NoOversell'
    OBVIOUS
  <2>1. CASE FulfilmentStep
    BY <2>1, NoOversellStep DEF FulfilmentStep, DeliveryTypeOK
  <2>2. ASSUME UNCHANGED <<quantity, reserved>> PROVE NoOversell'
    BY <2>2 DEF NoOversell
  <2>3. ASSUME NEW c \in Call, visits[c] # Idle,
               visits[c].move # "none", Move(visits[c].order, visits[c].move)
        PROVE  NoOversell'
    <3>1. visits[c].order \in Order /\ visits[c].move \in Status /\ TypeOK
      BY <2>3 DEF DeliveryTypeOK
    <3>2. QED  BY <2>3, <3>1, MoveKeepsStock DEF NoOversell
  <2>4. ASSUME NEW c \in Call, UpdateAttempt(c) \/ TakeBack(c) PROVE NoOversell'
    <3>1. CASE visits[c].move = "none"
      <4>1. CASE UpdateAttempt(c)
        BY <2>2, <3>1, <4>1 DEF UpdateAttempt
      <4>2. CASE TakeBack(c)
        <5>1. visits[c].order \in Order /\ TypeOK /\ Move(visits[c].order, "none")
          BY <3>1, <4>2 DEF TakeBack, DeliveryTypeOK
        <5>2. QED  BY <5>1, MoveKeepsStock DEF NoOversell
      <4>3. QED  BY <2>4, <4>1, <4>2
    <3>2. CASE visits[c].move # "none"
      BY <2>3, <2>4, <3>2 DEF UpdateAttempt, TakeBack
    <3>3. QED  BY <3>1, <3>2
  <2>5. QED
    BY <2>1, <2>2, <2>4, ReadsHold
    DEF DeliveryNext, Read, Assign, AskReturn, MarkReturn, DropVisit, vars, deliveryVars
<1>3. QED  BY <1>1, <1>2, DeliveryTypeCorrect, PTL DEF DeliverySpec

=============================================================================
