------------------------- MODULE ReservationLedger -------------------------
(***************************************************************************)
(* The promise the stock rows make to the rest of the shop, stripped of    *)
(* carts, locks, warehouses and order statuses.                            *)
(*                                                                         *)
(* A holder (a placed order, or all the orders of one checkout) reserves   *)
(* units of the stock rows once, all rows at the same instant.  Its units  *)
(* are later either given back (the order is cancelled) or taken out of    *)
(* the warehouse (the order is shipped), once, again in one instant; units *)
(* that were taken out may come back once (the order is returned).         *)
(*                                                                         *)
(* Staff may correct the quantities of some rows by hand, for better or     *)
(* worse: for those rows the ledger promises nothing about overselling.    *)
(*                                                                         *)
(* Checkout and Fulfilment are shown to implement this specification.      *)
(***************************************************************************)
EXTENDS Naturals

CONSTANTS
  Row,      \* the stock rows: one per (product, warehouse)
  Holder,   \* who may reserve units
  Corrected \* the rows whose quantity staff correct by hand

VARIABLES
  quantity,   \* quantity[row]: units physically in the warehouse
  reserved,   \* reserved[row]: those of them promised to a holder
  held,       \* held[h][row]: units holder h has reserved at row
  phase       \* phase[h]: how far h is with its units

vars == <<quantity, reserved, held, phase>>

Phase == {"new", "open", "released", "shipped", "restocked"}
Nothing == [row \in Row |-> 0]

TypeOK ==
  /\ quantity \in [Row -> Nat]
  /\ reserved \in [Row -> Nat]
  /\ held \in [Holder -> [Row -> Nat]]
  /\ phase \in [Holder -> Phase]

Init ==
  /\ quantity \in [Row -> Nat]
  /\ reserved = Nothing
  /\ held = [h \in Holder |-> Nothing]
  /\ phase = [h \in Holder |-> "new"]

-----------------------------------------------------------------------------

Enough(need) == \A row \in Row : reserved[row] + need[row] <= quantity[row]

\* What the holder needs is whatever it holds afterwards.
Reserve(h) ==
  LET need == held'[h] IN
  /\ phase[h] = "new"
  /\ need \in [Row -> Nat]
  /\ Enough(need)
  /\ reserved' = [row \in Row |-> reserved[row] + need[row]]
  /\ held' = [held EXCEPT ![h] = need]
  /\ phase' = [phase EXCEPT ![h] = "open"]
  /\ UNCHANGED quantity

Release(h) ==
  /\ phase[h] = "open"
  /\ \A row \in Row : held[h][row] <= reserved[row]
  /\ reserved' = [row \in Row |-> reserved[row] - held[h][row]]
  /\ phase' = [phase EXCEPT ![h] = "released"]
  /\ UNCHANGED <<quantity, held>>

Ship(h) ==
  /\ phase[h] = "open"
  /\ \A row \in Row : held[h][row] <= reserved[row]
  /\ quantity' = [row \in Row |-> quantity[row] - held[h][row]]
  /\ reserved' = [row \in Row |-> reserved[row] - held[h][row]]
  /\ phase' = [phase EXCEPT ![h] = "shipped"]
  /\ UNCHANGED held

Restock(h) ==
  /\ phase[h] = "shipped"
  /\ quantity' = [row \in Row |-> quantity[row] + held[h][row]]
  /\ phase' = [phase EXCEPT ![h] = "restocked"]
  /\ UNCHANGED <<reserved, held>>

Correct(row) ==
  /\ quantity'[row] \in Nat
  /\ quantity' = [quantity EXCEPT ![row] = quantity'[row]]
  /\ UNCHANGED <<reserved, held, phase>>

Next ==
  \/ \E h \in Holder : Reserve(h) \/ Release(h) \/ Ship(h) \/ Restock(h)
  \/ \E row \in Corrected : Correct(row)

Spec == Init /\ [][Next]_vars

-----------------------------------------------------------------------------

\* No row promises more units than it has, unless staff corrected it: there
\* Stock.available_quantity (inventory/models.py) is never negative.
NoOversell == \A row \in Row \ Corrected : reserved[row] <= quantity[row]

=============================================================================
