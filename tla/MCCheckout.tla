----------------------------- MODULE MCCheckout -----------------------------
(***************************************************************************)
(* Instances of Checkout for TLC.  Alice may submit twice (a1, a2), Bob    *)
(* once (b1).  Two stores: one sells a shirt in two variants, kept in two  *)
(* warehouses, the other a cup and a digital book.                         *)
(***************************************************************************)
EXTENDS Checkout, TLC

MCRequest == {"a1", "a2", "b1"}
MCCustomer == {"alice", "bob"}
MCSku == {"shirtS", "shirtL", "cup", "book"}
MCProduct == {"shirt", "cup", "book"}
MCRow == {"shirt@1", "shirt@2", "cup@1"}
MCCustomerOf == [r \in Request |-> IF r = "b1" THEN "bob" ELSE "alice"]
MCProductOf ==
  [s \in Sku |-> IF s \in {"shirtS", "shirtL"} THEN "shirt" ELSE s]
MCStoreOf == [p \in Product |-> IF p = "shirt" THEN "tailor" ELSE "gifts"]
MCRowProduct == [row \in Row |-> IF row = "cup@1" THEN "cup" ELSE "shirt"]
MCDigital == {"book"}

\* Enough shirts for one cart at the first warehouse, one more at the second.
MCQuantity == [row \in Row |-> IF row = "shirt@2" THEN 1 ELSE 2]
MCPrice == [s \in Sku |-> IF s = "book" THEN 1 ELSE 3]

Lines(f) == f @@ Empty
Two == "shirtS" :> 1 @@ "shirtL" :> 1
Mixed == "shirtS" :> 1 @@ "cup" :> 1
Bulk == "shirtL" :> 2 @@ "book" :> 1
CartsOf(alice, bob) == "alice" :> Lines(alice) @@ "bob" :> Lines(bob)

\* Bob's cart competes with Alice's for the same rows.
MCCarts ==
  {CartsOf(Mixed, Mixed), CartsOf(Two, Bulk)}

=============================================================================
