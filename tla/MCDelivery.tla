----------------------------- MODULE MCDelivery -----------------------------
(***************************************************************************)
(* An instance of Delivery for TLC: two orders that share a stock row, one *)
(* of them with units at a second; two attempts and two return requests.   *)
(***************************************************************************)
EXTENDS Delivery, TLC

MCOrder == {"pair", "single"}
MCRow == {"shirt@1", "cup@1"}
MCNeed ==
  "pair"   :> ("shirt@1" :> 1 @@ "cup@1" :> 1) @@
  "single" :> ("shirt@1" :> 1 @@ "cup@1" :> 0)

\* Enough for both orders and none to spare.
MCStock == "shirt@1" :> 2 @@ "cup@1" :> 1
Interchangeable == Permutations(Attempt) \cup Permutations(Return) \cup Permutations(Call)

=============================================================================
