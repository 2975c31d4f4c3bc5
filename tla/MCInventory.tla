---------------------------- MODULE MCInventory -----------------------------
(***************************************************************************)
(* An instance of Inventory for TLC: two warehouses, the main one also     *)
(* edited by its sellers, and two transfers that may go opposite ways.     *)
(***************************************************************************)
EXTENDS Inventory, TLC

MCRow == {"main", "north"}
MCStock == "main" :> 1 @@ "north" :> 1
Interchangeable == Permutations(Transfer) \cup Permutations(Call)

=============================================================================
