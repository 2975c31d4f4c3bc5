---------------------------- MODULE MCFulfilment ----------------------------
(***************************************************************************)
(* Instances of Fulfilment for TLC: two orders compete for the same stock  *)
(* row, one of them also takes units at a second warehouse; a third order  *)
(* is digital and holds no stock.  Two requests run at a time.             *)
(***************************************************************************)
EXTENDS Fulfilment, TLC

MCOrder == {"pair", "bulk", "ebook"}
MCRow == {"shirt@1", "cup@1"}
MCNeed ==
  "pair"  :> ("shirt@1" :> 1 @@ "cup@1" :> 1) @@
  "bulk"  :> ("shirt@1" :> 2 @@ "cup@1" :> 0) @@
  "ebook" :> ("shirt@1" :> 0 @@ "cup@1" :> 0)

\* Enough shirts for both orders and none to spare.
MCStock == "shirt@1" :> 3 @@ "cup@1" :> 1

=============================================================================
