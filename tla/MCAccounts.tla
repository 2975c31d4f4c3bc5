----------------------------- MODULE MCAccounts -----------------------------
(***************************************************************************)
(* One account with two requests at a time; a user's two addresses, each   *)
(* perhaps the default for shipping and for billing; a user's two payment  *)
(* methods; and the sessions of two members in two browsers.               *)
(***************************************************************************)
EXTENDS Profile, TLC

CONSTANTS ann, mia, bob, b1, b2, c1, c2

Shipping == 1
Billing == 2
MCItem == 1..2
MCFlag == {Shipping, Billing}

Symmetry == UNION {Permutations(P) : P \in {{c1, c2}, {b1, b2}, {mia, bob}}}

=============================================================================
