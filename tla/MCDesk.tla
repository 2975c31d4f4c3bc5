------------------------------- MODULE MCDesk -------------------------------
(***************************************************************************)
(* Two requests at a time on small sets of what the parts of Desk work on, *)
(* and one question to the assistant.                                      *)
(***************************************************************************)
EXTENDS Desk, TLC

CONSTANTS c1, c2, u1, u2, u3, p1, p2, q, i1, i2, f1, f2, s1, s2, w, a, v, k1, k2, k3

MCBrandOf == (p1 :> "A") @@ (p2 :> "A") @@ (q :> "B")

Symmetry ==
  UNION {Permutations(S) : S \in {{c1, c2}, {p1, p2}, {i1, i2}, {f1, f2}}}

=============================================================================
