-------------------------- MODULE MCPortfolioEntry --------------------------
(* Instances of PortfolioEntry for TLC: n1 and n2 are signals of A, n3 and *)
(* n4 of B and C; a1 and b1 adoptions of A and B.                         *)
EXTENDS PortfolioEntry, TLC

CONSTANTS n1, n2, n3, n4, a1, b1, A, B, C

OneEach == (n1 :> A) @@ (n3 :> B) @@ (a1 :> A)

TwoOfA == (n1 :> A) @@ (n2 :> A) @@ (n3 :> B) @@ (a1 :> A) @@ (b1 :> B)

Three == (n1 :> A) @@ (n2 :> A) @@ (n3 :> B) @@ (n4 :> C)

(* The workers are alike, the two signals of A are, and B with its signal  *)
(* is like C with its own; the properties of a run with this symmetry are  *)
(* invariants.                                                             *)
Alike ==
  Permutations(Workers) \cup Permutations({n1, n2})
    \cup {(n3 :> n4) @@ (n4 :> n3) @@ (B :> C) @@ (C :> B)}
=============================================================================
