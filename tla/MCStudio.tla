------------------------------- MODULE MCStudio -------------------------------
(* Finite instances of Studio for TLC. *)
EXTENDS Studio, TLC

CONSTANTS p, o, old, i1, a, b, h1, h2

Interchangeable ==
  Permutations({a, b})
    \cup Permutations({h1, h2})
=============================================================================
