------------------------------- MODULE MCReview -------------------------------
(* Finite instances of Review for TLC. *)
EXTENDS Review, TLC

CONSTANTS h1, h2

Interchangeable == Permutations(Handlers)

\* A document that expired is created again under its key only in the first epoch
\* and is followed for two versions, while handlers hold copies of such an
\* earlier one: enough for a stale write to meet a version it knows. The
\* whole life of one document, and the reset, are explored without it.
Shallow ==
  births' = 2 =>
    /\ epoch' = 1
    /\ docs'[1] # Absent => docs'[1].version <= 2
    /\ \A h \in Handlers :
         handler'[h] # Idle /\ handler'[h].before # Absent => handler'[h].before.version <= 2

ReviewSpec == Init /\ [][Next /\ Shallow]_vars
=============================================================================
