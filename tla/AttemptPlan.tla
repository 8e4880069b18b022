----------------------------- MODULE AttemptPlan -----------------------------
(***************************************************************************)
(* The pure algorithms a quiz room rests on: how a plan is shuffled from   *)
(* random draws, which plans are accepted, and how a board is ranked, each *)
(* beside the definition it has to agree with.  Positions count from 1.    *)
(***************************************************************************)
EXTENDS Integers, Sequences, FiniteSets

\* The draws of one shuffle of n items: d[i] is what random(i) returned, plus
\* one, when position i was settled; the last positions come first.
Draws(n) == {d \in [2..n -> 1..n] : \A i \in 2..n : d[i] <= i}

Swapped(s, i, j) == [s EXCEPT ![i] = s[j], ![j] = s[i]]

\* Mutation: every position is exchanged with one drawn among those below it,
\* never with itself, so that some orders never come up.
ShuffledAway(ids, draws) ==
  LET after[i \in 1..Len(ids)] ==
        IF i = Len(ids) THEN ids
        ELSE Swapped(after[i + 1], i + 1, IF draws[i + 1] = i + 1 THEN i ELSE draws[i + 1])
  IN  after[1]

\* after[i]: the items once all positions above i are settled.
Shuffled(ids, draws) ==
  LET after[i \in 1..Len(ids)] ==
        IF i = Len(ids) THEN ids
        ELSE Swapped(after[i + 1], i + 1, draws[i + 1])
  IN  after[1]

\* What Validate and validatePlan accept: each item is taken from those left.
OrderAccepted(order, items) ==
  /\ Len(order) = Cardinality(items)
  /\ \A i \in 1..Len(order) : order[i] \in items \ {order[j] : j \in 1..(i - 1)}

\* The ranks of a board in descending order of its scores; ties share a rank.
Ranks(scores) ==
  LET rank[i \in 1..Len(scores)] ==
        IF i = 1 THEN 1 ELSE IF scores[i] # scores[i - 1] THEN i ELSE rank[i - 1]
  IN  [i \in 1..Len(scores) |-> rank[i]]
-----------------------------------------------------------------------------
Largest == 4  \* bound: the items shuffled and the rows ranked, as many as a question has options

Permutation(s, n) == s \in [1..n -> 1..n] /\ \A i, j \in 1..n : s[i] = s[j] => i = j

\* Every accepted order comes from exactly one sequence of draws, and no
\* sequence of draws gives an order that is not accepted.
ShuffleIsFair ==
  \A n \in 1..Largest :
    /\ \A s \in [1..n -> 1..n] : OrderAccepted(s, 1..n) <=> Permutation(s, n)
    /\ \A s \in [1..n -> 1..n] :
         Cardinality({d \in Draws(n) : Shuffled([i \in 1..n |-> i], d) = s})
           = IF Permutation(s, n) THEN 1 ELSE 0

\* A row's rank is one more than the number of better rows.
RanksAreExact ==
  \A n \in 1..Largest : \A scores \in [1..n -> {0, 50, 100}] :
    (\A i \in 2..n : scores[i] <= scores[i - 1]) =>
      \A i \in 1..n :
        Ranks(scores)[i] = 1 + Cardinality({j \in 1..n : scores[j] > scores[i]})
=============================================================================
