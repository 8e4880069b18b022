------------------------------- MODULE MCRoom -------------------------------
(* Finite instances of Room for TLC. *)
EXTENDS Room, TLC

CONSTANTS p1, p2, q1, q2, right, wrong, s1, s2, c1, c2

TwoPlayers == {p1, p2}
TwoQuestions == {q1, q2}
InOrder == <<q1, q2>>
RightWrong == {right, wrong}
AnswerKey == [q \in Questions |-> right]
TwoSubmissions == {s1, s2}
TwoCallers == {c1, c2}
OneOrTwo == {1, 2}

\* Only compared for equality: every question has the same right option, and
\* the order of the manifest does not show once it has been shuffled.
Interchangeable ==
  Permutations(Submissions) \cup Permutations(Callers)
    \cup Permutations(Participants) \cup Permutations(Questions)

(***************************************************************************)
(* Two scenarios in one run.  With one seat two joins race for it, the     *)
(* room is reset and time passes; with two seats both players play, one    *)
(* join at a time, in one round, until one is through and the other half   *)
(* way.  In a room for two that the preceding program has opened or played *)
(* in, time stands still.                                                  *)
(***************************************************************************)
Race == capacity <= 1
Duel ==
  /\ epoch = 1 /\ now <= 2 /\ Cardinality(DOMAIN answers) <= 3
  /\ Cardinality({c \in Callers : draft[c] # NoOne}) <= 1
  /\ (content = "legacy" \/ \E k \in DOMAIN answers : answers[k].at = 0) => now = 1
Within == Race \/ Duel

RaceOrDuel == Init /\ [][Next /\ Within']_vars
=============================================================================
