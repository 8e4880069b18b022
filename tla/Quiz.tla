-------------------------------- MODULE Quiz --------------------------------
(***************************************************************************)
(* What a live quiz promises its players, with nothing said about how the  *)
(* promise is kept: a round has seats for so many players and no more, the *)
(* first answer a player gives to a question is the only one that counts,  *)
(* a wrong answer is worth 0 and a right one 100, or 50 when it was late,  *)
(* and the board shows exactly what was awarded.  A new round starts from  *)
(* nothing.                                                                *)
(***************************************************************************)
EXTENDS Integers, FiniteSets

CONSTANTS
  Participants,     \* identities that may play
  Questions,        \* the questions of the published definition
  Options,          \* the options of a question
  CorrectOption     \* the right option of each question

VARIABLES
  round,            \* 0 before the quiz is opened, then the number of the round
  seats,            \* how many players the round admits
  players,          \* who plays this round
  awards,           \* the first answer of a player to a question, and its points
  board             \* what each player has on the leaderboard

quizVars == <<round, seats, players, awards, board>>

\* What an answer may be worth.
Worth(q, o) == IF o = CorrectOption[q] THEN {50, 100} ELSE {0}

Init ==
  /\ round = 0
  /\ seats = 0
  /\ players = {}
  /\ awards = << >>
  /\ board = << >>

Open ==
  /\ round' \in Nat /\ round' > round
  /\ seats' \in 1..200
  /\ players' = {}
  /\ awards' = << >>
  /\ board' = << >>

Enter(p) ==
  /\ round > 0
  /\ p \notin players
  /\ Cardinality(players) < seats
  /\ players' = players \cup {p}
  /\ board' = [x \in DOMAIN board \cup {p} |-> IF x = p THEN 0 ELSE board[x]]
  /\ UNCHANGED <<round, seats, awards>>

Award(p, q, o) ==
  /\ p \in players
  /\ <<p, q>> \notin DOMAIN awards
  /\ \E points \in Worth(q, o) :
       /\ awards' = [k \in DOMAIN awards \cup {<<p, q>>} |->
                       IF k = <<p, q>> THEN [option |-> o, points |-> points]
                                       ELSE awards[k]]
       /\ board' = [board EXCEPT ![p] = @ + points]
  /\ UNCHANGED <<round, seats, players>>

Next ==
  \/ Open
  \/ \E p \in Participants : Enter(p)
  \/ \E p \in Participants, q \in Questions, o \in Options : Award(p, q, o)

Spec == Init /\ [][Next]_quizVars
=============================================================================
