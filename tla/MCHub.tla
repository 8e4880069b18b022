-------------------------------- MODULE MCHub --------------------------------
(* Finite instances of Hub for TLC. *)
EXTENDS Hub, TLC

CONSTANTS a, b, c1, c2, c3, alice, w1, w2

LastElsewhere == [c \in Clients |-> IF c = c3 THEN b ELSE a]
Alice == [c \in Clients |-> alice]
Alike == Permutations({w1, w2}) \cup Permutations({c1, c2})

\* One client, of a room that changes and is reset; the other room is still.
Alone ==
  /\ conn = [c \in Clients |-> IF c = c1 THEN "away" ELSE "gone"]
  /\ Current(a) = Snap(1, 0)
  /\ \A r \in Rooms \ {a} : Current(r) = Snap(MaxEpoch, MaxVersion)

\* Two clients, of one room or of two, while nothing changes in the rooms.
Crowd ==
  /\ Cardinality({c \in Clients : conn[c] = "away"}) = 2
  /\ \A r \in Rooms : Current(r) = Snap(MaxEpoch, MaxVersion)

InitAloneOrCrowded == Init /\ (Alone \/ Crowd)
InitAlone == Init /\ Alone

AloneOrCrowded == InitAloneOrCrowded /\ [][Next]_vars
AloneFairly == InitAlone /\ [][Next]_vars /\ Fairness
=============================================================================
