---------------------------- MODULE TokenBucket ----------------------------
(***************************************************************************)
(* What the API promises about its rate limit: every address has a bucket  *)
(* of its own, full at first, that gains Rate tokens a minute up to Burst, *)
(* and every admitted request takes one.  Nothing is ever forgotten.       *)
(***************************************************************************)
EXTENDS Integers

CONSTANTS Addresses, Rate, Burst

VARIABLES tokens, admitted

Least(a, b) == IF a < b THEN a ELSE b

Init ==
  /\ tokens = [a \in Addresses |-> Burst]
  /\ admitted = [a \in Addresses |-> 0]

Admit(a) ==
  /\ tokens[a] >= 1
  /\ tokens' = [tokens EXCEPT ![a] = @ - 1]
  /\ admitted' = [admitted EXCEPT ![a] = @ + 1]

Minute ==
  /\ tokens' = [a \in Addresses |-> Least(Burst, tokens[a] + Rate)]
  /\ UNCHANGED admitted

Next == Minute \/ \E a \in Addresses : Admit(a)

Spec == Init /\ [][Next]_<<tokens, admitted>>
=============================================================================
