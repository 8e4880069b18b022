------------------------------ MODULE MCGateway ------------------------------
(* Finite instances of Gateway for TLC. *)
EXTENDS Gateway, TLC

CONSTANTS c1, c2, c3, k1, k2, k3, alice, bob

TextKeys == [k \in Keys |-> "text"]
AliceOrBob == [c \in Callers |-> IF c = c3 THEN bob ELSE alice]
Interchangeable == Permutations({c1, c2}) \cup Permutations({k1, k2})

\* The third key is asked for only while the others have the two flights allowed:
\* it is there to meet the limit.
OneTooMany ==
  \A f \in DOMAIN flight' \ Started :
    IF f = 3 THEN flight'[f].key = k3 /\ {k1, k2} \subseteq Active ELSE flight'[f].key # k3

GatewaySpec == Init /\ [][Next /\ OneTooMany]_vars
=============================================================================
