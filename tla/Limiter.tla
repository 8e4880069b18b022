------------------------------- MODULE Limiter -------------------------------
(***************************************************************************)
(* The rate limit in front of every API route: which address a request is  *)
(* charged to, and the table of token buckets, which holds a limited       *)
(* number of addresses and forgets those that have been idle.  Time runs   *)
(* in minutes, and tokens are whole.                                       *)
(***************************************************************************)
EXTENDS Integers, FiniteSets, Sequences, SequencesExt

CONSTANTS
  Addresses,        \* of clients and proxies
  Trusted,          \* Config.TrustedProxies
  Garbage,          \* a forwarded hop that is no address; a missing header is one of these
  MaxForwarded,     \* hops of X-Forwarded-For that are looked at (32)
  Rate, Burst,      \* tokens a minute, and at most
  Table,            \* buckets (4096)
  IdleTime,         \* minutes after which a bucket may be forgotten (2)
  SweepGap,         \* minutes between two sweeps (1)
  MaxMinutes        \* bound: time

\* A bucket is full again before it may be forgotten.
ASSUME LimiterAssumption ==
  /\ Rate \in Nat /\ Burst \in Nat \ {0} /\ IdleTime \in Nat
  /\ Rate * IdleTime >= Burst
  /\ Trusted \subseteq Addresses /\ Garbage \notin Addresses

VARIABLES
  buckets,          \* address -> [tokens, at]
  nextSweep, minute,
  admitted          \* address -> requests let through

limiterVars == <<buckets, nextSweep, minute, admitted>>

Chains == BoundedSeq(Addresses \cup {Garbage}, MaxForwarded + 1)

\* Mutation: the hop that is furthest away is believed.
ClientAddressFirst(peer, forwarded) ==
  IF peer \notin Trusted \/ Len(forwarded) \notin 1..MaxForwarded \/ forwarded[1] = Garbage
  THEN peer ELSE forwarded[1]

\* From the connection towards the client up to the first hop that is not a
\* trusted proxy; the peer itself when that is no address or there are too many.
ClientAddress(peer, forwarded) ==
  LET chain == forwarded \o <<peer>>
      untrusted == {i \in DOMAIN chain : chain[i] \notin Trusted}
      last == CHOOSE i \in untrusted : \A j \in untrusted : j <= i
  IN IF peer \notin Trusted \/ Len(forwarded) > MaxForwarded  THEN peer
     ELSE IF untrusted = {}                                   THEN chain[1]
     ELSE IF chain[last] = Garbage                            THEN peer
     ELSE chain[last]

LimiterAtStart == buckets = << >> /\ minute = 0
Listed(a) == a \in DOMAIN buckets
Full(table) == Cardinality(table) >= Table
Sweeps(a) == ~Listed(a) /\ Full(DOMAIN buckets) /\ minute >= nextSweep

\* Mutation: a bucket is forgotten as soon as it is idle.
KeptBusy(a) ==
  IF Sweeps(a) THEN {b \in DOMAIN buckets : buckets[b].at = minute} ELSE DOMAIN buckets

Kept(a) ==
  IF Sweeps(a) THEN {b \in DOMAIN buckets : minute - buckets[b].at <= IdleTime} ELSE DOMAIN buckets

Lower(x, y) == IF x < y THEN x ELSE y

\* What a bucket holds by now; one that is not in the table is full.
Level(a) ==
  IF Listed(a) THEN Lower(Burst, buckets[a].tokens + (minute - buckets[a].at) * Rate) ELSE Burst

LimiterInit ==
  /\ buckets = << >> /\ nextSweep = 0 /\ minute = 0
  /\ admitted = [a \in Addresses |-> 0]

SweptFor(a) == nextSweep' = IF Sweeps(a) THEN minute + SweepGap ELSE nextSweep

\* allow, for an address that still has no place after the sweep.
NoPlace(a) ==
  /\ ~Listed(a) /\ Full(Kept(a))
  /\ buckets' = [b \in Kept(a) |-> buckets[b]]
  /\ SweptFor(a)
  /\ UNCHANGED <<minute, admitted>>

\* allow, for an address with a bucket: it is brought up to date whether or not it has a token.
Charge(a) ==
  /\ Listed(a) \/ ~Full(Kept(a))
  /\ LET allowed == Level(a) >= 1 IN
     /\ buckets' = [b \in Kept(a) \cup {a} |->
                     IF b = a THEN [tokens |-> Level(a) - (IF allowed THEN 1 ELSE 0), at |-> minute]
                     ELSE buckets[b]]
     /\ admitted' = IF allowed THEN [admitted EXCEPT ![a] = @ + 1] ELSE admitted
  /\ SweptFor(a)
  /\ UNCHANGED minute

Arrive(a) == NoPlace(a) \/ Charge(a)

MinutePasses ==
  /\ minute < MaxMinutes
  /\ minute' = minute + 1
  /\ UNCHANGED <<buckets, nextSweep, admitted>>

Charged == {ClientAddress(peer, forwarded) : peer \in Addresses, forwarded \in Chains}

LimiterNext ==
  \/ \E a \in Charged : Arrive(a)
  \/ MinutePasses

LimiterSpec == LimiterInit /\ [][LimiterNext]_limiterVars
-----------------------------------------------------------------------------
(***************************************************************************)
(* Forgetting is never noticed: with a table that holds a few addresses    *)
(* and is swept, no address is let through more often than the bucket of   *)
(* its own, kept for ever, would allow.                                    *)
(***************************************************************************)
Promise == INSTANCE TokenBucket WITH tokens <- [a \in Addresses |-> Level(a)]
KeepsRate == Promise!Spec

(***************************************************************************)
(* A client behind trusted proxies is charged to the address its proxies   *)
(* saw, whatever the request itself says about earlier hops; how many hops *)
(* it claims decides only whether all are counted on the nearest proxy.  A *)
(* fact about ClientAddress alone, looked at once.                         *)
(***************************************************************************)
ClaimsDoNotCount ==
  \A peer \in Trusted, claims \in Chains, client \in Addresses \ Trusted :
    \A proxies \in BoundedSeq(Trusted, 1) :
      LET forwarded == claims \o <<client>> \o proxies IN
      ClientAddress(peer, forwarded) = IF Len(forwarded) > MaxForwarded THEN peer ELSE client
ClaimsIgnored == LimiterAtStart => ClaimsDoNotCount
=============================================================================
