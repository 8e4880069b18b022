---------------------------- MODULE LimiterProofs ----------------------------
(***************************************************************************)
(* The limiter implements a token bucket per address, for every number of  *)
(* addresses, size of the table, rate and burst, and whatever proxies are  *)
(* trusted.  The argument rests on one fact about time: a bucket idle for  *)
(* long enough to be forgotten is full again.                              *)
(***************************************************************************)
EXTENDS Limiter, WellFoundedInduction, TLAPS

\* Every bucket belongs to an address and was last brought up to date in the past.
LimiterType ==
  /\ minute \in Nat
  /\ DOMAIN buckets \subseteq Addresses
  /\ \A a \in DOMAIN buckets :
       buckets[a].tokens \in 0..Burst /\ buckets[a].at \in Nat /\ buckets[a].at <= minute

LEMMA ConstantsType ==
  Rate \in Nat /\ Burst \in Nat \ {0} /\ IdleTime \in Nat /\ Trusted \subseteq Addresses
  BY LimiterAssumption

-----------------------------------------------------------------------------
(* Only addresses are charged. *)

\* A non-empty set of natural numbers below a bound has a greatest element.
LEMMA LeastUnder ==
  ASSUME NEW R, IsWellFoundedOn(R, Nat),
         \A x, y \in Nat : y < x => <<y, x>> \in R,
         NEW T, T \subseteq Nat, T # {}
  PROVE  \E x \in T : \A y \in T : x <= y
<1>1. PICK x \in T : \A y \in T : ~ (<<y, x>> \in R)
  BY WFMin, Zenon
<1>2. ASSUME NEW y \in T PROVE x <= y
  <2>1. x \in Nat /\ y \in Nat
    OBVIOUS
  <2>2. ~ (<<y, x>> \in R)
    BY <1>1, Zenon
  <2>3. ~ (y < x)
    BY <2>1, <2>2, Zenon
  <2>4. QED
    BY <2>1, <2>3
<1>3. QED
  BY <1>2

LEMMA GreatestBelow ==
  ASSUME NEW n \in Nat, NEW T, T \subseteq 1..n, T # {}
  PROVE  \E i \in T : \A j \in T : j <= i
<1> DEFINE far == {n - i : i \in T}
<1>1. far \subseteq Nat /\ far # {}
  OBVIOUS
<1>2. \A i, j \in Nat : i < j => <<i, j>> \in OpToRel(<, Nat)
  BY DEF OpToRel
<1>3. PICK d \in far : \A e \in far : d <= e
  <2> HIDE DEF far
  <2>1. QED
    BY <1>1, <1>2, LeastUnder, NatLessThanWellFounded, Zenon
<1>4. PICK i \in T : d = n - i
  OBVIOUS
<1>5. ASSUME NEW j \in T PROVE j <= i
  <2>1. n - i <= n - j
    BY <1>3, <1>4
  <2>2. QED
    BY <2>1
<1>6. QED
  BY <1>5

LEMMA ChargedAreAddresses ==
  ASSUME NEW peer \in Addresses, NEW forwarded \in Chains
  PROVE  ClientAddress(peer, forwarded) \in Addresses
<1> DEFINE chain == forwarded \o <<peer>>
           untrusted == {i \in DOMAIN chain : chain[i] \notin Trusted}
           last == CHOOSE i \in untrusted : \A j \in untrusted : j <= i
<1>1. PICK m \in Nat : forwarded \in [1..m -> Addresses \cup {Garbage}]
  <2>1. PICK m \in 0..(MaxForwarded + 1) : forwarded \in [1..m -> Addresses \cup {Garbage}]
    BY DEF Chains, BoundedSeq, SeqOf
  <2>2. QED
    BY <2>1
<1>2. forwarded \in Seq(Addresses \cup {Garbage}) /\ <<peer>> \in Seq(Addresses \cup {Garbage})
  BY <1>1
<1>3. chain \in Seq(Addresses \cup {Garbage}) /\ Len(chain) \in Nat \ {0} /\ DOMAIN chain = 1..Len(chain)
  BY <1>2
<1>4. CASE untrusted = {}
  <2>1. chain[1] \in Trusted
    BY <1>3, <1>4
  <2>2. QED
    BY <1>4, <2>1, ConstantsType DEF ClientAddress
<1>5. CASE untrusted # {}
  <2>1. \E i \in untrusted : \A j \in untrusted : j <= i
    <3>1. untrusted \subseteq 1..Len(chain)
      BY <1>3
    <3> HIDE DEF untrusted
    <3>2. QED
      BY <1>3, <1>5, <3>1, GreatestBelow
  <2>2. last \in untrusted
    BY <2>1, Zenon
  <2>3. last \in 1..Len(chain)
    BY <1>3, <2>2
  <2>4. chain[last] \in Addresses \cup {Garbage}
    <3> HIDE DEF last, chain
    <3>1. QED
      BY <1>3, <2>3
  <2>5. \/ ClientAddress(peer, forwarded) = peer
        \/ chain[last] # Garbage /\ ClientAddress(peer, forwarded) = chain[last]
    BY <1>5 DEF ClientAddress
  <2>6. QED
    BY <2>4, <2>5
<1>6. QED
  BY <1>4, <1>5
-----------------------------------------------------------------------------
(* Levels *)

\* Waiting longer fills a bucket further.
LEMMA Fills ==
  ASSUME NEW i \in Nat, NEW j \in Nat, i <= j
  PROVE  i * Rate \in Nat /\ j * Rate \in Nat /\ i * Rate <= j * Rate /\ (j + 1) * Rate = j * Rate + Rate
<1>1. Rate \in Nat
  BY ConstantsType
<1>2. PICK k \in Nat : j = i + k
  <2>1. j - i \in Nat /\ j = i + (j - i)
    OBVIOUS
  <2>2. QED
    BY <2>1
<1>3. j * Rate = i * Rate + k * Rate /\ k * Rate \in Nat /\ i * Rate \in Nat
  BY <1>1, <1>2
<1>4. QED
  BY <1>1, <1>3

LEMMA LevelType ==
  ASSUME LimiterType, NEW a
  PROVE  Level(a) \in 0..Burst
<1>1. CASE Listed(a)
  <2>1. buckets[a].tokens \in 0..Burst /\ minute - buckets[a].at \in Nat
    BY <1>1 DEF Listed, LimiterType
  <2>2. (minute - buckets[a].at) * Rate \in Nat
    BY <2>1, Fills
  <2>3. QED
    BY <1>1, <2>1, <2>2, ConstantsType DEF Level, Lower
<1>2. CASE ~Listed(a)
  BY <1>2, ConstantsType DEF Level
<1>3. QED
  BY <1>1, <1>2

\* Why forgetting is never noticed.
LEMMA ForgottenAreFull ==
  ASSUME LimiterType, NEW a, NEW b \in DOMAIN buckets \ Kept(a)
  PROVE  Level(b) = Burst
<1>1. /\ buckets[b].tokens \in 0..Burst /\ minute - buckets[b].at \in Nat
      /\ IdleTime <= minute - buckets[b].at
  BY ConstantsType DEF Kept, LimiterType
<1>2. Burst <= (minute - buckets[b].at) * Rate /\ (minute - buckets[b].at) * Rate \in Nat
  <2>1. IdleTime * Rate <= (minute - buckets[b].at) * Rate
    BY <1>1, Fills, ConstantsType
  <2>2. IdleTime * Rate = Rate * IdleTime /\ Burst <= Rate * IdleTime
    BY LimiterAssumption
  <2>3. QED
    BY <1>1, <2>1, <2>2, Fills, ConstantsType
<1>3. QED
  BY <1>1, <1>2, ConstantsType DEF Level, Listed, Lower
-----------------------------------------------------------------------------
(* Steps *)

LEMMA InitKeepsPromise == LimiterInit => LimiterType /\ Promise!Init
<1> SUFFICES ASSUME LimiterInit PROVE LimiterType /\ Promise!Init
  OBVIOUS
<1>1. DOMAIN buckets = {} /\ minute = 0 /\ admitted = [a \in Addresses |-> 0]
  BY DEF LimiterInit
<1>2. LimiterType
  BY <1>1 DEF LimiterType
<1>3. \A a \in Addresses : Level(a) = Burst
  BY <1>1 DEF Level, Listed
<1>4. QED
  BY <1>1, <1>2, <1>3 DEF Promise!Init

\* What is kept of the table is what it was.
LEMMA KeptType ==
  ASSUME LimiterType, NEW a
  PROVE  Kept(a) \subseteq DOMAIN buckets
  BY DEF Kept

LEMMA NoPlaceKeepsPromise ==
  ASSUME LimiterType, NEW a \in Addresses, NoPlace(a)
  PROVE  LimiterType' /\ \A b \in Addresses : Level(b)' = Level(b)
<1>1. /\ DOMAIN buckets' = Kept(a) /\ Kept(a) \subseteq DOMAIN buckets
      /\ \A b \in Kept(a) : buckets'[b] = buckets[b]
      /\ minute' = minute
  BY KeptType DEF NoPlace
<1>2. LimiterType'
  BY <1>1 DEF LimiterType
<1>3. ASSUME NEW b \in Addresses PROVE Level(b)' = Level(b)
  <2>1. CASE b \in Kept(a)
    BY <1>1, <2>1 DEF Level, Listed
  <2>2. CASE b \in DOMAIN buckets \ Kept(a)
    BY <1>1, <2>2, ForgottenAreFull DEF Level, Listed
  <2>3. CASE b \notin DOMAIN buckets
    BY <1>1, <2>3 DEF Level, Listed
  <2>4. QED
    BY <2>1, <2>2, <2>3
<1>4. QED
  BY <1>2, <1>3

LEMMA ChargeKeepsPromise ==
  ASSUME LimiterType, NEW a \in Addresses, Charge(a)
  PROVE  /\ LimiterType'
         /\ \A b \in Addresses \ {a} : Level(b)' = Level(b)
         /\ IF Level(a) >= 1
            THEN Level(a)' = Level(a) - 1 /\ admitted' = [admitted EXCEPT ![a] = @ + 1]
            ELSE Level(a)' = Level(a) /\ admitted' = admitted
<1> DEFINE left == Level(a) - (IF Level(a) >= 1 THEN 1 ELSE 0)
<1>1. Level(a) \in 0..Burst /\ left \in 0..Burst
  BY LevelType, ConstantsType
<1>2. /\ DOMAIN buckets' = Kept(a) \cup {a} /\ Kept(a) \subseteq DOMAIN buckets
      /\ \A b \in Kept(a) \ {a} : buckets'[b] = buckets[b]
      /\ buckets'[a] = [tokens |-> left, at |-> minute]
      /\ minute' = minute
      /\ admitted' = IF Level(a) >= 1 THEN [admitted EXCEPT ![a] = @ + 1] ELSE admitted
  BY KeptType DEF Charge
<1>3. LimiterType'
  BY <1>1, <1>2 DEF LimiterType
<1>4. ASSUME NEW b \in Addresses \ {a} PROVE Level(b)' = Level(b)
  <2>1. CASE b \in Kept(a)
    BY <1>2, <2>1 DEF Level, Listed
  <2>2. CASE b \in DOMAIN buckets \ Kept(a)
    BY <1>2, <2>2, ForgottenAreFull DEF Level, Listed
  <2>3. CASE b \notin DOMAIN buckets
    BY <1>2, <2>3 DEF Level, Listed
  <2>4. QED
    BY <2>1, <2>2, <2>3
<1>5. Level(a)' = left
  <2>1. Level(a)' = Lower(Burst, left + (minute - minute) * Rate)
    BY <1>2 DEF Level, Listed, Lower
  <2>2. minute - minute = 0 /\ 0 * Rate = 0
    BY ConstantsType DEF LimiterType
  <2>3. QED
    BY <1>1, <2>1, <2>2, ConstantsType DEF Lower
<1>6. QED
  BY <1>1, <1>2, <1>3, <1>4, <1>5

LEMMA MinuteKeepsPromise ==
  ASSUME LimiterType, MinutePasses
  PROVE  LimiterType' /\ \A b \in Addresses : Level(b)' = Lower(Burst, Level(b) + Rate)
<1>1. minute' = minute + 1 /\ buckets' = buckets /\ minute \in Nat
  BY DEF MinutePasses, LimiterType
<1>2. LimiterType'
  BY <1>1 DEF LimiterType
<1>3. ASSUME NEW b \in Addresses PROVE Level(b)' = Lower(Burst, Level(b) + Rate)
  <2>1. CASE Listed(b)
    <3> DEFINE idle == minute - buckets[b].at
    <3>1. idle \in Nat /\ buckets[b].tokens \in 0..Burst /\ minute' - buckets'[b].at = idle + 1
      BY <1>1, <2>1 DEF Listed, LimiterType
    <3>2. (idle + 1) * Rate = idle * Rate + Rate /\ idle * Rate \in Nat
      BY <3>1, Fills
    <3>3. Level(b)' = Lower(Burst, buckets[b].tokens + (idle + 1) * Rate)
      BY <1>1, <2>1, <3>1 DEF Level, Listed, Lower
    <3>4. Level(b) = Lower(Burst, buckets[b].tokens + idle * Rate)
      BY <2>1 DEF Level
    <3> HIDE DEF idle
    <3>5. QED
      BY <3>1, <3>2, <3>3, <3>4, ConstantsType DEF Lower
  <2>2. CASE ~Listed(b)
    BY <1>1, <2>2, ConstantsType DEF Level, Listed, Lower
  <2>3. QED
    BY <2>1, <2>2
<1>4. QED
  BY <1>2, <1>3

LEMMA StepKeepsPromise ==
  LimiterType /\ [LimiterNext]_limiterVars =>
    /\ LimiterType'
    /\ [Promise!Next]_<<[a \in Addresses |-> Level(a)], admitted>>
<1> DEFINE tokens == [a \in Addresses |-> Level(a)]
<1> SUFFICES ASSUME LimiterType, [LimiterNext]_limiterVars
             PROVE  LimiterType' /\ [Promise!Next]_<<tokens, admitted>>
  OBVIOUS
<1>1. CASE UNCHANGED limiterVars
  <2>1. UNCHANGED <<buckets, minute, admitted>>
    BY <1>1 DEF limiterVars
  <2>2. LimiterType'
    BY <2>1 DEF LimiterType
  <2>3. \A b : Level(b)' = Level(b)
    BY <2>1 DEF Level, Listed
  <2>4. QED
    BY <2>1, <2>2, <2>3
<1>2. CASE MinutePasses
  <2>1. tokens' = [a \in Addresses |-> Promise!Least(Burst, tokens[a] + Rate)]
    BY <1>2, MinuteKeepsPromise DEF Lower, Promise!Least
  <2>2. Promise!Minute
    BY <1>2, <2>1 DEF MinutePasses, Promise!Minute
  <2>3. QED
    BY <1>2, <2>2, MinuteKeepsPromise DEF Promise!Next
<1>3. ASSUME NEW a \in Charged, Arrive(a)
      PROVE  LimiterType' /\ [Promise!Next]_<<tokens, admitted>>
  <2>1. a \in Addresses
    BY ChargedAreAddresses DEF Charged
  <2>2. CASE NoPlace(a)
    BY <2>1, <2>2, NoPlaceKeepsPromise DEF NoPlace
  <2>3. CASE Charge(a) /\ Level(a) >= 1
    <3>1. tokens' = [tokens EXCEPT ![a] = @ - 1] /\ tokens[a] >= 1
      BY <2>1, <2>3, ChargeKeepsPromise
    <3>2. Promise!Admit(a)
      BY <2>1, <2>3, <3>1, ChargeKeepsPromise DEF Promise!Admit
    <3>3. QED
      BY <2>1, <2>3, <3>2, ChargeKeepsPromise DEF Promise!Next
  <2>4. CASE Charge(a) /\ ~(Level(a) >= 1)
    BY <2>1, <2>4, ChargeKeepsPromise
  <2>5. QED
    BY <1>3, <2>2, <2>3, <2>4 DEF Arrive
<1>4. QED
  BY <1>1, <1>2, <1>3 DEF LimiterNext

(***************************************************************************)
(* No address is let through more often than a bucket of its own, never    *)
(* forgotten, would allow, however small the table and however often it is *)
(* swept.                                                                  *)
(***************************************************************************)
THEOREM BoundedTableKeepsRate == LimiterSpec => KeepsRate
<1>1. LimiterInit => LimiterType /\ Promise!Init
  BY InitKeepsPromise
<1>2. LimiterType /\ [LimiterNext]_limiterVars =>
        LimiterType' /\ [Promise!Next]_<<[a \in Addresses |-> Level(a)], admitted>>
  BY StepKeepsPromise
<1>3. QED
  BY <1>1, <1>2, PTL DEF LimiterSpec, KeepsRate, Promise!Spec
-----------------------------------------------------------------------------
(* What a request claims. *)

LEMMA Joined ==
  ASSUME NEW S, NEW s \in Seq(S), NEW t \in Seq(S), NEW u, u = s \o t
  PROVE  /\ u \in Seq(S) /\ Len(u) = Len(s) + Len(t) /\ DOMAIN u = 1..Len(u)
         /\ Len(s) \in Nat /\ Len(t) \in Nat /\ Len(u) \in Nat
         /\ \A i \in 1..Len(s) : u[i] = s[i]
         /\ \A i \in 1..Len(t) : u[Len(s) + i] = t[i]
  OBVIOUS

\* The client is the last hop that is no trusted proxy.
LEMMA ClientIsLast ==
  ASSUME NEW S, NEW claims \in Seq(S), NEW client \in S, client \notin Trusted,
         NEW proxies \in Seq(S), \A i \in 1..Len(proxies) : proxies[i] \in Trusted,
         NEW peer \in S, peer \in Trusted,
         NEW chain, chain = (claims \o <<client>> \o proxies) \o <<peer>>,
         NEW k, k = Len(claims) + 1
  PROVE  /\ chain \in Seq(S) /\ k \in DOMAIN chain /\ chain[k] = client
         /\ \A i \in DOMAIN chain : i > k => chain[i] \in Trusted
<1>1. PICK a : a = claims \o <<client>>
  OBVIOUS
<1>2. a \in Seq(S) /\ Len(a) = k /\ a[k] = client /\ k \in Nat \ {0}
  BY <1>1
<1>3. PICK b : b = a \o proxies
  OBVIOUS
<1>4. /\ b \in Seq(S) /\ Len(b) = k + Len(proxies) /\ Len(proxies) \in Nat /\ Len(b) \in Nat
      /\ \A i \in 1..k : b[i] = a[i]
      /\ \A i \in 1..Len(proxies) : b[k + i] = proxies[i]
  <2>1. a \in Seq(S) /\ proxies \in Seq(S)
    BY <1>2
  <2>2. /\ b \in Seq(S) /\ Len(b) = Len(a) + Len(proxies) /\ Len(proxies) \in Nat /\ Len(b) \in Nat
        /\ \A i \in 1..Len(a) : b[i] = a[i]
        /\ \A i \in 1..Len(proxies) : b[Len(a) + i] = proxies[i]
    BY <1>3, <2>1, Joined
  <2>3. QED
    BY <1>2, <2>2
<1>5. /\ chain \in Seq(S) /\ Len(chain) = Len(b) + 1 /\ DOMAIN chain = 1..Len(chain)
      /\ \A i \in 1..Len(b) : chain[i] = b[i]
      /\ chain[Len(b) + 1] = peer
  <2>1. <<peer>> \in Seq(S) /\ Len(<<peer>>) = 1 /\ <<peer>>[1] = peer
    OBVIOUS
  <2>2. PICK p : p = <<peer>>
    OBVIOUS
  <2>3. p \in Seq(S) /\ Len(p) = 1 /\ p[1] = peer /\ chain = b \o p
    BY <1>1, <1>3, <2>1, <2>2
  <2>4. /\ chain \in Seq(S) /\ Len(chain) = Len(b) + Len(p) /\ DOMAIN chain = 1..Len(chain)
        /\ \A i \in 1..Len(b) : chain[i] = b[i]
        /\ \A i \in 1..Len(p) : chain[Len(b) + i] = p[i]
    BY <1>4, <2>3, Joined
  <2>5. 1 \in 1..Len(p)
    BY <2>3
  <2>6. QED
    BY <2>3, <2>4, <2>5
<1>6. k \in 1..Len(b) /\ k \in 1..k
  BY <1>2, <1>4
<1>7. chain[k] = client /\ k \in DOMAIN chain
  BY <1>2, <1>4, <1>5, <1>6
<1>8. ASSUME NEW i \in DOMAIN chain, i > k PROVE chain[i] \in Trusted
  <2>1. i \in 1..(Len(b) + 1)
    BY <1>5
  <2>2. (i - k \in 1..Len(proxies) /\ i = k + (i - k)) \/ i = Len(b) + 1
    <3>1. \A n \in Nat : \A j \in 1..(k + n + 1) :
            j > k => (j - k \in 1..n /\ j = k + (j - k)) \/ j = k + n + 1
      BY <1>2
    <3>2. i \in 1..(k + Len(proxies) + 1)
      BY <1>4, <2>1
    <3>3. QED
      BY <1>4, <1>8, <3>1, <3>2
  <2>3. ASSUME NEW n \in 1..Len(proxies), i = k + n PROVE chain[i] \in Trusted
    <3>1. b[i] = proxies[n] /\ i \in 1..Len(b)
      BY <1>2, <1>4, <2>3
    <3>2. QED
      BY <1>5, <3>1
  <2>4. QED
    BY <1>5, <2>2, <2>3
<1>9. QED
  BY <1>5, <1>7, <1>8

(***************************************************************************)
(* A client behind any number of trusted proxies is charged to the address *)
(* they saw, whatever X-Forwarded-For claims about hops before the client, *)
(* and to the nearest proxy if there are more hops than are looked at.     *)
(***************************************************************************)
THEOREM NoClaimCounts ==
  ASSUME NEW peer \in Trusted, NEW claims \in Seq(Addresses \cup {Garbage}),
         NEW client \in Addresses \ Trusted, NEW proxies \in Seq(Trusted)
  PROVE  LET forwarded == claims \o <<client>> \o proxies IN
         ClientAddress(peer, forwarded) = IF Len(forwarded) > MaxForwarded THEN peer ELSE client
<1> DEFINE forwarded == claims \o <<client>> \o proxies
           chain == forwarded \o <<peer>>
           untrusted == {i \in DOMAIN chain : chain[i] \notin Trusted}
           last == CHOOSE i \in untrusted : \A j \in untrusted : j <= i
           k == Len(claims) + 1
<1>1. /\ Trusted \subseteq Addresses /\ proxies \in Seq(Addresses \cup {Garbage})
      /\ \A i \in 1..Len(proxies) : proxies[i] \in Trusted
  BY ConstantsType
<1>2. /\ chain \in Seq(Addresses \cup {Garbage}) /\ k \in DOMAIN chain /\ chain[k] = client
      /\ \A i \in DOMAIN chain : i > k => chain[i] \in Trusted
  BY <1>1, ClientIsLast
<1>3. k \in Nat /\ DOMAIN chain \subseteq Nat
  BY <1>2
<1>4. k \in untrusted /\ \A j \in untrusted : j <= k
  <2> HIDE DEF chain, k
  <2>1. QED
    BY <1>2, <1>3
<1>5. untrusted \subseteq Nat
  BY <1>3
<1>6. last = k
  <2> HIDE DEF untrusted, k
  <2>1. last \in untrusted /\ \A j \in untrusted : j <= last
    BY <1>4, Zenon
  <2> HIDE DEF last
  <2>2. last <= k /\ k <= last /\ last \in Nat
    BY <1>4, <1>5, <2>1
  <2>3. QED
    BY <1>3, <2>2
<1>7. ClientAddress(peer, forwarded) =
        (IF peer \notin Trusted \/ Len(forwarded) > MaxForwarded THEN peer
         ELSE IF untrusted = {} THEN chain[1]
         ELSE IF chain[last] = Garbage THEN peer
         ELSE chain[last])
  BY DEF ClientAddress
<1>8. client # Garbage
  BY LimiterAssumption
<1> HIDE DEF forwarded, chain, untrusted, last, k
<1>9. QED
  BY <1>2, <1>4, <1>6, <1>7, <1>8 DEF forwarded

LEMMA ClaimsOfChains == ClaimsDoNotCount
<1>1. ASSUME NEW S, NEW n, NEW s \in BoundedSeq(S, n) PROVE s \in Seq(S)
  <2>1. PICK m \in 0..n : s \in [1..m -> S]
    BY <1>1 DEF BoundedSeq, SeqOf
  <2>2. m \in Nat
    BY <2>1
  <2>3. QED
    BY <2>1, <2>2
<1>2. SUFFICES ASSUME NEW peer \in Trusted, NEW claims \in Chains, NEW client \in Addresses \ Trusted,
                      NEW proxies \in BoundedSeq(Trusted, 1)
               PROVE  LET forwarded == claims \o <<client>> \o proxies IN
                      ClientAddress(peer, forwarded) =
                        IF Len(forwarded) > MaxForwarded THEN peer ELSE client
  BY DEF ClaimsDoNotCount
<1>3. claims \in Seq(Addresses \cup {Garbage}) /\ proxies \in Seq(Trusted)
  BY <1>1 DEF Chains
<1>4. QED
  BY <1>2, <1>3, NoClaimCounts

(***************************************************************************)
(* The same as the runs look at it: the chains are those a request may     *)
(* have, and the bounds on them any.                                       *)
(***************************************************************************)
THEOREM ClaimsIgnoredHolds == LimiterSpec => []ClaimsIgnored
<1>1. ClaimsIgnored
  BY ClaimsOfChains DEF ClaimsIgnored
<1>2. QED
  BY <1>1, PTL
=============================================================================
