---------------------------- MODULE GatewayProofs ----------------------------
(***************************************************************************)
(* Proofs about the AI gateway, for any callers, keys and limits.  Three   *)
(* invariants, each using those before it:                                 *)
(*   Counted    the types, and every counter equal to what it counts;      *)
(*   OneFlight, Pointing   the map and the unsettled flights name each     *)
(*              other;                                                     *)
(*   Entries    what the caches hold, and that a closed gateway has none.  *)
(***************************************************************************)
EXTENDS Gateway, FiniteSetTheorems, TLAPS

LEMMA Limits ==
  /\ MaxWaiting \in Nat /\ MaxWaiters \in Nat \ {0} /\ MaxFlights \in Nat /\ Slots \in Nat
  /\ CacheEntries \in Nat /\ OwnerCap \in Nat /\ WindowCap \in Nat /\ HourCap \in Nat
  BY GatewayAssumption

LEMMA KindType == \A k \in Keys : KindOf[k] \in Kinds
  BY GatewayAssumption DEF Kinds

LEMMA OwnerType == \A c \in Callers : OwnerOf[c] \in Owners
  BY DEF Owners
-----------------------------------------------------------------------------
(***************************************************************************)
(* The lists of the caches: a key's element removed, a key put in front.   *)
(***************************************************************************)
Distinct(s) == \A i, j \in DOMAIN s : s[i] = s[j] => i = j

LEMMA OthersAre ==
  ASSUME NEW s \in Seq(Keys), NEW k \in Keys
  PROVE  /\ Others(s, k) \in Seq(Keys) /\ Len(Others(s, k)) <= Len(s)
         /\ Has(s, k) => Len(Others(s, k)) + 1 = Len(s)
         /\ \A x \in Keys : Has(Others(s, k), x) => Has(s, x)
         /\ \A x \in Keys : x # k /\ Has(s, x) => Has(Others(s, k), x)
         /\ Distinct(s) => Distinct(Others(s, k)) /\ ~Has(Others(s, k), k)
<1> DEFINE at == CHOOSE i \in DOMAIN s : s[i] = k
           o == [i \in 1..(Len(s) - 1) |-> IF i < at THEN s[i] ELSE s[i + 1]]
<1>1. DOMAIN s = 1..Len(s) /\ Len(s) \in Nat /\ \A i \in 1..Len(s) : s[i] \in Keys
  OBVIOUS
<1>2. CASE ~Has(s, k)
  <2>1. Others(s, k) = s
    BY <1>2 DEF Others
  <2>2. Len(Others(s, k)) <= Len(s)
    BY <1>1, <2>1
  <2>3. QED
    BY <1>2, <2>1, <2>2, Zenon
<1>3. CASE Has(s, k)
  <2>1. at \in 1..Len(s) /\ s[at] = k
    <3>1. \E i \in DOMAIN s : s[i] = k
      BY <1>3 DEF Has
    <3>2. at \in DOMAIN s /\ s[at] = k
      BY <3>1, Zenon
    <3>3. QED
      BY <1>1, <3>2
  <2>2. Others(s, k) = o
    BY <1>3, Zenon DEF Others
  <2> HIDE DEF at
  <2>3. \A i \in 1..(Len(s) - 1) : o[i] = IF i < at THEN s[i] ELSE s[i + 1]
    OBVIOUS
  <2>4. o \in [1..(Len(s) - 1) -> Keys] /\ Len(s) - 1 \in Nat
    <3>1. \A i \in 1..(Len(s) - 1) : i \in 1..Len(s) /\ i + 1 \in 1..Len(s)
      BY <1>1
    <3>2. QED
      BY <1>1, <2>1, <3>1
  <2>5. DOMAIN o = 1..(Len(s) - 1)
    OBVIOUS
  <2> HIDE DEF o
  <2>6. o \in Seq(Keys) /\ Len(o) = Len(s) - 1
    BY <2>4, <2>5
  <2>7. ASSUME NEW x \in Keys, Has(o, x) PROVE Has(s, x)
    <3>1. PICK i \in 1..(Len(s) - 1) : o[i] = x
      BY <2>5, <2>7 DEF Has
    <3>2. i \in 1..Len(s) /\ i + 1 \in 1..Len(s)
      BY <1>1
    <3>3. QED
      BY <1>1, <2>3, <3>1, <3>2 DEF Has
  <2>8. ASSUME NEW x \in Keys, x # k, Has(s, x) PROVE Has(o, x)
    <3>1. PICK i \in 1..Len(s) : s[i] = x
      BY <1>1, <2>8 DEF Has
    <3>2. i # at
      BY <2>1, <2>8, <3>1
    <3>3. CASE i < at
      <4>1. i \in 1..(Len(s) - 1)
        BY <1>1, <2>1, <3>3
      <4>2. QED
        BY <2>3, <2>5, <3>1, <3>3, <4>1 DEF Has
    <3>4. CASE ~(i < at)
      <4>1. i - 1 \in 1..(Len(s) - 1) /\ ~(i - 1 < at) /\ (i - 1) + 1 = i
        BY <1>1, <2>1, <3>2, <3>4
      <4>2. o[i - 1] = x
        BY <2>3, <3>1, <4>1
      <4>3. QED
        BY <2>5, <4>1, <4>2 DEF Has
    <3>5. QED
      BY <3>3, <3>4
  <2>9. ASSUME Distinct(s) PROVE Distinct(o) /\ ~Has(o, k)
    <3> DEFINE old(i) == IF i < at THEN i ELSE i + 1
    <3>1. ASSUME NEW i \in 1..(Len(s) - 1)
          PROVE  old(i) \in 1..Len(s) /\ old(i) # at /\ o[i] = s[old(i)]
      BY <1>1, <2>1, <2>3
    <3>2. ASSUME NEW i \in 1..(Len(s) - 1), NEW j \in 1..(Len(s) - 1), old(i) = old(j) PROVE i = j
      BY <1>1, <2>1, <3>2
    <3> HIDE DEF old
    <3>3. \A i, j \in 1..(Len(s) - 1) : o[i] = o[j] => i = j
      BY <1>1, <2>9, <3>1, <3>2 DEF Distinct
    <3>4. \A i \in 1..(Len(s) - 1) : o[i] # k
      BY <1>1, <2>1, <2>9, <3>1 DEF Distinct
    <3>5. QED
      BY <2>5, <3>3, <3>4 DEF Distinct, Has
  <2>10. QED
    BY <1>1, <2>2, <2>6, <2>7, <2>8, <2>9
<1>4. QED
  BY <1>2, <1>3

LEMMA FrontIs ==
  ASSUME NEW s \in Seq(Keys), NEW k \in Keys
  PROVE  /\ <<k>> \o s \in Seq(Keys) /\ Len(<<k>> \o s) = Len(s) + 1 /\ Len(s) \in Nat
         /\ \A x \in Keys : Has(<<k>> \o s, x) <=> x = k \/ Has(s, x)
         /\ Distinct(s) /\ ~Has(s, k) => Distinct(<<k>> \o s)
<1> DEFINE t == <<k>> \o s
<1>1. /\ t \in Seq(Keys) /\ Len(t) = Len(s) + 1 /\ Len(s) \in Nat
      /\ DOMAIN s = 1..Len(s)
  OBVIOUS
<1>2. DOMAIN t = 1..(Len(s) + 1) /\ t[1] = k /\ \A i \in 1..Len(s) : t[i + 1] = s[i]
  BY <1>1
<1> HIDE DEF t
<1>3. \A i \in 1..(Len(s) + 1) : i = 1 \/ (i - 1 \in 1..Len(s) /\ t[i] = s[i - 1])
  <2>1. ASSUME NEW i \in 1..(Len(s) + 1), i # 1 PROVE i - 1 \in 1..Len(s) /\ (i - 1) + 1 = i
    BY <1>1, <2>1
  <2>2. QED
    BY <1>2, <2>1
<1>4. ASSUME NEW x \in Keys PROVE Has(t, x) <=> x = k \/ Has(s, x)
  <2>1. Has(t, x) => x = k \/ Has(s, x)
    BY <1>1, <1>2, <1>3 DEF Has
  <2>2. 1 \in DOMAIN t /\ \A i \in 1..Len(s) : i + 1 \in DOMAIN t
    BY <1>1, <1>2
  <2>3. x = k \/ Has(s, x) => Has(t, x)
    BY <1>1, <1>2, <2>2 DEF Has
  <2>4. QED
    BY <2>1, <2>3
<1>5. ASSUME Distinct(s), ~Has(s, k) PROVE Distinct(t)
  <2>1. \A i \in 1..Len(s) : s[i] # k
    BY <1>1, <1>5 DEF Has
  <2>2. ASSUME NEW i \in 1..(Len(s) + 1), NEW j \in 1..(Len(s) + 1), t[i] = t[j] PROVE i = j
    <3>1. CASE i = 1 \/ j = 1
      BY <1>2, <1>3, <2>1, <2>2, <3>1
    <3>2. CASE i # 1 /\ j # 1
      <4>1. i - 1 \in 1..Len(s) /\ j - 1 \in 1..Len(s) /\ s[i - 1] = s[j - 1]
        BY <1>3, <2>2, <3>2
      <4>2. i - 1 = j - 1
        BY <1>1, <1>5, <4>1 DEF Distinct
      <4>3. QED
        BY <1>1, <4>2
    <3>3. QED
      BY <3>1, <3>2
  <2>3. QED
    BY <1>2, <2>2 DEF Distinct
<1>6. QED
  BY <1>1, <1>4, <1>5 DEF t

LEMMA StoredIs ==
  ASSUME NEW s \in Seq(Keys), NEW k \in Keys, NEW stored \in Stored(s, k)
  PROVE  /\ stored \in Seq(Keys) /\ Len(stored) <= CacheEntries
         /\ \A x \in Keys : Has(stored, x) => x = k \/ Has(s, x)
         /\ Distinct(s) => Distinct(stored)
<1> DEFINE o == Others(s, k)
           t == <<k>> \o o
<1>1. o \in Seq(Keys)
  BY OthersAre
<1>2. t \in Seq(Keys) /\ Len(t) = Len(o) + 1 /\ Len(o) \in Nat
  BY <1>1, FrontIs
<1>3. \A x \in Keys : Has(t, x) => x = k \/ Has(s, x)
  BY <1>1, FrontIs, OthersAre
<1>4. Distinct(s) => Distinct(t)
  BY <1>1, FrontIs, OthersAre
<1>5. PICK n \in 1..(IF Len(t) < CacheEntries THEN Len(t) ELSE CacheEntries) : stored = SubSeq(t, 1, n)
  BY DEF Stored
<1> HIDE DEF o, t
<1>6. n \in 0..Len(t) /\ n <= CacheEntries
  BY <1>2, <1>5, Limits
<1> DEFINE u == SubSeq(t, 1, n)
<1>7. u \in Seq(Keys) /\ Len(u) = n /\ DOMAIN u = 1..n /\ \A i \in 1..n : u[i] = t[i]
  BY <1>2, <1>6
<1>8. DOMAIN t = 1..Len(t) /\ 1..n \subseteq DOMAIN t
  BY <1>2, <1>6
<1> HIDE DEF u
<1>9. (\A x \in Keys : Has(u, x) => Has(t, x)) /\ (Distinct(t) => Distinct(u))
  BY <1>7, <1>8 DEF Has, Distinct
<1>10. QED
  BY <1>3, <1>4, <1>5, <1>6, <1>7, <1>9 DEF u

-----------------------------------------------------------------------------
(***************************************************************************)
(* What a step does to the flights, the callers and the caches.            *)
(***************************************************************************)
Flights == [key : Keys, stage : {"queued", "running", "returned", "settled"},
            ended : {"no", "deadline", "abandoned", "closed", "finished"},
            waiters : 0..MaxWaiters, outcome : {"none", "ok", "failed", Timeout}]
CallerStates == [pc : {"idle", "waiting", "leaving"}, flight : Started \cup {None}, result : Results]

FlightsType == flight \in Seq(Flights)
CachesType ==
  /\ cache \in [Kinds -> Seq(Keys)] /\ \A kind \in Kinds : Len(cache[kind]) <= CacheEntries
  /\ expired \subseteq Keys
CallersType == caller \in [Callers -> CallerStates]
WindowsType == used \in [Owners -> 0..OwnerCap] /\ hour \in 0..HourCap

LEMMA TypeParts ==
  TypeOK <=> /\ FlightsType /\ CachesType /\ CallersType /\ WindowsType
             /\ current \in [Keys -> Started \cup {None}]
             /\ waiting \in 0..MaxWaiting /\ slots \in 0..Slots
             /\ phase \in {"open", "closing", "closed"}
  BY DEF TypeOK, FlightsType, CachesType, CallersType, WindowsType, Flights, CallerStates

\* Flights are numbered from one, so that None is no flight.
LEMMA Numbered ==
  ASSUME FlightsType
  PROVE  /\ Started = 1..Len(flight) /\ Len(flight) \in Nat /\ None \notin Started
         /\ IsFiniteSet(Started) /\ \A f \in Started : flight[f] \in Flights
<1>1. Started = 1..Len(flight) /\ Len(flight) \in Nat /\ \A f \in Started : flight[f] \in Flights
  BY DEF FlightsType, Started
<1>2. None \notin Started
  BY <1>1 DEF None
<1>3. IsFiniteSet(Started)
  BY <1>1, FS_Interval
<1>4. QED
  BY <1>1, <1>2, <1>3

\* A flight's record is replaced by another.
Becomes(f, rec) ==
  /\ f \in Started /\ rec \in Flights
  /\ flight' = [flight EXCEPT ![f] = rec]

LEMMA BecomesIs ==
  ASSUME FlightsType, NEW f, NEW rec, Becomes(f, rec)
  PROVE  /\ FlightsType' /\ Started' = Started
         /\ flight'[f] = rec /\ \A g \in Started : g # f => flight'[g] = flight[g]
<1>1. flight \in [1..Len(flight) -> Flights] /\ Len(flight) \in Nat /\ Started = 1..Len(flight)
  BY DEF FlightsType, Started
<1>2. flight' \in [1..Len(flight) -> Flights] /\ Started' = Started
  BY <1>1 DEF Becomes, Started
<1>3. flight' \in Seq(Flights)
  BY <1>1, <1>2
<1>4. QED
  BY <1>1, <1>2, <1>3 DEF Becomes, FlightsType

\* A new flight is the last.
LEMMA AppendIs ==
  ASSUME FlightsType, NEW rec \in Flights, flight' = Append(flight, rec)
  PROVE  /\ FlightsType' /\ Started' = Started \cup {Len(flight) + 1} /\ Len(flight) + 1 \notin Started
         /\ flight'[Len(flight) + 1] = rec /\ \A g \in Started : flight'[g] = flight[g]
<1>1. flight \in Seq(Flights) /\ Len(flight) \in Nat /\ Started = 1..Len(flight)
  BY DEF FlightsType, Started
<1>2. flight' \in Seq(Flights) /\ Len(flight') = Len(flight) + 1
  BY <1>1
<1>3. Started' = 1..(Len(flight) + 1)
  BY <1>2 DEF Started
<1>4. Started' = Started \cup {Len(flight) + 1} /\ Len(flight) + 1 \notin Started
  BY <1>1, <1>3
<1>5. flight'[Len(flight) + 1] = rec /\ \A g \in Started : flight'[g] = flight[g]
  BY <1>1
<1>6. QED
  BY <1>2, <1>4, <1>5 DEF FlightsType

\* The caches: a look-up, a hit and a put.
LEMMA MissesType ==
  ASSUME CachesType, NEW c \in Callers, NEW k \in Keys, Misses(c, k)
  PROVE  CachesType'
<1> DEFINE o == Others(cache[KindOf[k]], k)
<1>1. KindOf[k] \in Kinds /\ cache[KindOf[k]] \in Seq(Keys)
  BY KindType DEF CachesType
<1>2. o \in Seq(Keys) /\ Len(o) <= Len(cache[KindOf[k]])
  BY <1>1, OthersAre
<1>3. cache' = [cache EXCEPT ![KindOf[k]] = o] /\ expired' = expired \ {k}
  BY DEF Misses
<1> HIDE DEF o
<1>4. cache' \in [Kinds -> Seq(Keys)] /\ expired' \subseteq Keys
  BY <1>2, <1>3 DEF CachesType
<1>5. ASSUME NEW kind \in Kinds PROVE Len(cache'[kind]) <= CacheEntries
  <2>1. CASE kind = KindOf[k]
    <3>1. cache'[kind] = o /\ Len(cache[kind]) <= CacheEntries
      BY <1>3, <2>1 DEF CachesType
    <3>2. Len(o) \in Nat /\ Len(cache[kind]) \in Nat
      BY <1>1, <1>2, <2>1
    <3>3. QED
      BY <1>2, <2>1, <3>1, <3>2, Limits
  <2>2. CASE kind # KindOf[k]
    BY <1>3, <2>2 DEF CachesType
  <2>3. QED
    BY <2>1, <2>2
<1>6. QED
  BY <1>4, <1>5 DEF CachesType

LEMMA HitType ==
  ASSUME CachesType, NEW c \in Callers, NEW k \in Keys, Hit(c, k)
  PROVE  CachesType'
<1> DEFINE o == Others(cache[KindOf[k]], k)
           t == <<k>> \o o
<1>1. KindOf[k] \in Kinds /\ cache[KindOf[k]] \in Seq(Keys)
  BY KindType DEF CachesType
<1>2. o \in Seq(Keys) /\ Len(o) + 1 = Len(cache[KindOf[k]])
  BY <1>1, OthersAre DEF Hit, Holds
<1>3. t \in Seq(Keys) /\ Len(t) = Len(cache[KindOf[k]])
  BY <1>2, FrontIs
<1>4. cache' = [cache EXCEPT ![KindOf[k]] = t] /\ expired' = expired
  BY DEF Hit
<1> HIDE DEF o, t
<1>5. cache' \in [Kinds -> Seq(Keys)] /\ expired' \subseteq Keys
  BY <1>3, <1>4 DEF CachesType
<1>6. \A kind \in Kinds : Len(cache'[kind]) <= CacheEntries
  BY <1>1, <1>3, <1>4 DEF CachesType
<1>7. QED
  BY <1>5, <1>6 DEF CachesType

LEMMA SettleCaches ==
  ASSUME FlightsType, CachesType, NEW f \in Started, Settle(f)
  PROVE  CachesType'
<1> DEFINE k == flight[f].key
           s == cache[KindOf[k]]
<1>1. k \in Keys
  BY Numbered DEF Flights
<1>2. KindOf[k] \in Kinds /\ cache[KindOf[k]] \in Seq(Keys)
  BY <1>1, KindType DEF CachesType
<1>3. \A u \in Stored(s, k) : u \in Seq(Keys) /\ Len(u) <= CacheEntries
  BY <1>1, <1>2, StoredIs
<1>4. cache' = cache \/ \E u \in Stored(s, k) : cache' = [cache EXCEPT ![KindOf[k]] = u]
  BY DEF Settle
<1>5. expired' \subseteq Keys
  BY DEF Settle, CachesType
<1> HIDE DEF k, s
<1>6. cache' \in [Kinds -> Seq(Keys)]
  BY <1>3, <1>4 DEF CachesType
<1>7. \A kind \in Kinds : Len(cache'[kind]) <= CacheEntries
  BY <1>2, <1>3, <1>4 DEF CachesType
<1>8. QED
  BY <1>5, <1>6, <1>7 DEF CachesType

-----------------------------------------------------------------------------
(***************************************************************************)
(* The counters.  A handler is inside Call exactly while it has a flight.  *)
(***************************************************************************)
Inside == {c \in Callers : caller[c].flight # None}
In(f) == {c \in Callers : caller[c].flight = f}
Running == {f \in Started : flight[f].stage = "running"}

Placed == \A c \in Callers : caller[c].pc = "idle" <=> caller[c].flight = None
WaitersCounted ==
  /\ waiting = Cardinality(Inside)
  /\ \A f \in Started : flight[f].waiters = Cardinality(In(f))
SlotsCounted == slots = Cardinality(Running)
Counted == TypeOK /\ Placed /\ WaitersCounted /\ SlotsCounted

\* No more flights than the limit.
FewActive == IsFiniteSet(Active) /\ Cardinality(Active) <= MaxFlights

LEMMA CountedIsExact == Counted /\ FewActive => CountersExact
  BY DEF FewActive, Counted, CountersExact, WaitersCounted, SlotsCounted, Inside, In, Running

LEMMA CallersFinite ==
  /\ IsFiniteSet(Inside) /\ Cardinality(Inside) \in Nat
  /\ \A f : IsFiniteSet(In(f)) /\ Cardinality(In(f)) \in Nat
<1>1. IsFiniteSet(Callers) /\ Inside \in SUBSET Callers /\ \A f : In(f) \in SUBSET Callers
  BY GatewayAssumption DEF Inside, In
<1>2. IsFiniteSet(Inside) /\ \A f : IsFiniteSet(In(f))
  BY <1>1, FS_Subset
<1>3. QED
  BY <1>2, FS_CardinalityType

\* A handler enters a flight.
LEMMA Enter ==
  ASSUME CallersType, Placed, WaitersCounted, NEW c \in Callers, caller[c].pc = "idle",
         NEW f \in Started', None \notin Started', Wait(c, f),
         Started \subseteq Started', Started' \subseteq Started \cup {f},
         waiting' = waiting + 1, waiting < MaxWaiting,
         \A g \in Started : g # f => flight'[g].waiters = flight[g].waiters,
         flight'[f].waiters = Cardinality(In(f)) + 1
  PROVE  CallersType' /\ Placed' /\ WaitersCounted' /\ waiting' \in 0..MaxWaiting
<1>1. caller \in [Callers -> CallerStates] /\ caller[c].flight = None
  BY DEF CallersType, Placed
<1>2. caller' = [caller EXCEPT ![c] = [pc |-> "waiting", flight |-> f, result |-> "none"]]
  BY DEF Wait
<1>3. caller'[c] = [pc |-> "waiting", flight |-> f, result |-> "none"]
      /\ \A x \in Callers : x # c => caller'[x] = caller[x]
  BY <1>1, <1>2
<1>4. CallersType'
  <2>1. CallerStates \subseteq CallerStates'
    BY DEF CallerStates
  <2>2. [pc |-> "waiting", flight |-> f, result |-> "none"] \in CallerStates'
    BY DEF CallerStates, Results
  <2>3. caller \in [Callers -> CallerStates']
    BY <1>1, <2>1
  <2>4. QED
    BY <1>2, <2>2, <2>3 DEF CallersType
<1>5. Placed'
  BY <1>3 DEF Placed
<1>6. Inside' = Inside \cup {c} /\ c \notin Inside
  BY <1>1, <1>3 DEF Inside
<1>7. In(f)' = In(f) \cup {c} /\ c \notin In(f)
  BY <1>1, <1>3 DEF In
<1>8. \A g : g # f /\ g # None => In(g)' = In(g)
  BY <1>1, <1>3 DEF In
<1>9. waiting' = Cardinality(Inside')
  <2>1. Cardinality(Inside') = Cardinality(Inside) + 1
    BY <1>6, CallersFinite, FS_AddElement
  <2>2. QED
    BY <2>1 DEF WaitersCounted
<1>10. flight'[f].waiters = Cardinality(In(f)')
  <2>1. Cardinality(In(f)') = Cardinality(In(f)) + 1
    <3>1. IsFiniteSet(In(f))
      BY CallersFinite
    <3>2. Cardinality(In(f) \cup {c}) = Cardinality(In(f)) + 1
      BY <1>7, <3>1, FS_AddElement
    <3>3. QED
      BY <1>7, <3>2
  <2>2. QED
    BY <2>1
<1>11. \A g \in Started' : flight'[g].waiters = Cardinality(In(g)')
  BY <1>8, <1>10 DEF WaitersCounted
<1>12. waiting' \in 0..MaxWaiting
  BY CallersFinite, Limits DEF WaitersCounted
<1>13. WaitersCounted'
  BY <1>9, <1>11 DEF WaitersCounted
<1>14. QED
  BY <1>4, <1>5, <1>12, <1>13

\* A handler that is counted can be discounted.
LEMMA MayLeave ==
  ASSUME FlightsType, CallersType, Placed, WaitersCounted, NEW c \in Callers, caller[c].pc # "idle"
  PROVE  /\ caller[c].flight \in Started /\ flight[caller[c].flight].waiters >= 1 /\ waiting >= 1
         /\ waiting \in Nat
<1>1. caller[c].flight \in Started
  BY DEF CallersType, CallerStates, Placed
<1>2. PICK f \in Started : f = caller[c].flight
  BY <1>1
<1>3. c \in Inside /\ c \in In(f)
  BY <1>2, Numbered DEF Inside, In
<1>4. Cardinality(Inside) >= 1 /\ Cardinality(In(f)) >= 1
  <2>1. Inside # {} /\ In(f) # {}
    BY <1>3
  <2>2. Cardinality(Inside) # 0 /\ Cardinality(In(f)) # 0
    BY <2>1, CallersFinite, FS_EmptySet
  <2>3. QED
    BY <2>2, CallersFinite
<1>5. QED
  BY <1>1, <1>2, <1>4, CallersFinite DEF WaitersCounted

LEMMA Depart ==
  ASSUME FlightsType, CallersType, Placed, WaitersCounted, waiting \in 0..MaxWaiting,
         NEW c \in Callers, NEW f \in Started, caller[c].flight = f,
         caller' = [caller EXCEPT ![c] = Idle], Started' = Started,
         waiting' = waiting - 1,
         \A g \in Started : g # f => flight'[g].waiters = flight[g].waiters,
         flight'[f].waiters = flight[f].waiters - 1
  PROVE  CallersType' /\ Placed' /\ WaitersCounted' /\ waiting' \in 0..MaxWaiting
<1>1. caller \in [Callers -> CallerStates] /\ f # None
  BY Numbered DEF CallersType
<1>2. caller'[c] = Idle /\ \A x \in Callers : x # c => caller'[x] = caller[x]
  BY <1>1
<1>3. CallersType'
  <2>1. CallerStates' = CallerStates /\ Idle \in CallerStates
    BY DEF CallerStates, Idle, Results
  <2>2. QED
    BY <1>1, <2>1 DEF CallersType
<1>4. Placed'
  BY <1>2 DEF Placed, Idle
<1>5. c \in Inside /\ Inside' = Inside \ {c}
  BY <1>1, <1>2 DEF Inside, Idle
<1>6. c \in In(f) /\ In(f)' = In(f) \ {c}
  BY <1>1, <1>2 DEF In, Idle
<1>7. \A g \in Started : g # f => In(g)' = In(g)
  <2>1. ASSUME NEW g \in Started, g # f PROVE In(g)' = In(g)
    <3>1. g # None
      BY Numbered
    <3>2. QED
      BY <1>2, <2>1, <3>1 DEF In, Idle
  <2>2. QED
    BY <2>1
<1>8. Cardinality(Inside') = Cardinality(Inside) - 1
  BY <1>5, CallersFinite, FS_RemoveElement
<1>9. Cardinality(In(f)') = Cardinality(In(f)) - 1
  BY <1>6, CallersFinite, FS_RemoveElement
<1>10. WaitersCounted'
  BY <1>7, <1>8, <1>9 DEF WaitersCounted
<1>11. waiting \in Nat \ {0}
  <2>1. caller[c].pc # "idle"
    BY <1>1 DEF Placed
  <2>2. QED
    BY <2>1, MayLeave
<1>12. waiting' \in 0..MaxWaiting
  BY <1>11, Limits
<1>13. QED
  BY <1>3, <1>4, <1>10, <1>12

\* Nobody enters or leaves.
NobodyMoves ==
  /\ FlightsType' /\ Started' = Started /\ waiting' = waiting
  /\ \A f \in Started : flight'[f].waiters = flight[f].waiters
  /\ CallersType'
  /\ \A c \in Callers : /\ caller'[c].flight = caller[c].flight
                        /\ caller'[c].pc = "idle" <=> caller[c].pc = "idle"

LEMMA NobodyMovesCounted == Placed /\ WaitersCounted /\ NobodyMoves => Placed' /\ WaitersCounted'
<1> SUFFICES ASSUME Placed, WaitersCounted, NobodyMoves PROVE Placed' /\ WaitersCounted'
  OBVIOUS
<1>1. Placed'
  BY DEF Placed, NobodyMoves
<1>2. Inside' = Inside /\ \A f : In(f)' = In(f)
  BY DEF NobodyMoves, Inside, In
<1>3. WaitersCounted'
  BY <1>2 DEF WaitersCounted, NobodyMoves
<1>4. QED
  BY <1>1, <1>3

LEMMA RunningFinite == FlightsType => IsFiniteSet(Running) /\ Cardinality(Running) \in Nat
<1> SUFFICES ASSUME FlightsType PROVE IsFiniteSet(Running) /\ Cardinality(Running) \in Nat
  OBVIOUS
<1>1. Running \in SUBSET Started
  BY DEF Running
<1>2. IsFiniteSet(Running)
  BY <1>1, Numbered, FS_Subset
<1>3. QED
  BY <1>2, FS_CardinalityType

-----------------------------------------------------------------------------
(***************************************************************************)
(* The actions, one by one.                                                *)
(***************************************************************************)
LEMMA CallersStay ==
  ASSUME CallersType, Started' = Started, caller' = caller
  PROVE  CallersType'
  BY DEF CallersType, CallerStates

\* What there is to show of a step.
LEMMA CountedParts ==
  ASSUME FlightsType', CachesType', CallersType', WindowsType',
         current' \in [Keys -> (Started \cup {None})'], waiting' \in 0..MaxWaiting,
         slots' \in 0..Slots, phase' \in {"open", "closing", "closed"},
         Placed', WaitersCounted', SlotsCounted'
  PROVE  Counted'
  BY DEF Counted, TypeOK, FlightsType, CachesType, CallersType, WindowsType, Flights, CallerStates

LEMMA LaunchCounted ==
  ASSUME Counted, NEW c \in Callers, NEW k \in Keys, Launch(c, k)
  PROVE  Counted'
<1> DEFINE f == Len(flight) + 1
           rec == [key |-> k, stage |-> "queued", ended |-> "no", waiters |-> 1, outcome |-> "none"]
<1>1. /\ FlightsType /\ CachesType /\ CallersType /\ WindowsType
      /\ current \in [Keys -> Started \cup {None}] /\ waiting \in 0..MaxWaiting
      /\ slots \in 0..Slots /\ phase \in {"open", "closing", "closed"}
      /\ Placed /\ WaitersCounted /\ SlotsCounted
  BY TypeParts DEF Counted
<1>2. /\ Misses(c, k) /\ ~Full(k) /\ current[k] = None /\ Allowed(OwnerOf[c])
      /\ used' = [used EXCEPT ![OwnerOf[c]] = @ + 1] /\ hour' = hour + 1
      /\ flight' = Append(flight, rec)
      /\ current' = [current EXCEPT ![k] = f]
      /\ waiting' = waiting + 1 /\ Wait(c, f) /\ slots' = slots /\ phase' = phase
  BY DEF Launch
<1>3. rec \in Flights
  BY Limits DEF Flights
<1>4. flight' = Append(flight, rec)
  BY <1>2
<1> HIDE DEF rec
<1>5. /\ FlightsType' /\ Started' = Started \cup {f} /\ f \notin Started
      /\ flight'[f] = rec /\ \A g \in Started : flight'[g] = flight[g]
  BY <1>1, <1>3, <1>4, AppendIs
<1>6. rec.waiters = 1 /\ rec.stage = "queued"
  BY DEF rec
<1> HIDE DEF f
<1>7. None \notin Started' /\ None \notin Started
  BY <1>1, <1>5, Numbered DEF FlightsType, None, f
<1>8. f # None
  BY <1>5, <1>7
<1>9. waiting < MaxWaiting
  BY <1>1, <1>2, Limits DEF Full
<1>10. In(f) = {}
  BY <1>1, <1>5, <1>8 DEF In, CallersType, CallerStates
<1>11. Cardinality(In(f)) + 1 = 1
  BY <1>10, FS_EmptySet
<1>12. caller[c].pc = "idle"
  BY <1>2 DEF Misses
<1>13. CallersType' /\ Placed' /\ WaitersCounted' /\ waiting' \in 0..MaxWaiting
  BY <1>1, <1>2, <1>5, <1>6, <1>7, <1>9, <1>11, <1>12, Enter
<1>14. Running' = Running
  BY <1>5, <1>6 DEF Running
<1>15. SlotsCounted' /\ slots' \in 0..Slots
  BY <1>1, <1>2, <1>14 DEF SlotsCounted
<1>16. current' \in [Keys -> (Started \cup {None})'] /\ phase' \in {"open", "closing", "closed"}
  BY <1>1, <1>2, <1>5 DEF None
<1>17. WindowsType'
  BY <1>1, <1>2, OwnerType, Limits DEF WindowsType, Allowed
<1>18. CachesType'
  BY <1>1, <1>2, MissesType
<1>19. QED
  BY <1>2, <1>5, <1>13, <1>15, <1>16, <1>17, <1>18, CountedParts

LEMMA JoinCounted ==
  ASSUME Counted, NEW c \in Callers, NEW k \in Keys, Join(c, k)
  PROVE  Counted'
<1> DEFINE f == current[k]
           rec == [flight[f] EXCEPT !.waiters = @ + 1]
<1>1. /\ FlightsType /\ CachesType /\ CallersType /\ WindowsType
      /\ current \in [Keys -> Started \cup {None}] /\ waiting \in 0..MaxWaiting
      /\ slots \in 0..Slots /\ phase \in {"open", "closing", "closed"}
      /\ Placed /\ WaitersCounted /\ SlotsCounted
  BY TypeParts DEF Counted
<1>2. /\ Misses(c, k) /\ ~Full(k) /\ current[k] # None
      /\ flight' = [flight EXCEPT ![current[k]].waiters = @ + 1]
      /\ waiting' = waiting + 1 /\ Wait(c, current[k])
      /\ UNCHANGED <<current, slots, used, hour, phase>>
  BY DEF Join, limits
<1>3. f \in Started /\ f # None
  BY <1>1, <1>2
<1>4. flight[f] \in Flights
  BY <1>1, <1>3, Numbered
<1>5. flight[f].waiters < MaxWaiters /\ flight[f].waiters \in Nat /\ waiting < MaxWaiting
  BY <1>1, <1>2, <1>4, Limits DEF Full, Flights
<1>6. rec \in Flights
  BY <1>4, <1>5, Limits DEF Flights
<1>7. rec.waiters = flight[f].waiters + 1 /\ rec.stage = flight[f].stage
  BY <1>4 DEF Flights
<1>8. flight' = [flight EXCEPT ![f] = rec]
  BY <1>2
<1> HIDE DEF rec
<1>9. Becomes(f, rec)
  BY <1>3, <1>6, <1>8 DEF Becomes
<1>10. /\ FlightsType' /\ Started' = Started
       /\ flight'[f] = rec /\ \A g \in Started : g # f => flight'[g] = flight[g]
  BY <1>1, <1>9, BecomesIs
<1>11. PICK g \in Started : g = f
  BY <1>3
<1> HIDE DEF f
<1>12. flight'[g].waiters = Cardinality(In(g)) + 1
  BY <1>1, <1>7, <1>10, <1>11 DEF WaitersCounted
<1>13. Wait(c, g) /\ g \in Started' /\ None \notin Started'
  BY <1>1, <1>2, <1>10, <1>11, Numbered DEF f
<1>14. caller[c].pc = "idle" /\ Started' \subseteq Started \cup {g} /\ Started \subseteq Started'
       /\ \A x \in Started : x # g => flight'[x].waiters = flight[x].waiters
  BY <1>2, <1>10, <1>11 DEF Misses
<1>15. CallersType' /\ Placed' /\ WaitersCounted' /\ waiting' \in 0..MaxWaiting
  BY <1>1, <1>2, <1>5, <1>12, <1>13, <1>14, Enter
<1>16. Running' = Running
  BY <1>7, <1>10 DEF Running
<1>17. SlotsCounted' /\ WindowsType' /\ current' \in [Keys -> (Started \cup {None})']
  BY <1>1, <1>2, <1>10, <1>16 DEF SlotsCounted, WindowsType, None, Owners
<1>18. CachesType'
  BY <1>1, <1>2, MissesType
<1>19. QED
  BY <1>1, <1>2, <1>10, <1>15, <1>17, <1>18, CountedParts

LEMMA LeaveCounted ==
  ASSUME Counted, NEW c \in Callers, Leave(c)
  PROVE  Counted'
<1> DEFINE f == caller[c].flight
           left == flight[f].waiters - 1
           rec == [flight[f] EXCEPT !.waiters = left,
                                    !.ended = IF left = 0 THEN EndedBy(f, "abandoned") ELSE @]
<1>1. /\ FlightsType /\ CachesType /\ CallersType /\ WindowsType
      /\ current \in [Keys -> Started \cup {None}] /\ waiting \in 0..MaxWaiting
      /\ slots \in 0..Slots /\ phase \in {"open", "closing", "closed"}
      /\ Placed /\ WaitersCounted /\ SlotsCounted
  BY TypeParts DEF Counted
<1>2. /\ caller[c].pc = "leaving" /\ waiting' = waiting - 1
      /\ flight' = [flight EXCEPT ![f].waiters = left,
                                  ![f].ended = IF left = 0 THEN EndedBy(f, "abandoned") ELSE @]
      /\ caller' = [caller EXCEPT ![c] = Idle]
      /\ UNCHANGED <<current, cache, expired, slots, used, hour, phase>>
  BY DEF Leave, limits
<1>3. f \in Started /\ flight[f].waiters >= 1 /\ flight[f] \in Flights
  BY <1>1, <1>2, MayLeave, Numbered
<1>4. left \in 0..MaxWaiters
  BY <1>3, Limits DEF Flights
<1>5. EndedBy(f, "abandoned") \in {"no", "deadline", "abandoned", "closed", "finished"}
  BY <1>3 DEF EndedBy, Flights
<1>6. rec \in Flights /\ rec.waiters = left /\ rec.stage = flight[f].stage
  BY <1>3, <1>4, <1>5 DEF Flights
<1>7. flight' = [flight EXCEPT ![f] = rec]
  BY <1>2
<1> HIDE DEF rec
<1>8. Becomes(f, rec)
  BY <1>3, <1>6, <1>7 DEF Becomes
<1>9. /\ FlightsType' /\ Started' = Started
      /\ flight'[f] = rec /\ \A g \in Started : g # f => flight'[g] = flight[g]
  BY <1>1, <1>8, BecomesIs
<1>10. PICK g \in Started : g = f
  BY <1>3
<1>11. flight'[g].waiters = flight[g].waiters - 1 /\ caller[c].flight = g
       /\ \A x \in Started : x # g => flight'[x].waiters = flight[x].waiters
  BY <1>6, <1>9, <1>10
<1>12. CallersType' /\ Placed' /\ WaitersCounted' /\ waiting' \in 0..MaxWaiting
  BY <1>1, <1>2, <1>9, <1>11, Depart
<1>13. Running' = Running
  BY <1>6, <1>9 DEF Running
<1>14. SlotsCounted' /\ WindowsType' /\ CachesType' /\ current' \in [Keys -> (Started \cup {None})']
  BY <1>1, <1>2, <1>9, <1>13 DEF SlotsCounted, WindowsType, CachesType, None, Owners, Kinds
<1>15. QED
  BY <1>1, <1>2, <1>9, <1>12, <1>14, CountedParts

\* The step of a flight's goroutine leaves the handlers where they are.
LEMMA FlightCounted ==
  ASSUME Counted, NEW f \in Started, NEW rec, Becomes(f, rec), rec.waiters = flight[f].waiters,
         UNCHANGED <<waiting, used, hour, caller, phase>>,
         current' \in [Keys -> Started \cup {None}], CachesType', slots' \in 0..Slots,
         FlightsType' /\ Running' = (IF rec.stage = "running" THEN Running \cup {f} ELSE Running \ {f})
           => slots' = Cardinality(Running')
  PROVE  Counted'
<1>1. /\ FlightsType /\ CachesType /\ CallersType /\ WindowsType
      /\ current \in [Keys -> Started \cup {None}] /\ waiting \in 0..MaxWaiting
      /\ slots \in 0..Slots /\ phase \in {"open", "closing", "closed"}
      /\ Placed /\ WaitersCounted /\ SlotsCounted
  BY TypeParts DEF Counted
<1>2. /\ FlightsType' /\ Started' = Started
      /\ flight'[f] = rec /\ \A g \in Started : g # f => flight'[g] = flight[g]
  BY <1>1, BecomesIs
<1>3. NobodyMoves
  BY <1>1, <1>2, CallersStay DEF NobodyMoves
<1>4. Placed' /\ WaitersCounted'
  BY <1>1, <1>3, NobodyMovesCounted
<1>5. Running' = IF rec.stage = "running" THEN Running \cup {f} ELSE Running \ {f}
  BY <1>2 DEF Running
<1>6. SlotsCounted'
  BY <1>2, <1>5 DEF SlotsCounted
<1>7. WindowsType' /\ current' \in [Keys -> (Started \cup {None})']
  BY <1>1, <1>2 DEF WindowsType, Owners, None
<1>8. QED
  BY <1>1, <1>2, <1>3, <1>4, <1>6, <1>7, CountedParts DEF NobodyMoves

LEMMA AcquireCounted ==
  ASSUME Counted, NEW f \in Started, Acquire(f)
  PROVE  Counted'
<1> DEFINE rec == [flight[f] EXCEPT !.stage = "running"]
<1>1. /\ FlightsType /\ CachesType /\ CallersType /\ WindowsType
      /\ current \in [Keys -> Started \cup {None}] /\ waiting \in 0..MaxWaiting
      /\ slots \in 0..Slots /\ phase \in {"open", "closing", "closed"}
      /\ Placed /\ WaitersCounted /\ SlotsCounted
  BY TypeParts DEF Counted
<1>2. /\ flight[f].stage = "queued" /\ slots < Slots /\ slots' = slots + 1
      /\ flight' = [flight EXCEPT ![f].stage = "running"]
      /\ UNCHANGED <<current, cache, expired, waiting, used, hour, caller, phase>>
  BY DEF Acquire, limits
<1>3. flight[f] \in Flights
  BY <1>1, Numbered
<1>4. rec \in Flights /\ rec.waiters = flight[f].waiters /\ rec.stage = "running"
  BY <1>3 DEF Flights
<1>5. flight' = [flight EXCEPT ![f] = rec]
  BY <1>2
<1> HIDE DEF rec
<1>6. Becomes(f, rec)
  BY <1>4, <1>5 DEF Becomes
<1>7. slots' \in 0..Slots /\ CachesType' /\ current' \in [Keys -> Started \cup {None}]
  BY <1>1, <1>2, Limits DEF CachesType
<1>8. slots' = Cardinality(Running \cup {f})
  <2>1. IsFiniteSet(Running) /\ f \notin Running
    BY <1>1, <1>2, RunningFinite DEF Running
  <2>2. Cardinality(Running \cup {f}) = Cardinality(Running) + 1
    BY <2>1, FS_AddElement
  <2>3. QED
    BY <1>1, <1>2, <2>2 DEF SlotsCounted
<1>9. QED
  BY <1>2, <1>4, <1>6, <1>7, <1>8, FlightCounted

LEMMA ReturnCounted ==
  ASSUME Counted, NEW f \in Started, NEW outcome \in {"ok", "failed"}, Return(f, outcome)
  PROVE  Counted'
<1> DEFINE rec == [flight[f] EXCEPT !.stage = "returned",
                                    !.outcome = IF flight[f].ended # "no" THEN Timeout ELSE outcome]
<1>1. /\ FlightsType /\ CachesType /\ CallersType /\ WindowsType
      /\ current \in [Keys -> Started \cup {None}] /\ waiting \in 0..MaxWaiting
      /\ slots \in 0..Slots /\ phase \in {"open", "closing", "closed"}
      /\ Placed /\ WaitersCounted /\ SlotsCounted
  BY TypeParts DEF Counted
<1>2. /\ flight[f].stage = "running" /\ slots' = slots - 1
      /\ flight' = [flight EXCEPT ![f].stage = "returned",
                                  ![f].outcome = IF flight[f].ended # "no" THEN Timeout ELSE outcome]
      /\ UNCHANGED <<current, cache, expired, waiting, used, hour, caller, phase>>
  BY DEF Return, limits
<1>3. flight[f] \in Flights
  BY <1>1, Numbered
<1>4. rec \in Flights /\ rec.waiters = flight[f].waiters /\ rec.stage = "returned"
  BY <1>3 DEF Flights
<1>5. flight' = [flight EXCEPT ![f] = rec]
  BY <1>2
<1> HIDE DEF rec
<1>6. Becomes(f, rec)
  BY <1>4, <1>5 DEF Becomes
<1>7. slots' = Cardinality(Running \ {f}) /\ slots >= 1
  <2>1. IsFiniteSet(Running) /\ f \in Running
    BY <1>1, <1>2, RunningFinite DEF Running
  <2>2. Cardinality(Running \ {f}) = Cardinality(Running) - 1 /\ Cardinality(Running \ {f}) \in Nat
    BY <2>1, FS_RemoveElement, FS_CardinalityType
  <2>3. Cardinality(Running) \in Nat
    BY <1>1, RunningFinite
  <2>4. QED
    BY <1>1, <1>2, <2>2, <2>3 DEF SlotsCounted
<1>8. slots' \in 0..Slots /\ CachesType' /\ current' \in [Keys -> Started \cup {None}]
  BY <1>1, <1>2, <1>7, Limits DEF CachesType
<1>9. QED
  BY <1>2, <1>4, <1>6, <1>7, <1>8, FlightCounted

LEMMA NeverRanCounted ==
  ASSUME Counted, NEW f \in Started, NeverRan(f)
  PROVE  Counted'
<1> DEFINE rec == [flight[f] EXCEPT !.stage = "returned", !.outcome = Timeout]
<1>1. /\ FlightsType /\ CachesType /\ CallersType /\ WindowsType
      /\ current \in [Keys -> Started \cup {None}] /\ waiting \in 0..MaxWaiting
      /\ slots \in 0..Slots /\ phase \in {"open", "closing", "closed"}
      /\ Placed /\ WaitersCounted /\ SlotsCounted
  BY TypeParts DEF Counted
<1>2. /\ flight[f].stage = "queued"
      /\ flight' = [flight EXCEPT ![f].stage = "returned", ![f].outcome = Timeout]
      /\ UNCHANGED <<current, cache, expired, waiting, slots, used, hour, caller, phase>>
  BY DEF NeverRan, limits
<1>3. flight[f] \in Flights
  BY <1>1, Numbered
<1>4. rec \in Flights /\ rec.waiters = flight[f].waiters /\ rec.stage = "returned"
  BY <1>3 DEF Flights
<1>5. flight' = [flight EXCEPT ![f] = rec]
  BY <1>2
<1> HIDE DEF rec
<1>6. Becomes(f, rec)
  BY <1>4, <1>5 DEF Becomes
<1>7. slots' = Cardinality(Running \ {f})
  <2>1. Running \ {f} = Running
    BY <1>2 DEF Running
  <2>2. QED
    BY <1>1, <1>2, <2>1 DEF SlotsCounted
<1>8. slots' \in 0..Slots /\ CachesType' /\ current' \in [Keys -> Started \cup {None}]
  BY <1>1, <1>2 DEF CachesType
<1>9. QED
  BY <1>2, <1>4, <1>6, <1>7, <1>8, FlightCounted


LEMMA EndedByType ==
  ASSUME FlightsType, NEW f \in Started, NEW cause \in {"deadline", "abandoned", "closed", "finished"}
  PROVE  EndedBy(f, cause) \in {"deadline", "abandoned", "closed", "finished"}
<1>1. flight[f].ended \in {"no", "deadline", "abandoned", "closed", "finished"}
  BY Numbered DEF Flights
<1>2. QED
  BY <1>1 DEF EndedBy

LEMMA SettleCounted ==
  ASSUME Counted, NEW f \in Started, Settle(f)
  PROVE  Counted'
<1> DEFINE rec == [flight[f] EXCEPT !.stage = "settled", !.ended = EndedBy(f, "finished")]
<1>1. /\ FlightsType /\ CachesType /\ CallersType /\ WindowsType
      /\ current \in [Keys -> Started \cup {None}] /\ waiting \in 0..MaxWaiting
      /\ slots \in 0..Slots /\ phase \in {"open", "closing", "closed"}
      /\ Placed /\ WaitersCounted /\ SlotsCounted
  BY TypeParts DEF Counted
<1>2. /\ flight[f].stage = "returned"
      /\ flight' = [flight EXCEPT ![f].stage = "settled", ![f].ended = EndedBy(f, "finished")]
      /\ current' = IF current[flight[f].key] = f THEN [current EXCEPT ![flight[f].key] = None] ELSE current
      /\ UNCHANGED <<waiting, slots, used, hour, caller, phase>>
  BY DEF Settle, limits
<1>3. flight[f] \in Flights /\ EndedBy(f, "finished") \in {"deadline", "abandoned", "closed", "finished"}
  BY <1>1, Numbered, EndedByType
<1>4. rec \in Flights /\ rec.waiters = flight[f].waiters /\ rec.stage = "settled"
  BY <1>3 DEF Flights
<1>5. flight' = [flight EXCEPT ![f] = rec]
  BY <1>2
<1> HIDE DEF rec
<1>6. Becomes(f, rec)
  BY <1>4, <1>5 DEF Becomes
<1>7. slots' = Cardinality(Running \ {f})
  <2>1. Running \ {f} = Running
    BY <1>2 DEF Running
  <2>2. QED
    BY <1>1, <1>2, <2>1 DEF SlotsCounted
<1>8. slots' \in 0..Slots /\ current' \in [Keys -> Started \cup {None}]
  BY <1>1, <1>2
<1>9. CachesType'
  BY <1>1, SettleCaches
<1>10. QED
  BY <1>2, <1>4, <1>6, <1>7, <1>8, <1>9, FlightCounted

LEMMA DeadlineCounted ==
  ASSUME Counted, NEW f \in Started, Deadline(f)
  PROVE  Counted'
<1> DEFINE rec == [flight[f] EXCEPT !.ended = "deadline"]
<1>1. /\ FlightsType /\ CachesType /\ CallersType /\ WindowsType
      /\ current \in [Keys -> Started \cup {None}] /\ waiting \in 0..MaxWaiting
      /\ slots \in 0..Slots /\ phase \in {"open", "closing", "closed"}
      /\ Placed /\ WaitersCounted /\ SlotsCounted
  BY TypeParts DEF Counted
<1>2. /\ flight' = [flight EXCEPT ![f].ended = "deadline"]
      /\ UNCHANGED <<current, cache, expired, waiting, slots, used, hour, caller, phase>>
  BY DEF Deadline, limits
<1>3. flight[f] \in Flights
  BY <1>1, Numbered
<1>4. rec \in Flights /\ rec.waiters = flight[f].waiters /\ rec.stage = flight[f].stage
  BY <1>3 DEF Flights
<1>5. flight' = [flight EXCEPT ![f] = rec]
  BY <1>2
<1> HIDE DEF rec
<1>6. Becomes(f, rec)
  BY <1>4, <1>5 DEF Becomes
<1>7. slots' = Cardinality(IF rec.stage = "running" THEN Running \cup {f} ELSE Running \ {f})
  <2>1. (IF rec.stage = "running" THEN Running \cup {f} ELSE Running \ {f}) = Running
    BY <1>4 DEF Running
  <2>2. QED
    BY <1>1, <1>2, <2>1 DEF SlotsCounted
<1>8. slots' \in 0..Slots /\ CachesType' /\ current' \in [Keys -> Started \cup {None}]
  BY <1>1, <1>2 DEF CachesType
<1>9. QED
  BY <1>2, <1>4, <1>6, <1>7, <1>8, FlightCounted

\* Steps that leave the flights alone.
LEMMA QuietCounted ==
  ASSUME Counted, UNCHANGED <<flight, current, waiting, slots>>,
         CachesType', WindowsType', phase' \in {"open", "closing", "closed"},
         CallersType',
         \A c \in Callers : /\ caller'[c].flight = caller[c].flight
                            /\ caller'[c].pc = "idle" <=> caller[c].pc = "idle"
  PROVE  Counted'
<1>1. /\ FlightsType /\ CachesType /\ CallersType /\ WindowsType
      /\ current \in [Keys -> Started \cup {None}] /\ waiting \in 0..MaxWaiting
      /\ slots \in 0..Slots /\ phase \in {"open", "closing", "closed"}
      /\ Placed /\ WaitersCounted /\ SlotsCounted
  BY TypeParts DEF Counted
<1>2. FlightsType' /\ Started' = Started /\ Running' = Running
  BY <1>1 DEF FlightsType, Started, Running
<1>3. NobodyMoves
  <2>1. flight' = flight /\ waiting' = waiting
    OBVIOUS
  <2>2. \A f \in Started : flight'[f].waiters = flight[f].waiters
    BY <2>1
  <2>3. \A c \in Callers : /\ caller'[c].flight = caller[c].flight
                           /\ caller'[c].pc = "idle" <=> caller[c].pc = "idle"
    OBVIOUS
  <2>4. QED
    BY <1>2, <2>1, <2>2, <2>3, Zenon DEF NobodyMoves
<1>4. Placed' /\ WaitersCounted'
  BY <1>1, <1>3, NobodyMovesCounted
<1>5. SlotsCounted'
  BY <1>1, <1>2 DEF SlotsCounted
<1>6. current' \in [Keys -> (Started \cup {None})']
  BY <1>1, <1>2 DEF None
<1>7. QED
  BY <1>1, <1>2, <1>4, <1>5, <1>6, CountedParts

LEMMA LookUpCounted ==
  ASSUME Counted, NEW c \in Callers, NEW k \in Keys, Hit(c, k) \/ TurnAway(c, k)
  PROVE  Counted'
<1>1. /\ FlightsType /\ CachesType /\ CallersType /\ WindowsType
      /\ current \in [Keys -> Started \cup {None}] /\ waiting \in 0..MaxWaiting
      /\ slots \in 0..Slots /\ phase \in {"open", "closing", "closed"}
      /\ Placed /\ WaitersCounted /\ SlotsCounted
  BY TypeParts DEF Counted
<1>2. UNCHANGED <<flight, current, waiting, slots, used, hour, caller, phase>>
  BY DEF Hit, TurnAway, limits
<1>3. CachesType'
  BY <1>1, HitType, MissesType DEF TurnAway
<1>4. WindowsType' /\ CallersType' /\ phase' \in {"open", "closing", "closed"}
  BY <1>1, <1>2, CallersStay DEF WindowsType, Owners, Started
<1>5. QED
  BY <1>2, <1>3, <1>4, QuietCounted

LEMMA WakeCounted ==
  ASSUME Counted, NEW c \in Callers, GiveUp(c) \/ Wake(c)
  PROVE  Counted'
<1>1. /\ FlightsType /\ CachesType /\ CallersType /\ WindowsType
      /\ current \in [Keys -> Started \cup {None}] /\ waiting \in 0..MaxWaiting
      /\ slots \in 0..Slots /\ phase \in {"open", "closing", "closed"}
      /\ Placed /\ WaitersCounted /\ SlotsCounted
  BY TypeParts DEF Counted
<1>2. UNCHANGED <<flight, current, cache, expired, waiting, slots, used, hour, phase>> /\ caller[c].pc = "waiting"
  BY DEF GiveUp, Wake, limits
<1>3. caller[c].flight \in Started
  BY <1>1, <1>2, MayLeave
<1>4. flight[caller[c].flight] \in Flights
  BY <1>1, <1>3, Numbered
<1>5. PICK result \in Results :
        caller' = [caller EXCEPT ![c].pc = "leaving", ![c].result = result]
  BY <1>4 DEF GiveUp, Wake, Results, Flights
<1>6. caller \in [Callers -> CallerStates] /\ CallerStates' = CallerStates
  BY <1>1, <1>2 DEF CallersType, CallerStates, Started
<1>7. CallersType'
  <2>1. [caller[c] EXCEPT !.pc = "leaving", !.result = result] \in CallerStates
    BY <1>6 DEF CallerStates
  <2>2. caller' = [caller EXCEPT ![c] = [caller[c] EXCEPT !.pc = "leaving", !.result = result]]
    BY <1>5, <1>6
  <2>3. QED
    BY <1>6, <2>1, <2>2 DEF CallersType
<1>8. \A x \in Callers : /\ caller'[x].flight = caller[x].flight
                         /\ caller'[x].pc = "idle" <=> caller[x].pc = "idle"
  <2>1. \A x \in Callers : x # c => caller'[x] = caller[x]
    BY <1>5, <1>6
  <2>2. caller'[c].flight = caller[c].flight /\ caller'[c].pc = "leaving"
    BY <1>5, <1>6 DEF CallerStates
  <2>3. QED
    BY <1>2, <2>1, <2>2
<1>9. WindowsType' /\ CachesType' /\ phase' \in {"open", "closing", "closed"}
  BY <1>1, <1>2 DEF WindowsType, CachesType, Owners
<1>10. QED
  BY <1>2, <1>7, <1>8, <1>9, QuietCounted

LEMMA TimeCounted ==
  ASSUME Counted, \/ \E k \in Keys : Expire(k)
                  \/ \E o \in Owners : MinuteEnds(o)
                  \/ HourEnds
                  \/ UNCHANGED vars
  PROVE  Counted'
<1>1. /\ FlightsType /\ CachesType /\ CallersType /\ WindowsType
      /\ current \in [Keys -> Started \cup {None}] /\ waiting \in 0..MaxWaiting
      /\ slots \in 0..Slots /\ phase \in {"open", "closing", "closed"}
      /\ Placed /\ WaitersCounted /\ SlotsCounted
  BY TypeParts DEF Counted
<1>2. UNCHANGED <<flight, current, cache, waiting, slots, caller, phase>>
  BY DEF Expire, MinuteEnds, HourEnds, vars, limits
<1>3. CachesType'
  BY <1>1, <1>2 DEF CachesType, Expire, MinuteEnds, HourEnds, vars
<1>4. WindowsType'
  <2>1. used \in [Owners -> 0..OwnerCap] /\ hour \in 0..HourCap
    BY <1>1 DEF WindowsType
  <2>2. used' \in [Owners -> 0..OwnerCap] /\ hour' \in 0..HourCap
    BY <2>1, Limits DEF Expire, MinuteEnds, HourEnds, vars, limits
  <2>3. QED
    BY <2>2 DEF WindowsType, Owners
<1>5. CallersType' /\ phase' \in {"open", "closing", "closed"}
  BY <1>1, <1>2, CallersStay DEF Started
<1>6. QED
  BY <1>2, <1>3, <1>4, <1>5, QuietCounted

LEMMA CloseEndsCounted == Counted /\ CloseEnds => Counted'
<1> SUFFICES ASSUME Counted, CloseEnds PROVE Counted'
  OBVIOUS
<1>1. /\ FlightsType /\ CachesType /\ CallersType /\ WindowsType
      /\ current \in [Keys -> Started \cup {None}] /\ waiting \in 0..MaxWaiting
      /\ slots \in 0..Slots /\ phase \in {"open", "closing", "closed"}
      /\ Placed /\ WaitersCounted /\ SlotsCounted
  BY TypeParts DEF Counted
<1>2. /\ UNCHANGED <<flight, current, waiting, slots, hour, caller>> /\ phase' = "closed"
      /\ cache' = [kind \in Kinds |-> << >>] /\ expired' = {}
      /\ used' = [o \in Owners |-> 0]
  BY DEF CloseEnds
<1>3. CachesType'
  BY <1>2, Limits DEF CachesType
<1>4. WindowsType'
  BY <1>1, <1>2, Limits DEF WindowsType, Owners
<1>5. CallersType'
  BY <1>1, <1>2, CallersStay DEF Started
<1>6. QED
  BY <1>2, <1>3, <1>4, <1>5, QuietCounted

LEMMA CloseBeginsCounted == Counted /\ CloseBegins => Counted'
<1> SUFFICES ASSUME Counted, CloseBegins PROVE Counted'
  OBVIOUS
<1>1. /\ FlightsType /\ CachesType /\ CallersType /\ WindowsType
      /\ current \in [Keys -> Started \cup {None}] /\ waiting \in 0..MaxWaiting
      /\ slots \in 0..Slots /\ phase \in {"open", "closing", "closed"}
      /\ Placed /\ WaitersCounted /\ SlotsCounted
  BY TypeParts DEF Counted
<1>2. /\ UNCHANGED <<current, cache, expired, waiting, slots, used, hour, caller>> /\ phase' = "closing"
      /\ flight' = [f \in Started |-> [flight[f] EXCEPT !.ended = EndedBy(f, "closed")]]
  BY DEF CloseBegins, limits
<1>3. \A f \in Started : flight[f] \in Flights
                        /\ EndedBy(f, "closed") \in {"deadline", "abandoned", "closed", "finished"}
  BY <1>1, Numbered, EndedByType
<1>4. \A f \in Started : /\ flight'[f] \in Flights /\ flight'[f].waiters = flight[f].waiters
                         /\ flight'[f].stage = flight[f].stage
  BY <1>2, <1>3 DEF Flights
<1>5. Started' = Started /\ FlightsType'
  <2>1. Started = 1..Len(flight) /\ Len(flight) \in Nat
    BY <1>1, Numbered
  <2>2. DOMAIN flight' = Started
    BY <1>2
  <2>3. flight' \in [1..Len(flight) -> Flights]
    BY <1>2, <1>4, <2>1
  <2>4. QED
    BY <2>1, <2>2, <2>3 DEF Started, FlightsType
<1>6. NobodyMoves
  BY <1>1, <1>2, <1>4, <1>5, CallersStay DEF NobodyMoves
<1>7. Placed' /\ WaitersCounted'
  BY <1>1, <1>6, NobodyMovesCounted
<1>8. Running' = Running
  BY <1>4, <1>5 DEF Running
<1>9. SlotsCounted' /\ WindowsType' /\ CachesType' /\ current' \in [Keys -> (Started \cup {None})']
  BY <1>1, <1>2, <1>5, <1>8 DEF SlotsCounted, WindowsType, CachesType, None, Owners, Kinds
<1>10. QED
  BY <1>1, <1>2, <1>5, <1>6, <1>7, <1>9, CountedParts DEF NobodyMoves

LEMMA CountedStep == Counted /\ [Next]_vars => Counted'
  BY LaunchCounted, JoinCounted, LeaveCounted, AcquireCounted, ReturnCounted, NeverRanCounted,
     SettleCounted, DeadlineCounted, LookUpCounted, WakeCounted, TimeCounted, CloseBeginsCounted,
     CloseEndsCounted DEF Next

LEMMA CountedInit == Init => Counted
<1> SUFFICES ASSUME Init PROVE Counted
  OBVIOUS
<1>1. flight = << >> /\ Started = {}
  BY DEF Init, Started
<1>2. FlightsType /\ CachesType /\ WindowsType /\ CallersType
      /\ current \in [Keys -> Started \cup {None}]
      /\ phase \in {"open", "closing", "closed"}
  BY <1>1, Limits DEF Init, FlightsType, CachesType, WindowsType, CallersType, CallerStates, Idle, Results
<1>3. waiting = 0 /\ slots = 0 /\ waiting \in 0..MaxWaiting /\ slots \in 0..Slots
  BY Limits DEF Init
<1>4. Inside = {} /\ Running = {} /\ Placed
  BY <1>1 DEF Init, Inside, Running, Placed, Idle
<1>5. WaitersCounted /\ SlotsCounted
  BY <1>1, <1>3, <1>4, FS_EmptySet DEF WaitersCounted, SlotsCounted
<1>6. QED
  BY <1>2, <1>3, <1>4, <1>5, TypeParts DEF Counted

LEMMA CountedAlways == Spec => []Counted
  BY CountedInit, CountedStep, PTL DEF Spec

\* Only a launch makes a flight current, and not when there are as many as allowed.
LEMMA FewActiveStep == FewActive /\ [Next]_vars => FewActive'
<1> SUFFICES ASSUME FewActive, [Next]_vars PROVE FewActive'
  OBVIOUS
<1>1. ASSUME NEW c \in Callers, NEW k \in Keys, Launch(c, k) PROVE FewActive'
  <2>1. k \notin Active /\ ~(Cardinality(Active) >= MaxFlights) /\ Active' \subseteq Active \cup {k}
    BY <1>1 DEF Launch, Full, Active
  <2>2. Cardinality(Active) \in Nat /\ MaxFlights \in Nat
    BY FS_CardinalityType, GatewayAssumption DEF FewActive
  <2>3. IsFiniteSet(Active \cup {k}) /\ Cardinality(Active \cup {k}) = Cardinality(Active) + 1
    BY <2>1, FS_AddElement DEF FewActive
  <2>4. IsFiniteSet(Active') /\ Cardinality(Active') <= Cardinality(Active \cup {k})
    BY <2>1, <2>3, FS_Subset
  <2>5. Cardinality(Active') \in Nat
    BY <2>4, FS_CardinalityType
  <2>6. QED
    BY <2>1, <2>2, <2>3, <2>4, <2>5 DEF FewActive
<1>2. CASE Active' \subseteq Active
  <2>1. IsFiniteSet(Active') /\ Cardinality(Active') <= Cardinality(Active)
    BY <1>2, FS_Subset DEF FewActive
  <2>2. Cardinality(Active) \in Nat /\ Cardinality(Active') \in Nat /\ MaxFlights \in Nat
    BY <2>1, FS_CardinalityType, GatewayAssumption DEF FewActive
  <2>3. QED
    BY <2>1, <2>2 DEF FewActive
<1>3. ASSUME NEW f \in Started, Settle(f) PROVE Active' \subseteq Active
  BY <1>3 DEF Settle, Active
<1>4. CASE current' = current
  BY <1>2, <1>4 DEF Active
<1>5. QED
  BY <1>1, <1>2, <1>3, <1>4
     DEF Next, vars, Hit, TurnAway, Join, GiveUp, Wake, Leave, Acquire, NeverRan, Deadline, Return,
         Expire, MinuteEnds, HourEnds, CloseBegins, CloseEnds

LEMMA FewActiveInit == Init => FewActive
<1> SUFFICES ASSUME Init PROVE FewActive
  OBVIOUS
<1>1. Active = {}
  BY DEF Init, Active
<1>2. QED
  BY <1>1, FS_EmptySet, GatewayAssumption DEF FewActive

(***************************************************************************)
(* The gateway keeps within its limits and counts every waiter and every   *)
(* slot exactly, however calls start, join, time out and leave.            *)
(***************************************************************************)
THEOREM CountersStayExact == Spec => []CountersExact
<1>1. Spec => []FewActive
  BY FewActiveInit, FewActiveStep, PTL DEF Spec
<1>2. QED
  BY <1>1, CountedAlways, CountedIsExact, PTL

-----------------------------------------------------------------------------
(***************************************************************************)
(* One flight for a key, its results kept, and nothing runs unwatched.     *)
(***************************************************************************)
OneFlight == \A f \in Started : flight[f].stage # "settled" <=> current[flight[f].key] = f
Pointing == \A k \in Keys : current[k] # None => flight[current[k]].key = k

\* What every step but a launch and a settling leaves of the flights.
Steady ==
  /\ current' = current /\ Started' = Started
  /\ \A f \in Started :
       /\ flight'[f].key = flight[f].key
       /\ flight'[f].stage = "settled" <=> flight[f].stage = "settled"
       /\ flight[f].stage = "settled" => flight'[f].outcome = flight[f].outcome
       /\ flight[f].ended # "no" => flight'[f].ended # "no"
       /\ flight'[f].waiters = 0 => flight[f].waiters = 0 \/ flight'[f].ended # "no"

\* One record replaced.
LEMMA SteadyRecord ==
  ASSUME FlightsType, NEW f \in Started, NEW rec, flight' = [flight EXCEPT ![f] = rec],
         current' = current,
         rec.key = flight[f].key,
         rec.stage = "settled" <=> flight[f].stage = "settled",
         flight[f].stage = "settled" => rec.outcome = flight[f].outcome,
         flight[f].ended # "no" => rec.ended # "no",
         rec.waiters = 0 => flight[f].waiters = 0 \/ rec.ended # "no"
  PROVE  Steady
<1>1. Started' = Started /\ flight'[f] = rec /\ \A g \in Started : g # f => flight'[g] = flight[g]
  BY DEF Started
<1>2. QED
  BY <1>1 DEF Steady

LEMMA JoinSteady ==
  ASSUME Counted, NEW c \in Callers, NEW k \in Keys, Join(c, k)
  PROVE  Steady
<1> DEFINE f == current[k]
           rec == [flight[f] EXCEPT !.waiters = @ + 1]
<1>1. FlightsType /\ f \in Started
  BY TypeParts DEF Counted, Join
<1>2. flight[f] \in Flights
  BY <1>1, Numbered
<1>3. flight[f].waiters \in Nat
  BY <1>2, Limits DEF Flights
<1>4. /\ rec.waiters # 0 /\ rec.key = flight[f].key /\ rec.stage = flight[f].stage
      /\ rec.ended = flight[f].ended /\ rec.outcome = flight[f].outcome
  BY <1>2, <1>3 DEF Flights
<1>5. flight' = [flight EXCEPT ![f] = rec] /\ current' = current
  BY DEF Join
<1> HIDE DEF rec
<1>6. PICK g \in Started : g = f
  BY <1>1
<1> HIDE DEF f
<1>7. QED
  BY <1>1, <1>4, <1>5, <1>6, SteadyRecord

LEMMA LeaveSteady ==
  ASSUME Counted, NEW c \in Callers, Leave(c)
  PROVE  Steady
<1> DEFINE f == caller[c].flight
           left == flight[f].waiters - 1
           rec == [flight[f] EXCEPT !.waiters = left,
                                    !.ended = IF left = 0 THEN EndedBy(f, "abandoned") ELSE @]
<1>1. FlightsType /\ f \in Started
  BY TypeParts, MayLeave DEF Counted, Leave
<1>2. flight[f] \in Flights /\ EndedBy(f, "abandoned") # "no"
  BY <1>1, Numbered, EndedByType
<1>3. /\ rec.key = flight[f].key /\ rec.stage = flight[f].stage /\ rec.outcome = flight[f].outcome
      /\ flight[f].ended # "no" => rec.ended # "no"
      /\ rec.waiters = 0 => rec.ended # "no"
  BY <1>2 DEF Flights
<1>4. flight' = [flight EXCEPT ![f] = rec] /\ current' = current
  BY DEF Leave
<1> HIDE DEF rec
<1>5. PICK g \in Started : g = f
  BY <1>1
<1> HIDE DEF f
<1>6. QED
  BY <1>1, <1>3, <1>4, <1>5, SteadyRecord

LEMMA GoroutineSteady ==
  ASSUME Counted, NEW f \in Started,
         \/ Acquire(f) \/ NeverRan(f) \/ Deadline(f)
         \/ \E outcome \in {"ok", "failed"} : Return(f, outcome)
  PROVE  Steady
<1>1. FlightsType /\ flight[f] \in Flights
  BY TypeParts, Numbered DEF Counted
<1>2. current' = current
  BY DEF Acquire, NeverRan, Deadline, Return
<1>3. CASE Acquire(f)
  <2> DEFINE rec == [flight[f] EXCEPT !.stage = "running"]
  <2>1. flight' = [flight EXCEPT ![f] = rec] /\ flight[f].stage = "queued"
    BY <1>3 DEF Acquire
  <2>2. /\ rec.key = flight[f].key /\ rec.stage # "settled" /\ rec.ended = flight[f].ended
        /\ rec.waiters = flight[f].waiters
    BY <1>1 DEF Flights
  <2> HIDE DEF rec
  <2>3. QED
    BY <1>1, <1>2, <2>1, <2>2, SteadyRecord
<1>4. CASE NeverRan(f)
  <2> DEFINE rec == [flight[f] EXCEPT !.stage = "returned", !.outcome = Timeout]
  <2>1. flight' = [flight EXCEPT ![f] = rec] /\ flight[f].stage = "queued"
    BY <1>4 DEF NeverRan
  <2>2. /\ rec.key = flight[f].key /\ rec.stage # "settled" /\ rec.ended = flight[f].ended
        /\ rec.waiters = flight[f].waiters
    BY <1>1 DEF Flights
  <2> HIDE DEF rec
  <2>3. QED
    BY <1>1, <1>2, <2>1, <2>2, SteadyRecord
<1>5. CASE Deadline(f)
  <2> DEFINE rec == [flight[f] EXCEPT !.ended = "deadline"]
  <2>1. flight' = [flight EXCEPT ![f] = rec]
    BY <1>5 DEF Deadline
  <2>2. /\ rec.key = flight[f].key /\ rec.stage = flight[f].stage /\ rec.ended # "no"
        /\ rec.outcome = flight[f].outcome
    BY <1>1 DEF Flights
  <2> HIDE DEF rec
  <2>3. QED
    BY <1>1, <1>2, <2>1, <2>2, SteadyRecord
<1>6. ASSUME NEW outcome \in {"ok", "failed"}, Return(f, outcome) PROVE Steady
  <2> DEFINE rec == [flight[f] EXCEPT !.stage = "returned",
                                      !.outcome = IF flight[f].ended # "no" THEN Timeout ELSE outcome]
  <2>1. flight' = [flight EXCEPT ![f] = rec] /\ flight[f].stage = "running"
    BY <1>6 DEF Return
  <2>2. /\ rec.key = flight[f].key /\ rec.stage # "settled" /\ rec.ended = flight[f].ended
        /\ rec.waiters = flight[f].waiters
    BY <1>1 DEF Flights
  <2> HIDE DEF rec
  <2>3. QED
    BY <1>1, <1>2, <2>1, <2>2, SteadyRecord
<1>7. QED
  BY <1>3, <1>4, <1>5, <1>6

LEMMA CloseBeginsSteady == Counted /\ CloseBegins => Steady
<1> SUFFICES ASSUME Counted, CloseBegins PROVE Steady
  OBVIOUS
<1>1. FlightsType /\ \A f \in Started : flight[f] \in Flights
                        /\ EndedBy(f, "closed") \in {"deadline", "abandoned", "closed", "finished"}
  BY TypeParts, Numbered, EndedByType DEF Counted
<1>2. /\ current' = current
      /\ flight' = [f \in Started |-> [flight[f] EXCEPT !.ended = EndedBy(f, "closed")]]
  BY DEF CloseBegins
<1>3. Started' = Started
  BY <1>2 DEF Started
<1>4. \A f \in Started :
        /\ flight'[f].key = flight[f].key /\ flight'[f].stage = flight[f].stage
        /\ flight'[f].outcome = flight[f].outcome /\ flight'[f].ended # "no"
  BY <1>1, <1>2 DEF Flights
<1>5. QED
  BY <1>2, <1>3, <1>4 DEF Steady

LEMMA FlightSteps ==
  ASSUME Counted, [Next]_vars
  PROVE  \/ \E c \in Callers, k \in Keys : Launch(c, k)
         \/ \E f \in Started : Settle(f)
         \/ Steady
<1>1. CASE flight' = flight /\ current' = current
  BY <1>1 DEF Steady, Started
<1>2. CASE \/ \E c \in Callers, k \in Keys : Hit(c, k) \/ TurnAway(c, k)
           \/ \E c \in Callers : GiveUp(c) \/ Wake(c)
           \/ \E k \in Keys : Expire(k)
           \/ \E o \in Owners : MinuteEnds(o)
           \/ HourEnds \/ CloseEnds \/ UNCHANGED vars
  BY <1>1, <1>2 DEF Hit, TurnAway, GiveUp, Wake, Expire, MinuteEnds, HourEnds, CloseEnds, vars
<1>3. QED
  BY <1>2, JoinSteady, LeaveSteady, GoroutineSteady, CloseBeginsSteady DEF Next

\* The record a launch adds and the one a settling leaves.
LEMMA LaunchIs ==
  ASSUME Counted, NEW c \in Callers, NEW k \in Keys, Launch(c, k)
  PROVE  \E f :
           /\ f \notin Started /\ f # None /\ Started' = Started \cup {f}
           /\ \A g \in Started : flight'[g] = flight[g]
           /\ flight'[f].key = k /\ flight'[f].stage = "queued" /\ flight'[f].waiters = 1
           /\ current \in [Keys -> Started \cup {None}] /\ current[k] = None
           /\ current' = [current EXCEPT ![k] = f]
<1> DEFINE f == Len(flight) + 1
           rec == [key |-> k, stage |-> "queued", ended |-> "no", waiters |-> 1, outcome |-> "none"]
<1>1. FlightsType /\ current \in [Keys -> Started \cup {None}]
  BY TypeParts DEF Counted
<1>2. rec \in Flights /\ rec.key = k /\ rec.stage = "queued" /\ rec.waiters = 1
  BY Limits DEF Flights
<1>3. flight' = Append(flight, rec) /\ current' = [current EXCEPT ![k] = f] /\ current[k] = None
  BY DEF Launch
<1> HIDE DEF rec
<1>4. /\ Started' = Started \cup {f} /\ f \notin Started
      /\ flight'[f] = rec /\ \A g \in Started : flight'[g] = flight[g]
  BY <1>1, <1>2, <1>3, AppendIs
<1>5. f # None
  BY <1>1, Numbered DEF None
<1> HIDE DEF f
<1>6. QED
  BY <1>1, <1>2, <1>3, <1>4, <1>5

LEMMA SettleIs ==
  ASSUME Counted, NEW f \in Started, Settle(f)
  PROVE  /\ Started' = Started /\ \A g \in Started : g # f => flight'[g] = flight[g]
         /\ flight[f].stage = "returned" /\ flight[f].key \in Keys
         /\ flight'[f].key = flight[f].key /\ flight'[f].stage = "settled"
         /\ flight'[f].outcome = flight[f].outcome /\ flight'[f].ended # "no"
         /\ current \in [Keys -> Started \cup {None}] /\ f # None
         /\ current' = IF current[flight[f].key] = f THEN [current EXCEPT ![flight[f].key] = None] ELSE current
<1>1. FlightsType /\ current \in [Keys -> Started \cup {None}]
  BY TypeParts DEF Counted
<1>2. /\ flight[f].stage = "returned"
      /\ flight' = [flight EXCEPT ![f].stage = "settled", ![f].ended = EndedBy(f, "finished")]
      /\ current' = IF current[flight[f].key] = f THEN [current EXCEPT ![flight[f].key] = None] ELSE current
  BY DEF Settle
<1>3. flight[f] \in Flights /\ EndedBy(f, "finished") # "no" /\ f # None
  BY <1>1, Numbered, EndedByType
<1>4. Started' = Started
  BY <1>2 DEF Started
<1>5. /\ \A g \in Started : g # f => flight'[g] = flight[g]
      /\ flight'[f] = [flight[f] EXCEPT !.stage = "settled", !.ended = EndedBy(f, "finished")]
  BY <1>2 DEF Started
<1>6. /\ flight'[f].key = flight[f].key /\ flight'[f].stage = "settled"
      /\ flight'[f].outcome = flight[f].outcome /\ flight'[f].ended # "no" /\ flight[f].key \in Keys
  BY <1>3, <1>5 DEF Flights
<1>7. QED
  BY <1>1, <1>2, <1>3, <1>4, <1>5, <1>6

LEMMA OneFlightStep ==
  Counted /\ OneFlight /\ Pointing /\ [Next]_vars => OneFlight' /\ Pointing'
<1> SUFFICES ASSUME Counted, OneFlight, Pointing, [Next]_vars PROVE OneFlight' /\ Pointing'
  OBVIOUS
<1>1. FlightsType /\ current \in [Keys -> Started \cup {None}] /\ None \notin Started
      /\ \A f \in Started : flight[f].key \in Keys
  BY TypeParts, Numbered DEF Counted, Flights
<1>2. ASSUME NEW c \in Callers, NEW k \in Keys, Launch(c, k) PROVE OneFlight' /\ Pointing'
  <2>1. PICK f :
           /\ f \notin Started /\ f # None /\ Started' = Started \cup {f}
           /\ \A g \in Started : flight'[g] = flight[g]
           /\ flight'[f].key = k /\ flight'[f].stage = "queued" /\ flight'[f].waiters = 1
           /\ current[k] = None
           /\ current' = [current EXCEPT ![k] = f]
    BY <1>2, LaunchIs
  <2>2. current'[k] = f /\ \A x \in Keys : x # k => current'[x] = current[x]
    BY <1>1, <2>1
  <2>3. ASSUME NEW g \in Started' PROVE flight'[g].stage # "settled" <=> current'[flight'[g].key] = g
    <3>1. CASE g = f
      BY <2>1, <2>2, <3>1
    <3>2. CASE g # f
      <4>1. g \in Started /\ flight'[g] = flight[g] /\ flight[g].key \in Keys /\ g # None
        BY <1>1, <2>1, <3>2
      <4>2. CASE flight[g].key = k
        BY <2>1, <2>2, <3>2, <4>1, <4>2 DEF OneFlight
      <4>3. CASE flight[g].key # k
        BY <2>2, <4>1, <4>3 DEF OneFlight
      <4>4. QED
        BY <4>2, <4>3
    <3>3. QED
      BY <3>1, <3>2
  <2>4. ASSUME NEW x \in Keys, current'[x] # None PROVE flight'[current'[x]].key = x
    <3>1. CASE x = k
      BY <2>1, <2>2, <3>1
    <3>2. CASE x # k
      <4>1. current[x] \in Started /\ current'[x] = current[x]
        BY <1>1, <2>2, <2>4, <3>2
      <4>2. QED
        BY <2>1, <2>4, <4>1 DEF Pointing
    <3>3. QED
      BY <3>1, <3>2
  <2>5. QED
    BY <2>3, <2>4 DEF OneFlight, Pointing
<1>3. ASSUME NEW f \in Started, Settle(f) PROVE OneFlight' /\ Pointing'
  <2> DEFINE k == flight[f].key
  <2>1. /\ Started' = Started /\ \A g \in Started : g # f => flight'[g] = flight[g]
        /\ flight[f].stage = "returned" /\ k \in Keys
        /\ flight'[f].key = k /\ flight'[f].stage = "settled" /\ f # None
        /\ current' = IF current[k] = f THEN [current EXCEPT ![k] = None] ELSE current
    BY <1>3, SettleIs
  <2>2. current[k] = f
    BY <2>1 DEF OneFlight
  <2>3. current'[k] = None /\ \A x \in Keys : x # k => current'[x] = current[x]
    BY <1>1, <2>1, <2>2
  <2>4. ASSUME NEW g \in Started PROVE flight'[g].stage # "settled" <=> current'[flight'[g].key] = g
    <3>1. CASE g = f
      BY <2>1, <2>3, <3>1
    <3>2. CASE g # f
      <4>1. flight'[g] = flight[g] /\ flight[g].key \in Keys /\ g # None
        BY <1>1, <2>1, <3>2
      <4>2. CASE flight[g].key = k
        BY <2>2, <2>3, <3>2, <4>1, <4>2 DEF OneFlight
      <4>3. CASE flight[g].key # k
        BY <2>3, <4>1, <4>3 DEF OneFlight
      <4>4. QED
        BY <4>2, <4>3
    <3>3. QED
      BY <3>1, <3>2
  <2>5. ASSUME NEW x \in Keys, current'[x] # None PROVE flight'[current'[x]].key = x
    <3>1. x # k /\ current'[x] = current[x] /\ current[x] \in Started
      BY <1>1, <2>3, <2>5
    <3>2. flight[current[x]].key = x
      BY <2>5, <3>1 DEF Pointing
    <3>3. current[x] # f
      BY <3>1, <3>2
    <3>4. QED
      BY <2>1, <3>1, <3>2, <3>3
  <2>6. QED
    BY <2>1, <2>4, <2>5 DEF OneFlight, Pointing
<1>4. CASE Steady
  <2>1. OneFlight'
    BY <1>4 DEF Steady, OneFlight
  <2>2. Pointing'
    BY <1>1, <1>4 DEF Steady, Pointing
  <2>3. QED
    BY <2>1, <2>2
<1>5. QED
  BY <1>2, <1>3, <1>4, FlightSteps

LEMMA AbandonedStep == Counted /\ AbandonedIsCancelled /\ [Next]_vars => AbandonedIsCancelled'
<1> SUFFICES ASSUME Counted, AbandonedIsCancelled, [Next]_vars PROVE AbandonedIsCancelled'
  OBVIOUS
<1>1. ASSUME NEW c \in Callers, NEW k \in Keys, Launch(c, k) PROVE AbandonedIsCancelled'
  <2>1. PICK f :
           /\ Started' = Started \cup {f}
           /\ \A g \in Started : flight'[g] = flight[g]
           /\ flight'[f].waiters = 1
    BY <1>1, LaunchIs
  <2>2. QED
    BY <2>1 DEF AbandonedIsCancelled
<1>2. ASSUME NEW f \in Started, Settle(f) PROVE AbandonedIsCancelled'
  BY <1>2, SettleIs DEF AbandonedIsCancelled
<1>3. CASE Steady
  BY <1>3 DEF Steady, AbandonedIsCancelled
<1>4. QED
  BY <1>1, <1>2, <1>3, FlightSteps

(***************************************************************************)
(* A flight nobody waits for has been cancelled, or had ended before.      *)
(***************************************************************************)
THEOREM AbandonedFlightsAreCancelled == Spec => []AbandonedIsCancelled
<1>1. Init => AbandonedIsCancelled
  BY DEF Init, AbandonedIsCancelled, Started
<1>2. QED
  BY <1>1, AbandonedStep, CountedAlways, PTL DEF Spec

-----------------------------------------------------------------------------
(***************************************************************************)
(* What the caches hold.                                                   *)
(***************************************************************************)
Kept(k) == \E f \in Started : flight[f].key = k /\ flight[f].stage = "settled" /\ flight[f].outcome = "ok"
EntriesDistinct == \A kind \in Kinds : Distinct(cache[kind])
EntriesKept == \A k \in Keys : Holds(k) => Kept(k)
ExpiredHeld == \A k \in expired : Holds(k)
ClosedEmpty == phase = "closed" => \A k \in Keys : ~Holds(k) /\ current[k] = None
Entries == EntriesDistinct /\ EntriesKept /\ ExpiredHeld /\ ClosedEmpty
Joined == Counted /\ OneFlight /\ Pointing

LEMMA EntriesAreSound == Counted /\ OneFlight /\ Entries => Coalesced
<1> SUFFICES ASSUME Counted, OneFlight, Entries PROVE Coalesced
  OBVIOUS
<1>1. \A kind \in Kinds, i, j \in 1..CacheEntries :
        (i \in DOMAIN cache[kind] /\ j \in DOMAIN cache[kind] /\ cache[kind][i] = cache[kind][j]) => i = j
  BY DEF Entries, EntriesDistinct, Distinct
<1>2. QED
  BY <1>1 DEF Coalesced, OneFlight, CacheSound, Entries, EntriesKept, ExpiredHeld, ClosedEmpty, Kept

\* A result once kept is of a flight that stays settled.
LEMMA KeptStays ==
  ASSUME Counted, [Next]_vars, NEW k \in Keys, Kept(k)
  PROVE  Kept(k)'
<1>1. PICK f \in Started : flight[f].key = k /\ flight[f].stage = "settled" /\ flight[f].outcome = "ok"
  BY DEF Kept
<1>2. /\ f \in Started' /\ flight'[f].key = k /\ flight'[f].stage = "settled"
      /\ flight'[f].outcome = "ok"
  <2>1. ASSUME NEW c \in Callers, NEW x \in Keys, Launch(c, x) PROVE f \in Started' /\ flight'[f].key = k /\ flight'[f].stage = "settled" /\ flight'[f].outcome = "ok"
    BY <1>1, <2>1, LaunchIs
  <2>2. ASSUME NEW g \in Started, Settle(g) PROVE f \in Started' /\ flight'[f].key = k /\ flight'[f].stage = "settled" /\ flight'[f].outcome = "ok"
    BY <1>1, <2>2, SettleIs
  <2>3. CASE Steady
    BY <1>1, <2>3 DEF Steady
  <2>4. QED
    BY <2>1, <2>2, <2>3, FlightSteps
<1>3. QED
  BY <1>2 DEF Kept

\* One list replaced by one whose keys are those of the old, and perhaps k.
LEMMA OneListReplaced ==
  ASSUME CachesType, NEW k \in Keys, NEW t, cache' = [cache EXCEPT ![KindOf[k]] = t]
  PROVE  /\ Distinct(t) /\ EntriesDistinct => EntriesDistinct'
         /\ \A x \in Keys : /\ KindOf[x] = KindOf[k] => (Holds(x)' <=> Has(t, x))
                            /\ KindOf[x] # KindOf[k] => (Holds(x)' <=> Holds(x))
<1>1. cache'[KindOf[k]] = t /\ \A kind \in Kinds : kind # KindOf[k] => cache'[kind] = cache[kind]
  BY KindType DEF CachesType
<1>2. Distinct(t) /\ EntriesDistinct => EntriesDistinct'
  <2>1. SUFFICES ASSUME Distinct(t), EntriesDistinct, NEW kind \in Kinds PROVE Distinct(cache'[kind])
    BY DEF EntriesDistinct, Distinct
  <2>2. QED
    BY <1>1, <2>1 DEF EntriesDistinct, Distinct
<1>3. \A x \in Keys : /\ KindOf[x] = KindOf[k] => (Holds(x)' <=> Has(t, x))
                      /\ KindOf[x] # KindOf[k] => (Holds(x)' <=> Holds(x))
  BY <1>1, KindType DEF Holds, Has
<1>4. QED
  BY <1>2, <1>3

\* A look-up keeps every other key where it was.
LEMMA MissesEntries ==
  ASSUME CachesType, NEW c \in Callers, NEW k \in Keys, Misses(c, k),
         EntriesDistinct, ExpiredHeld
  PROVE  EntriesDistinct' /\ ExpiredHeld' /\ \A x \in Keys : Holds(x)' => Holds(x)
<1> DEFINE s == cache[KindOf[k]]
           o == Others(s, k)
<1>1. s \in Seq(Keys) /\ Distinct(s)
  BY KindType DEF CachesType, EntriesDistinct
<1>2. /\ \A x \in Keys : Has(o, x) => Has(s, x)
      /\ \A x \in Keys : x # k /\ Has(s, x) => Has(o, x)
      /\ Distinct(o)
  BY <1>1, OthersAre
<1>3. cache' = [cache EXCEPT ![KindOf[k]] = o] /\ expired' = expired \ {k}
  BY DEF Misses
<1>4. \A x \in Keys : KindOf[x] = KindOf[k] => (Holds(x) <=> Has(s, x))
  BY DEF Holds
<1> HIDE DEF o, s
<1>5. /\ EntriesDistinct'
      /\ \A x \in Keys : /\ KindOf[x] = KindOf[k] => (Holds(x)' <=> Has(o, x))
                         /\ KindOf[x] # KindOf[k] => (Holds(x)' <=> Holds(x))
  BY <1>2, <1>3, OneListReplaced
<1>6. \A x \in Keys : (Holds(x)' => Holds(x)) /\ (x # k /\ Holds(x) => Holds(x)')
  BY <1>2, <1>4, <1>5
<1>7. ExpiredHeld'
  <2>1. \A x \in expired' : x \in Keys /\ x \in expired /\ x # k
    BY <1>3 DEF CachesType
  <2>2. QED
    BY <1>6, <2>1 DEF ExpiredHeld
<1>8. QED
  BY <1>5, <1>6, <1>7

LEMMA HitEntries ==
  ASSUME CachesType, NEW c \in Callers, NEW k \in Keys, Hit(c, k),
         EntriesDistinct, ExpiredHeld
  PROVE  EntriesDistinct' /\ ExpiredHeld' /\ \A x \in Keys : Holds(x)' <=> Holds(x)
<1> DEFINE s == cache[KindOf[k]]
           o == Others(s, k)
           t == <<k>> \o o
<1>1. s \in Seq(Keys) /\ Distinct(s)
  BY KindType DEF CachesType, EntriesDistinct
<1>2. /\ o \in Seq(Keys)
      /\ \A x \in Keys : Has(o, x) => Has(s, x)
      /\ \A x \in Keys : x # k /\ Has(s, x) => Has(o, x)
      /\ Distinct(o) /\ ~Has(o, k)
  BY <1>1, OthersAre
<1>3. cache' = [cache EXCEPT ![KindOf[k]] = t] /\ expired' = expired /\ Has(s, k)
  BY DEF Hit, Holds
<1>4. \A x \in Keys : KindOf[x] = KindOf[k] => (Holds(x) <=> Has(s, x))
  BY DEF Holds
<1> HIDE DEF o
<1>5. Distinct(t) /\ \A x \in Keys : Has(t, x) <=> x = k \/ Has(o, x)
  BY <1>2, FrontIs
<1> HIDE DEF s, t
<1>6. /\ EntriesDistinct'
      /\ \A x \in Keys : /\ KindOf[x] = KindOf[k] => (Holds(x)' <=> Has(t, x))
                         /\ KindOf[x] # KindOf[k] => (Holds(x)' <=> Holds(x))
  BY <1>3, <1>5, OneListReplaced
<1>7. \A x \in Keys : Holds(x)' <=> Holds(x)
  BY <1>2, <1>3, <1>4, <1>5, <1>6
<1>8. ExpiredHeld'
  BY <1>3, <1>7 DEF ExpiredHeld, CachesType
<1>9. QED
  BY <1>6, <1>7, <1>8

\* A flight that settles adds its key at most, and only for a success.
LEMMA SettleEntries ==
  ASSUME FlightsType, CachesType, NEW f \in Started, Settle(f), EntriesDistinct, ExpiredHeld
  PROVE  /\ EntriesDistinct' /\ ExpiredHeld'
         /\ \A x \in Keys : Holds(x)' => Holds(x) \/ (x = flight[f].key /\ flight[f].outcome = "ok")
<1> DEFINE k == flight[f].key
           s == cache[KindOf[k]]
<1>1. k \in Keys
  BY Numbered DEF Flights
<1>2. s \in Seq(Keys) /\ Distinct(s)
  BY <1>1, KindType DEF CachesType, EntriesDistinct
<1>3. \A u \in Stored(s, k) : (\A x \in Keys : Has(u, x) => x = k \/ Has(s, x)) /\ Distinct(u)
  BY <1>1, <1>2, StoredIs
<1>4. \/ UNCHANGED <<cache, expired>>
      \/ /\ flight[f].outcome = "ok"
         /\ \E u \in Stored(s, k) : cache' = [cache EXCEPT ![KindOf[k]] = u]
         /\ \A x \in expired' : Has(cache'[KindOf[x]], x)
  BY DEF Settle
<1>5. ExpiredHeld'
  <2>1. CASE UNCHANGED <<cache, expired>>
    BY <2>1 DEF ExpiredHeld, Holds
  <2>2. CASE \A x \in expired' : Has(cache'[KindOf[x]], x)
    BY <2>2 DEF ExpiredHeld, Holds
  <2>3. QED
    BY <1>4, <2>1, <2>2
<1>6. \A x \in Keys : KindOf[x] = KindOf[k] => (Holds(x) <=> Has(s, x))
  BY DEF Holds
<1>7. CASE cache' = cache
  BY <1>5, <1>7 DEF EntriesDistinct, Holds
<1>8. ASSUME NEW u \in Stored(s, k), cache' = [cache EXCEPT ![KindOf[k]] = u], flight[f].outcome = "ok"
      PROVE  /\ EntriesDistinct' /\ ExpiredHeld'
             /\ \A x \in Keys : Holds(x)' => Holds(x) \/ (x = k /\ flight[f].outcome = "ok")
  <2> HIDE DEF s
  <2>1. PICK key \in Keys : key = k
    BY <1>1
  <2> HIDE DEF k
  <2>2. /\ EntriesDistinct'
        /\ \A x \in Keys : /\ KindOf[x] = KindOf[key] => (Holds(x)' <=> Has(u, x))
                           /\ KindOf[x] # KindOf[key] => (Holds(x)' <=> Holds(x))
    BY <1>3, <1>8, <2>1, OneListReplaced
  <2>3. \A x \in Keys : Holds(x)' => Holds(x) \/ x = k
    BY <1>3, <1>6, <2>1, <2>2
  <2>4. QED
    BY <1>5, <1>8, <2>2, <2>3 DEF k
<1>9. QED
  BY <1>4, <1>7, <1>8

\* A launch, a join or a turning away looks the key up first, in an open gateway.
LookUp == \E c \in Callers, k \in Keys : TurnAway(c, k) \/ Launch(c, k) \/ Join(c, k)

LEMMA EntriesSteps ==
  ASSUME [Next]_vars
  PROVE  \/ LookUp
         \/ \E c \in Callers, k \in Keys : Hit(c, k)
         \/ \E f \in Started : Settle(f)
         \/ \E k \in Keys : Expire(k)
         \/ CloseEnds
         \/ /\ UNCHANGED <<current, cache, expired>>
            /\ phase' = phase \/ phase' = "closing"
<1>1. CASE \/ \E c \in Callers : GiveUp(c) \/ Wake(c) \/ Leave(c)
           \/ \E f \in Started : Acquire(f) \/ NeverRan(f) \/ Deadline(f)
           \/ \E f \in Started, outcome \in {"ok", "failed"} : Return(f, outcome)
           \/ \E o \in Owners : MinuteEnds(o)
           \/ HourEnds \/ CloseBegins \/ UNCHANGED vars
  BY <1>1 DEF GiveUp, Wake, Leave, Acquire, NeverRan, Deadline, Return, MinuteEnds, HourEnds,
              CloseBegins, vars
<1>2. QED
  BY <1>1 DEF Next, LookUp

LEMMA EntriesStep ==
  Joined /\ Entries /\ [Next]_vars => Entries'
<1> SUFFICES ASSUME Joined, Entries, [Next]_vars PROVE Entries'
  OBVIOUS
<1>1. /\ FlightsType /\ CachesType /\ current \in [Keys -> Started \cup {None}]
      /\ None \notin Started /\ \A f \in Started : flight[f].key \in Keys
  BY TypeParts, Numbered DEF Joined, Counted, Flights
<1>2. \A k \in Keys : Kept(k) => Kept(k)'
  BY KeptStays DEF Joined
<1>3. CASE LookUp
  <2>1. PICK c \in Callers, k \in Keys : Misses(c, k)
    BY <1>3 DEF LookUp, TurnAway, Launch, Join
  <2>2. phase' # "closed"
    BY <1>3 DEF LookUp, TurnAway, Launch, Join, Misses
  <2>3. EntriesDistinct' /\ ExpiredHeld' /\ \A x \in Keys : Holds(x)' => Holds(x)
    BY <1>1, <2>1, MissesEntries DEF Entries
  <2>4. QED
    BY <1>2, <2>2, <2>3 DEF Entries, EntriesKept, ClosedEmpty
<1>4. ASSUME NEW c \in Callers, NEW k \in Keys, Hit(c, k) PROVE Entries'
  <2>1. phase' # "closed"
    BY <1>4 DEF Hit
  <2>2. EntriesDistinct' /\ ExpiredHeld' /\ \A x \in Keys : Holds(x)' <=> Holds(x)
    BY <1>1, <1>4, HitEntries DEF Entries
  <2>3. QED
    BY <1>2, <2>1, <2>2 DEF Entries, EntriesKept, ClosedEmpty
<1>5. ASSUME NEW f \in Started, Settle(f) PROVE Entries'
  <2>1. /\ EntriesDistinct' /\ ExpiredHeld'
        /\ \A x \in Keys : Holds(x)' => Holds(x) \/ (x = flight[f].key /\ flight[f].outcome = "ok")
    BY <1>1, <1>5, SettleEntries DEF Entries
  <2>2. /\ f \in Started' /\ flight[f].stage = "returned" /\ flight'[f].key = flight[f].key
        /\ flight'[f].stage = "settled" /\ flight'[f].outcome = flight[f].outcome
    BY <1>5, SettleIs DEF Joined
  <2>3. \A x \in Keys : x = flight[f].key /\ flight[f].outcome = "ok" => Kept(x)'
    BY <2>2 DEF Kept
  <2>4. EntriesKept'
    BY <1>2, <2>1, <2>3 DEF Entries, EntriesKept
  <2>5. current[flight[f].key] = f /\ f # None /\ flight[f].key \in Keys
    BY <1>1, <2>2 DEF Joined, OneFlight
  <2>6. phase # "closed" /\ phase' = phase
    BY <1>5, <2>5 DEF Entries, ClosedEmpty, Settle
  <2>7. QED
    BY <2>1, <2>4, <2>6 DEF Entries, ClosedEmpty
<1>6. ASSUME NEW k \in Keys, Expire(k) PROVE Entries'
  <2>1. UNCHANGED <<current, cache, phase>> /\ expired' = expired \cup {k} /\ Holds(k)
    BY <1>6 DEF Expire
  <2>2. EntriesDistinct' /\ \A x : Holds(x)' <=> Holds(x)
    BY <2>1 DEF Entries, EntriesDistinct, Holds
  <2>3. QED
    BY <1>2, <2>1, <2>2 DEF Entries, EntriesKept, ExpiredHeld, ClosedEmpty
<1>7. CASE CloseEnds
  <2>1. /\ cache' = [kind \in Kinds |-> << >>] /\ expired' = {} /\ current' = current
        /\ \A f \in Started : flight[f].stage = "settled"
    BY <1>7 DEF CloseEnds
  <2>2. EntriesDistinct' /\ \A k \in Keys : ~Holds(k)'
    BY <2>1, KindType DEF EntriesDistinct, Distinct, Holds, Has
  <2>3. ASSUME NEW k \in Keys PROVE current[k] = None
    <3>1. SUFFICES ASSUME current[k] # None PROVE FALSE
      OBVIOUS
    <3>2. current[k] \in Started /\ flight[current[k]].key = k
      BY <1>1, <3>1 DEF Joined, Pointing
    <3>3. QED
      BY <2>1, <3>2 DEF Joined, OneFlight
  <2>4. QED
    BY <2>1, <2>2, <2>3 DEF Entries, EntriesKept, ExpiredHeld, ClosedEmpty
<1>8. CASE /\ UNCHANGED <<current, cache, expired>>
           /\ phase' = phase \/ phase' = "closing"
  <2>1. EntriesDistinct' /\ \A x : Holds(x)' <=> Holds(x)
    BY <1>8 DEF Entries, EntriesDistinct, Holds
  <2>2. QED
    BY <1>2, <1>8, <2>1 DEF Entries, EntriesKept, ExpiredHeld, ClosedEmpty
<1>9. QED
  BY <1>3, <1>4, <1>5, <1>6, <1>7, <1>8, EntriesSteps

LEMMA JoinedInit == Init => OneFlight /\ Pointing /\ Entries
<1> SUFFICES ASSUME Init PROVE OneFlight /\ Pointing /\ Entries
  OBVIOUS
<1>1. /\ Started = {} /\ current = [k \in Keys |-> None]
      /\ cache = [kind \in Kinds |-> << >>] /\ expired = {} /\ phase = "open"
  BY DEF Init, Started
<1>2. EntriesDistinct /\ \A k \in Keys : ~Holds(k)
  BY <1>1, KindType DEF EntriesDistinct, Distinct, Holds, Has
<1>3. QED
  BY <1>1, <1>2 DEF OneFlight, Pointing, Entries, EntriesKept, ExpiredHeld, ClosedEmpty

(***************************************************************************)
(* Identical work shares one flight, and only its success is kept.         *)
(***************************************************************************)
THEOREM CallsAreCoalesced == Spec => []Coalesced
<1>1. Joined /\ [Next]_vars => OneFlight' /\ Pointing'
  BY OneFlightStep DEF Joined
<1>2. Joined /\ Entries => Coalesced
  BY EntriesAreSound DEF Joined
<1>3. QED
  BY <1>1, <1>2, EntriesStep, JoinedInit, CountedAlways, PTL DEF Spec, Joined
==============================================================================
