------------------------------- MODULE Gateway -------------------------------
(***************************************************************************)
(* The learning gateway between request handlers and the AI provider:      *)
(* identical calls share one upstream flight, results are cached, and      *)
(* everything is bounded - flights, waiters, provider slots, cache entries *)
(* and the calls an owner may start.  An action is what a handler or a     *)
(* flight's goroutine does in one hold of Gateway.mu; the waits between    *)
(* two holds are where the others get in.                                  *)
(***************************************************************************)
EXTENDS Integers, Sequences, FiniteSets

CONSTANTS
  Callers,          \* request handlers, each of which may call again and again
  Keys,             \* hashes of identical work
  KindOf,           \* Key -> which cache: "audio" or "text"
  OwnerOf,          \* Caller -> the participant or operator charged for a new flight
  MaxWaiting,       \* waiters in all (32)
  MaxWaiters,       \* waiters of one flight (16)
  MaxFlights,       \* flights at once (8)
  Slots,            \* provider calls at once (2)
  CacheEntries,     \* entries of a cache (32 audio, 128 text)
  OwnerCap,         \* flights an owner may start a minute (3, 6 or 12)
  WindowCap,        \* owners with an open window (2048)
  HourCap,          \* flights started an hour (100)
  MaxStarted        \* bound: flights ever started

\* The limits are counts, and a flight has room for the caller that starts it.
ASSUME GatewayAssumption ==
  /\ IsFiniteSet(Callers)
  /\ KindOf \in [Keys -> {"audio", "text"}]
  /\ MaxWaiting \in Nat /\ MaxWaiters \in Nat \ {0} /\ MaxFlights \in Nat /\ Slots \in Nat
  /\ CacheEntries \in Nat /\ OwnerCap \in Nat /\ WindowCap \in Nat /\ HourCap \in Nat
  /\ MaxStarted \in Nat

Kinds == {"audio", "text"}
None == 0
Timeout == "AI_TIMEOUT"

VARIABLES
  flight,           \* every flight ever started, by number
  current,          \* Gateway.flights: Key -> flight number or None
  cache,            \* Kind -> its keys, most recently used first
  expired,          \* keys whose entry has outlived its 24 hours
  waiting,          \* Gateway.waiting
  slots,            \* provider slots taken
  used, hour,       \* windows: flights started per owner this minute, and this hour
  caller,           \* Caller -> [pc, flight, result]
  phase             \* open, closing (root cancelled), closed (Close has returned)

vars == <<flight, current, cache, expired, waiting, slots, used, hour, caller, phase>>
limits == <<used, hour>>

Started == DOMAIN flight
Owners == {OwnerOf[c] : c \in Callers}
Idle == [pc |-> "idle", flight |-> None, result |-> "none"]
Has(entries, k) == \E i \in DOMAIN entries : entries[i] = k
\* list.Remove of the key's element; a key that has none leaves the list alone.
Others(s, k) ==
  LET at == CHOOSE i \in DOMAIN s : s[i] = k IN
  IF Has(s, k) THEN [i \in 1..(Len(s) - 1) |-> IF i < at THEN s[i] ELSE s[i + 1]] ELSE s
Holds(k) == Has(cache[KindOf[k]], k)
Active == {k \in Keys : current[k] # None}

Init ==
  /\ flight = << >>
  /\ current = [k \in Keys |-> None]
  /\ cache = [kind \in Kinds |-> << >>] /\ expired = {}
  /\ waiting = 0 /\ slots = 0
  /\ used = [o \in Owners |-> 0] /\ hour = 0
  /\ caller = [c \in Callers |-> Idle]
  /\ phase = "open"
-----------------------------------------------------------------------------
(* Gateway.Call, first hold of the lock *)

\* A usable entry is moved to the front; an expired one is dropped by the look-up.
Hit(c, k) ==
  /\ phase = "open" /\ caller[c].pc = "idle" /\ Holds(k) /\ k \notin expired
  /\ cache' = [cache EXCEPT ![KindOf[k]] = <<k>> \o Others(@, k)]
  /\ UNCHANGED <<flight, current, expired, waiting, slots, limits, caller, phase>>

Misses(c, k) ==
  /\ phase = "open" /\ caller[c].pc = "idle" /\ (Holds(k) => k \in expired)
  /\ cache' = [cache EXCEPT ![KindOf[k]] = Others(@, k)]
  /\ expired' = expired \ {k}

Full(k) ==
  \/ waiting >= MaxWaiting
  \/ current[k] # None /\ flight[current[k]].waiters >= MaxWaiters
  \/ current[k] = None /\ Cardinality(Active) >= MaxFlights

Allowed(o) ==
  /\ used[o] = 0 => Cardinality({x \in Owners : used[x] > 0}) < WindowCap
  /\ used[o] < OwnerCap /\ hour < HourCap

\* AI_BUSY and AI_RATE_LIMITED; so is AI_UNAVAILABLE once closed, with no effect at all.
TurnAway(c, k) ==
  /\ Misses(c, k)
  /\ Full(k) \/ (current[k] = None /\ ~Allowed(OwnerOf[c]))
  /\ UNCHANGED <<flight, current, waiting, slots, limits, caller, phase>>

Wait(c, f) == caller' = [caller EXCEPT ![c] = [pc |-> "waiting", flight |-> f, result |-> "none"]]

Launch(c, k) ==
  LET f == Len(flight) + 1 IN
  /\ f <= MaxStarted
  /\ Misses(c, k) /\ ~Full(k) /\ current[k] = None /\ Allowed(OwnerOf[c])
  /\ used' = [used EXCEPT ![OwnerOf[c]] = @ + 1] /\ hour' = hour + 1
  /\ flight' = Append(flight, [key |-> k, stage |-> "queued", ended |-> "no",
                               waiters |-> 1, outcome |-> "none"])
  /\ current' = [current EXCEPT ![k] = f]
  /\ waiting' = waiting + 1
  /\ Wait(c, f)
  /\ UNCHANGED <<slots, phase>>

\* Mutation: only the caller that starts a flight is counted.
JoinUncounted(c, k) ==
  /\ Misses(c, k) /\ ~Full(k) /\ current[k] # None
  /\ flight' = [flight EXCEPT ![current[k]].waiters = @ + 1]
  /\ Wait(c, current[k])
  /\ UNCHANGED <<current, waiting, slots, limits, phase>>

\* A caller joins whatever flight the key maps to.
Join(c, k) ==
  /\ Misses(c, k) /\ ~Full(k) /\ current[k] # None
  /\ flight' = [flight EXCEPT ![current[k]].waiters = @ + 1]
  /\ waiting' = waiting + 1
  /\ Wait(c, current[k])
  /\ UNCHANGED <<current, slots, limits, phase>>
-----------------------------------------------------------------------------
(* Gateway.Call, the wait and the deferred second hold *)

GiveUp(c) ==
  /\ caller[c].pc = "waiting"
  /\ caller' = [caller EXCEPT ![c].pc = "leaving", ![c].result = "GAVE_UP"]
  /\ UNCHANGED <<flight, current, cache, expired, waiting, slots, limits, phase>>

\* Mutation: a waiter is woken by a success only.
WakeOnSuccess(c) ==
  /\ caller[c].pc = "waiting"
  /\ flight[caller[c].flight].stage = "settled" /\ flight[caller[c].flight].outcome = "ok"
  /\ caller' = [caller EXCEPT ![c].pc = "leaving", ![c].result = "ok"]
  /\ UNCHANGED <<flight, current, cache, expired, waiting, slots, limits, phase>>

Wake(c) ==
  /\ caller[c].pc = "waiting" /\ flight[caller[c].flight].stage = "settled"
  /\ caller' = [caller EXCEPT ![c].pc = "leaving", ![c].result = flight[caller[c].flight].outcome]
  /\ UNCHANGED <<flight, current, cache, expired, waiting, slots, limits, phase>>

\* Why the upstream context ended: the first cause stands.
EndedBy(f, cause) == IF flight[f].ended = "no" THEN cause ELSE flight[f].ended

\* Mutation: the final waiter also takes the flight out of the map.
LeaveForgotten(c) ==
  LET f == caller[c].flight
      left == flight[f].waiters - 1
  IN
  /\ caller[c].pc = "leaving"
  /\ flight' = [flight EXCEPT ![f].waiters = left,
                              ![f].ended = IF left = 0 THEN EndedBy(f, "abandoned") ELSE @]
  /\ current' = IF left = 0 THEN [current EXCEPT ![flight[f].key] = None] ELSE current
  /\ waiting' = waiting - 1
  /\ caller' = [caller EXCEPT ![c] = Idle]
  /\ UNCHANGED <<cache, expired, slots, limits, phase>>

\* Mutation: the final waiter does not cancel.
LeaveRunning(c) ==
  /\ caller[c].pc = "leaving"
  /\ flight' = [flight EXCEPT ![caller[c].flight].waiters = @ - 1]
  /\ waiting' = waiting - 1
  /\ caller' = [caller EXCEPT ![c] = Idle]
  /\ UNCHANGED <<current, cache, expired, slots, limits, phase>>

Leave(c) ==
  LET f == caller[c].flight
      left == flight[f].waiters - 1
  IN
  /\ caller[c].pc = "leaving"
  /\ flight' = [flight EXCEPT ![f].waiters = left,
                              ![f].ended = IF left = 0 THEN EndedBy(f, "abandoned") ELSE @]
  /\ waiting' = waiting - 1
  /\ caller' = [caller EXCEPT ![c] = Idle]
  /\ UNCHANGED <<current, cache, expired, slots, limits, phase>>
-----------------------------------------------------------------------------
(* The goroutine of a flight *)

\* Go's select may take a free slot although the context has ended.
Acquire(f) ==
  /\ flight[f].stage = "queued" /\ slots < Slots
  /\ slots' = slots + 1
  /\ flight' = [flight EXCEPT ![f].stage = "running"]
  /\ UNCHANGED <<current, cache, expired, waiting, limits, caller, phase>>

NeverRan(f) ==
  /\ flight[f].stage = "queued" /\ flight[f].ended # "no"
  /\ flight' = [flight EXCEPT ![f].stage = "returned", ![f].outcome = Timeout]
  /\ UNCHANGED <<current, cache, expired, waiting, slots, limits, caller, phase>>

\* The provider call returns; an ended context overrides whatever it returned.
Return(f, outcome) ==
  /\ flight[f].stage = "running"
  /\ slots' = slots - 1
  /\ flight' = [flight EXCEPT ![f].stage = "returned",
                              ![f].outcome = IF flight[f].ended # "no" THEN Timeout ELSE outcome]
  /\ UNCHANGED <<current, cache, expired, waiting, limits, caller, phase>>

\* cache.put of a result that is not too large for the cache: the key goes to the
\* front and the least recently used give way, to the number of entries or to the
\* bytes in all; how many the sizes of the results leave is a choice.
Stored(s, k) ==
  LET front == <<k>> \o Others(s, k)
      most == IF Len(front) < CacheEntries THEN Len(front) ELSE CacheEntries
  IN {SubSeq(front, 1, n) : n \in 1..most}

\* Nothing is kept of a failure or for nobody, nor what is too large.
Settle(f) ==
  LET k == flight[f].key IN
  /\ flight[f].stage = "returned"
  /\ flight' = [flight EXCEPT ![f].stage = "settled", ![f].ended = EndedBy(f, "finished")]
  /\ \/ /\ flight[f].outcome = "ok" /\ flight[f].waiters > 0
        /\ \E s \in Stored(cache[KindOf[k]], k) : cache' = [cache EXCEPT ![KindOf[k]] = s]
        /\ expired' = {x \in expired \ {k} : Has(cache'[KindOf[x]], x)}
     \/ UNCHANGED <<cache, expired>>
  /\ current' = IF current[k] = f THEN [current EXCEPT ![k] = None] ELSE current
  /\ UNCHANGED <<waiting, slots, limits, caller, phase>>
-----------------------------------------------------------------------------
(* Time and Gateway.Close *)

Deadline(f) ==
  /\ flight[f].ended = "no"
  /\ flight' = [flight EXCEPT ![f].ended = "deadline"]
  /\ UNCHANGED <<current, cache, expired, waiting, slots, limits, caller, phase>>

Expire(k) ==
  /\ Holds(k) /\ k \notin expired
  /\ expired' = expired \cup {k}
  /\ UNCHANGED <<flight, current, cache, waiting, slots, limits, caller, phase>>

MinuteEnds(o) ==
  /\ used[o] > 0
  /\ used' = [used EXCEPT ![o] = 0]
  /\ UNCHANGED <<flight, current, cache, expired, waiting, slots, hour, caller, phase>>

HourEnds ==
  /\ hour > 0
  /\ hour' = 0
  /\ UNCHANGED <<flight, current, cache, expired, waiting, slots, used, caller, phase>>

CloseBegins ==
  /\ phase = "open"
  /\ phase' = "closing"
  /\ flight' = [f \in Started |-> [flight[f] EXCEPT !.ended = EndedBy(f, "closed")]]
  /\ UNCHANGED <<current, cache, expired, waiting, slots, limits, caller>>

CloseEnds ==
  /\ phase = "closing"
  /\ \A f \in Started : flight[f].stage = "settled"
  /\ phase' = "closed"
  /\ cache' = [kind \in Kinds |-> << >>] /\ expired' = {}
  /\ used' = [o \in Owners |-> 0]
  /\ UNCHANGED <<flight, current, waiting, slots, hour, caller>>
-----------------------------------------------------------------------------
Next ==
  \/ \E c \in Callers, k \in Keys :
       Hit(c, k) \/ TurnAway(c, k) \/ Launch(c, k) \/ Join(c, k)
  \/ \E c \in Callers : GiveUp(c) \/ Wake(c) \/ Leave(c)
  \/ \E f \in Started : Acquire(f) \/ NeverRan(f) \/ Settle(f) \/ Deadline(f)
  \/ \E f \in Started, outcome \in {"ok", "failed"} : Return(f, outcome)
  \/ \E k \in Keys : Expire(k)
  \/ \E o \in Owners : MinuteEnds(o)
  \/ HourEnds \/ CloseBegins \/ CloseEnds

Spec == Init /\ [][Next]_vars

\* Goroutines run, deadlines pass, and a provider call returns once its context has ended.
Fairness ==
  /\ \A c \in Callers : WF_vars(Wake(c)) /\ WF_vars(Leave(c))
  /\ \A f \in 1..MaxStarted :
       /\ WF_vars(f \in Started /\ Deadline(f))
       /\ WF_vars(f \in Started /\ NeverRan(f))
       /\ WF_vars(f \in Started /\ flight[f].ended # "no" /\ \E o \in {"ok", "failed"} : Return(f, o))
       /\ WF_vars(f \in Started /\ Settle(f))
  /\ WF_vars(CloseEnds)

FairSpec == Spec /\ Fairness
-----------------------------------------------------------------------------
Results == {"none", "ok", "failed", Timeout, "GAVE_UP"}

\* The cache holds only results of calls that succeeded for a key, each key once,
\* and nothing after Close.
CacheSound ==
  /\ \A kind \in Kinds, i, j \in 1..CacheEntries :
       (i \in DOMAIN cache[kind] /\ j \in DOMAIN cache[kind] /\ cache[kind][i] = cache[kind][j]) => i = j
  /\ \A k \in Keys : Holds(k) =>
       \E f \in Started : flight[f].key = k /\ flight[f].stage = "settled" /\ flight[f].outcome = "ok"
  /\ \A k \in expired : Holds(k)
  /\ phase = "closed" => \A k \in Keys : ~Holds(k) /\ current[k] = None

\* The types of the gateway's state, within its limits.
TypeOK ==
  /\ flight \in Seq([key : Keys, stage : {"queued", "running", "returned", "settled"},
                      ended : {"no", "deadline", "abandoned", "closed", "finished"},
                      waiters : 0..MaxWaiters, outcome : {"none", "ok", "failed", Timeout}])
  /\ current \in [Keys -> Started \cup {None}]
  /\ cache \in [Kinds -> Seq(Keys)] /\ \A kind \in Kinds : Len(cache[kind]) <= CacheEntries
  /\ expired \subseteq Keys
  /\ waiting \in 0..MaxWaiting /\ slots \in 0..Slots
  /\ used \in [Owners -> 0..OwnerCap] /\ hour \in 0..HourCap
  /\ caller \in [Callers -> [pc : {"idle", "waiting", "leaving"},
                             flight : Started \cup {None}, result : Results]]
  /\ phase \in {"open", "closing", "closed"}

(***************************************************************************)
(* The gateway stays within its limits, and the counters behind them are   *)
(* exact: every handler inside Call is counted once in its flight and once *)
(* in the total until it has left, and a slot is taken exactly by the      *)
(* flights that are at the provider.                                       *)
(***************************************************************************)
CountersExact ==
  /\ TypeOK
  /\ Cardinality(Active) <= MaxFlights
  /\ waiting = Cardinality({c \in Callers : caller[c].flight # None})
  /\ slots = Cardinality({f \in Started : flight[f].stage = "running"})
  /\ \A f \in Started : flight[f].waiters = Cardinality({c \in Callers : caller[c].flight = f})

(***************************************************************************)
(* Identical work is never done twice at a time: a key has at most one     *)
(* flight that has not settled, and that is the one callers join; only its *)
(* success is kept for those who come later.                               *)
(***************************************************************************)
Coalesced ==
  /\ \A f \in Started : flight[f].stage # "settled" <=> current[flight[f].key] = f
  /\ CacheSound

(***************************************************************************)
(* The upstream context ends when its final waiter leaves: work nobody     *)
(* waits for is cancelled.                                                 *)
(***************************************************************************)
AbandonedIsCancelled ==
  \A f \in Started : flight[f].waiters = 0 => flight[f].ended # "no"

\* Every handler gets out of Call, whatever the provider and the other waiters do,
\* and so does Close, which waits for every flight.
EveryCallReturns ==
  /\ \A c \in Callers : caller[c].pc = "waiting" ~> caller[c].pc = "idle"
  /\ phase = "closing" ~> phase = "closed"

(***************************************************************************)
(* The comment on Call: a request's cancellation removes only that waiter. *)
(* A handler that waited to the end is told AI_TIMEOUT only because the    *)
(* deadline of its flight passed or the gateway was closed, never because  *)
(* another handler gave up.                                                *)
(***************************************************************************)
CancellationIsPrivate ==
  \A c \in Callers :
    caller[c].pc = "leaving" /\ caller[c].result = Timeout =>
      flight[caller[c].flight].ended \in {"deadline", "closed"}
=============================================================================
