--------------------------------- MODULE Hub ---------------------------------
(***************************************************************************)
(* The realtime hub of one server: rooms of WebSocket clients that are     *)
(* told of a new leaderboard by full snapshots.  A change marks its room   *)
(* dirty; the coalescing ticker turns a dirty room into a refresh job; one *)
(* of the workers reads a snapshot from the store without the hub's lock   *)
(* and then, with it, replaces what is queued for every client.            *)
(*                                                                         *)
(* Notifications may be lost, the subscription may break, a snapshot read  *)
(* may fail, a room may be reset without a notification, clients come and  *)
(* go, and the hub may be closed at any point.  An action is what one      *)
(* goroutine does in one hold of Hub.mu, or between two of them.           *)
(***************************************************************************)
EXTENDS Integers, Sequences, FiniteSets

CONSTANTS
  Rooms,            \* quiz identifiers
  Seeded,           \* the rooms the hub is created with
  ExtraRooms,       \* how many rooms may be added lazily (20)
  Clients,          \* WebSocket connections, each used once
  RoomOf, PidOf,    \* what each connection asks for
  MaxClients,       \* connections admitted to a room (800)
  PerPid,           \* connections of one participant to a room (4)
  Workers,          \* refresh workers (4)
  JobCap,           \* buffer of the jobs channel (32)
  MaxEpoch, MaxVersion, \* bounds: resets and commits of a room
  MaxFailures,      \* bound: failed snapshot reads and broken subscriptions
  None              \* nothing delivered yet

\* A connection asks for one room; the limits are counts.
ASSUME HubAssumption ==
  /\ IsFiniteSet(Rooms) /\ Seeded \subseteq Rooms
  /\ IsFiniteSet(Clients) /\ RoomOf \in [Clients -> Rooms]
  /\ ExtraRooms \in Nat /\ MaxClients \in Nat /\ PerPid \in Nat /\ JobCap \in Nat
  /\ MaxEpoch \in Nat /\ MaxVersion \in Nat /\ MaxFailures \in Nat
  /\ None \notin [type : {"snapshot"}, epoch : 1..MaxEpoch, version : 0..MaxVersion]

VARIABLES
  epoch, version,   \* the store: current epoch of a room, and version in it
  pending,          \* change notifications of a room in flight
  subscribed,       \* whether the Pub/Sub connection is up
  failures,         \* failures so far
  known,            \* keys of Hub.rooms
  dirty, refreshing, latest, \* room.dirty, room.refreshing, room.latest
  jobs,             \* the jobs channel
  worker,           \* Worker -> what it is doing
  conn,             \* Client -> away, opening, live, closing (done closed), gone
  cepoch,           \* Client -> the epoch it connected in
  queue,            \* Client -> its queue of at most one message
  view,             \* Client -> the last snapshot written to its socket
  phase,            \* of Hub.Close
  exited,           \* background goroutines that have returned
  lost              \* history: a change of the room no notification will announce

storeVars == <<epoch, version>>
roomVars == <<known, dirty, refreshing, latest>>
clientVars == <<conn, cepoch, queue, view>>
vars == <<epoch, version, pending, subscribed, failures, known, dirty, refreshing, latest, jobs,
          worker, conn, cepoch, queue, view, phase, exited, lost>>

Snap(e, v) == [type |-> "snapshot", epoch |-> e, version |-> v]
ResetRequired == [type |-> "RESET_REQUIRED"]
Unavailable == [type |-> "DEPENDENCY_UNAVAILABLE"]
Snapshots == [type : {"snapshot"}, epoch : 1..MaxEpoch, version : 0..MaxVersion]
Messages == Snapshots \cup {ResetRequired, Unavailable}

Current(r) == Snap(epoch[r], version[r])
Idle == [stage |-> "idle"]
Background == Workers \cup {"run", "subscribe"}

\* r.clients: a connection stays in it until the deferred delete.
Registered(r) == {c \in Clients : RoomOf[c] = r /\ conn[c] \in {"live", "closing"}}
Cancelled == phase \in {"cancelled", "done"}

\* The rooms were there before the hub; a connection that is gone was never made.
Init ==
  /\ epoch \in [Rooms -> 1..MaxEpoch] /\ version \in [Rooms -> 0..MaxVersion]
  /\ pending = [r \in Rooms |-> 0]
  /\ subscribed = FALSE /\ failures = 0
  /\ known = Seeded
  /\ dirty = [r \in Rooms |-> FALSE] /\ refreshing = [r \in Rooms |-> FALSE]
  /\ latest = [r \in Rooms |-> None]
  /\ jobs = << >>
  /\ worker = [w \in Workers |-> Idle]
  /\ conn \in [Clients -> {"away", "gone"}] /\ cepoch = [c \in Clients |-> 0]
  /\ queue = [c \in Clients |-> << >>] /\ view = [c \in Clients |-> None]
  /\ phase = "open" /\ exited = {}
  /\ lost = [r \in Rooms |-> FALSE]
-----------------------------------------------------------------------------
(* The store and the notifications of Server.notify. *)

Commit(r) ==
  /\ version[r] < MaxVersion
  /\ version' = [version EXCEPT ![r] = @ + 1]
  /\ pending' = [pending EXCEPT ![r] = @ + 1]
  /\ UNCHANGED <<epoch, subscribed, failures, roomVars, jobs, worker, clientVars, phase, exited, lost>>

\* The reset command publishes nothing.
ResetRoom(r) ==
  /\ epoch[r] < MaxEpoch
  /\ epoch' = [epoch EXCEPT ![r] = @ + 1]
  /\ version' = [version EXCEPT ![r] = 0]
  /\ lost' = [lost EXCEPT ![r] = TRUE]
  /\ UNCHANGED <<pending, subscribed, failures, roomVars, jobs, worker, clientVars, phase, exited>>

\* Publish fails, times out, or nobody is subscribed.
LoseNotification(r) ==
  /\ pending[r] > 0
  /\ pending' = [pending EXCEPT ![r] = @ - 1]
  /\ lost' = [lost EXCEPT ![r] = TRUE]
  /\ UNCHANGED <<storeVars, subscribed, failures, roomVars, jobs, worker, clientVars, phase, exited>>
-----------------------------------------------------------------------------
(* Hub.subscribe and Hub.run *)

Dirty(r) ==
  /\ pending[r] > 0 /\ subscribed /\ "subscribe" \notin exited
  /\ pending' = [pending EXCEPT ![r] = @ - 1]
  /\ dirty' = IF r \in known THEN [dirty EXCEPT ![r] = TRUE] ELSE dirty
  /\ UNCHANGED <<storeVars, subscribed, failures, known, refreshing, latest, jobs, worker,
                 clientVars, phase, exited, lost>>

DirtyAll ==
  /\ dirty' = [r \in Rooms |-> dirty[r] \/ r \in known]
  /\ lost' = [r \in Rooms |-> FALSE]

Subscribe ==
  /\ ~subscribed /\ "subscribe" \notin exited
  /\ subscribed' = TRUE
  /\ DirtyAll
  /\ UNCHANGED <<storeVars, pending, failures, known, refreshing, latest, jobs, worker,
                 clientVars, phase, exited>>

Disconnect ==
  /\ subscribed /\ failures < MaxFailures
  /\ subscribed' = FALSE
  /\ failures' = failures + 1
  /\ UNCHANGED <<storeVars, pending, roomVars, jobs, worker, clientVars, phase, exited, lost>>

Reconcile ==
  /\ "run" \notin exited
  /\ DirtyAll
  /\ UNCHANGED <<storeVars, pending, subscribed, failures, known, refreshing, latest, jobs, worker,
                 clientVars, phase, exited>>

\* One pass over the rooms, in the order Go's map iteration happens to take;
\* the non-blocking send leaves a room dirty when the channel is full.
\* Mutation: a room that is being refreshed is sent again.
ReadyAgain == {r \in known : dirty[r] /\ Registered(r) # {}}

Ready == {r \in known : dirty[r] /\ ~refreshing[r] /\ Registered(r) # {}}
Batches == {s \in UNION {[1..n -> Ready] : n \in 0..Cardinality(Ready)} :
              /\ \A i, j \in DOMAIN s : s[i] = s[j] => i = j
              /\ \/ Len(jobs) + Len(s) = JobCap
                 \/ Len(jobs) + Len(s) < JobCap /\ Len(s) = Cardinality(Ready)}
Coalesce ==
  /\ "run" \notin exited
  /\ Ready # {}
  /\ \E batch \in Batches :
       LET sent == {batch[i] : i \in DOMAIN batch} IN
       /\ jobs' = jobs \o batch
       /\ dirty' = [r \in Rooms |-> dirty[r] /\ r \notin sent]
       /\ refreshing' = [r \in Rooms |-> refreshing[r] \/ r \in sent]
  /\ UNCHANGED <<storeVars, pending, subscribed, failures, known, latest, worker, clientVars,
                 phase, exited, lost>>
-----------------------------------------------------------------------------
(* Hub.worker and Hub.refresh *)

Take(w) ==
  /\ w \notin exited /\ worker[w] = Idle /\ jobs # << >>
  /\ worker' = [worker EXCEPT ![w] = [stage |-> "taken", room |-> Head(jobs)]]
  /\ jobs' = Tail(jobs)
  /\ UNCHANGED <<storeVars, pending, subscribed, failures, roomVars, clientVars, phase, exited, lost>>

ReadSnapshot(w) ==
  /\ worker[w].stage = "taken" /\ ~Cancelled
  /\ worker' = [worker EXCEPT ![w] =
                  [stage |-> "read", room |-> @.room, message |-> Current(@.room)]]
  /\ UNCHANGED <<storeVars, pending, subscribed, failures, roomVars, jobs, clientVars, phase, exited, lost>>

\* Mutation: the read is not given the hub's context.
ReadFailsUncancelled(w) ==
  /\ worker[w].stage = "taken"
  /\ ~Cancelled /\ failures < MaxFailures
  /\ failures' = failures + 1
  /\ worker' = [worker EXCEPT ![w] =
                  [stage |-> "read", room |-> @.room, message |-> Unavailable]]
  /\ lost' = [lost EXCEPT ![worker[w].room] = TRUE]
  /\ UNCHANGED <<storeVars, pending, subscribed, roomVars, jobs, clientVars, phase, exited>>

\* The read fails, as it always does once the context is cancelled.
ReadFails(w) ==
  /\ worker[w].stage = "taken"
  /\ Cancelled \/ failures < MaxFailures
  /\ failures' = IF Cancelled THEN failures ELSE failures + 1
  /\ worker' = [worker EXCEPT ![w] =
                  [stage |-> "read", room |-> @.room, message |-> Unavailable]]
  /\ lost' = [lost EXCEPT ![worker[w].room] = TRUE]
  /\ UNCHANGED <<storeVars, pending, subscribed, roomVars, jobs, clientVars, phase, exited>>

\* Mutation: the encoded message is reused for a later version.
EncodedOnce(r, message) ==
  IF message = Unavailable \/ latest[r] = None \/ latest[r].epoch # message.epoch
  THEN message ELSE latest[r]

\* The encoded message is reused while epoch and version are the same.
Encoded(r, message) ==
  IF \/ message = Unavailable
     \/ latest[r] = None
     \/ latest[r].epoch # message.epoch
     \/ latest[r].version # message.version
  THEN message ELSE latest[r]

\* Mutation: everybody is sent the snapshot.
ForEverybody(c, state, message) == message

\* What a client is sent: a client of another epoch has to start over.
For(c, state, message) ==
  IF state # Unavailable /\ state.epoch # cepoch[c] THEN ResetRequired ELSE message

Apply(w) ==
  /\ worker[w].stage = "read"
  /\ LET r == worker[w].room
         state == worker[w].message
         message == Encoded(r, state)
     IN /\ latest' = IF state = Unavailable THEN latest ELSE [latest EXCEPT ![r] = message]
        /\ queue' = [c \in Clients |->
                       IF c \in Registered(r)
                       THEN << For(c, state, message) >> ELSE queue[c]]
        /\ worker' = [worker EXCEPT ![w] = [stage |-> "applied", room |-> r]]
  /\ UNCHANGED <<storeVars, pending, subscribed, failures, known, dirty, refreshing, jobs,
                 conn, cepoch, view, phase, exited, lost>>

\* Mutation: the room is marked clean when its refresh ends, not when it starts.
FinishClean(w) ==
  /\ worker[w].stage = "applied"
  /\ refreshing' = [refreshing EXCEPT ![worker[w].room] = FALSE]
  /\ dirty' = [dirty EXCEPT ![worker[w].room] = FALSE]
  /\ worker' = [worker EXCEPT ![w] = Idle]
  /\ UNCHANGED <<storeVars, pending, subscribed, failures, known, latest, jobs, clientVars,
                 phase, exited, lost>>

Finish(w) ==
  /\ worker[w].stage = "applied"
  /\ refreshing' = [refreshing EXCEPT ![worker[w].room] = FALSE]
  /\ worker' = [worker EXCEPT ![w] = Idle]
  /\ UNCHANGED <<storeVars, pending, subscribed, failures, known, dirty, latest, jobs, clientVars,
                 phase, exited, lost>>
-----------------------------------------------------------------------------
(* Server.live and Hub.Serve *)

\* The handler reads the state of the room before the handshake.
Open(c) ==
  /\ conn[c] = "away"
  /\ conn' = [conn EXCEPT ![c] = "opening"]
  /\ cepoch' = [cepoch EXCEPT ![c] = epoch[RoomOf[c]]]
  /\ UNCHANGED <<storeVars, pending, subscribed, failures, roomVars, jobs, worker, queue, view,
                 phase, exited, lost>>

Admits(c) ==
  LET r == RoomOf[c] IN
  /\ phase = "open"
  /\ r \in known \/ Cardinality(known) < Cardinality(Seeded) + ExtraRooms
  /\ Cardinality(Registered(r)) < MaxClients
  /\ Cardinality({o \in Registered(r) : PidOf[o] = PidOf[c]}) < PerPid

Register(c) ==
  /\ conn[c] = "opening" /\ Admits(c)
  /\ known' = known \cup {RoomOf[c]}
  /\ conn' = [conn EXCEPT ![c] = "live"]
  /\ dirty' = [dirty EXCEPT ![RoomOf[c]] = TRUE]
  /\ UNCHANGED <<storeVars, pending, subscribed, failures, refreshing, latest, jobs, worker,
                 cepoch, queue, view, phase, exited, lost>>

\* A refusal over the room's or the participant's limit comes after the room was added.
Refuse(c) ==
  LET r == RoomOf[c] IN
  /\ conn[c] = "opening" /\ ~Admits(c)
  /\ known' = IF phase = "open" /\ Cardinality(known) < Cardinality(Seeded) + ExtraRooms
              THEN known \cup {r} ELSE known
  /\ conn' = [conn EXCEPT ![c] = "gone"]
  /\ UNCHANGED <<storeVars, pending, subscribed, failures, dirty, refreshing, latest, jobs, worker,
                 cepoch, queue, view, phase, exited, lost>>

\* The loop of Serve writes the queued message.
Write(c) ==
  /\ conn[c] = "live" /\ queue[c] # << >>
  /\ queue' = [queue EXCEPT ![c] = << >>]
  /\ LET message == Head(queue[c]) IN
       /\ view' = IF message \in Snapshots THEN [view EXCEPT ![c] = message] ELSE view
       /\ conn' = IF message = ResetRequired THEN [conn EXCEPT ![c] = "closing"] ELSE conn
  /\ UNCHANGED <<storeVars, pending, subscribed, failures, roomVars, jobs, worker, cepoch, phase, exited, lost>>

\* The browser goes away, a write or ping fails, the session expires.
Drop(c) ==
  /\ conn[c] = "live"
  /\ conn' = [conn EXCEPT ![c] = "closing"]
  /\ UNCHANGED <<storeVars, pending, subscribed, failures, roomVars, jobs, worker, cepoch, queue, view,
                 phase, exited, lost>>

\* The deferred functions of Serve, entered when done is closed or the context cancelled.
Leave(c) ==
  /\ conn[c] = "closing" \/ (conn[c] = "live" /\ Cancelled)
  /\ conn' = [conn EXCEPT ![c] = "gone"]
  /\ UNCHANGED <<storeVars, pending, subscribed, failures, roomVars, jobs, worker, cepoch, queue, view,
                 phase, exited, lost>>
-----------------------------------------------------------------------------
(* Hub.Close *)

CloseClients ==
  /\ phase = "open"
  /\ phase' = "marked"
  /\ conn' = [c \in Clients |-> IF conn[c] = "live" THEN "closing" ELSE conn[c]]
  /\ UNCHANGED <<storeVars, pending, subscribed, failures, roomVars, jobs, worker, cepoch, queue, view,
                 exited, lost>>

Cancel ==
  /\ phase = "marked"
  /\ phase' = "cancelled"
  /\ UNCHANGED <<storeVars, pending, subscribed, failures, roomVars, jobs, worker, clientVars, exited, lost>>

Exit(g) ==
  /\ phase = "cancelled" /\ g \notin exited
  /\ g \in Workers => worker[g] = Idle
  /\ exited' = exited \cup {g}
  /\ UNCHANGED <<storeVars, pending, subscribed, failures, roomVars, jobs, worker, clientVars, phase, lost>>

Closed ==
  /\ phase = "cancelled"
  /\ exited = Background
  /\ \A r \in Rooms : Registered(r) = {}
  /\ phase' = "done"
  /\ UNCHANGED <<storeVars, pending, subscribed, failures, roomVars, jobs, worker, clientVars, exited, lost>>
-----------------------------------------------------------------------------
Next ==
  \/ \E r \in Rooms : Commit(r) \/ ResetRoom(r) \/ LoseNotification(r) \/ Dirty(r)
  \/ Subscribe \/ Disconnect \/ Reconcile \/ Coalesce
  \/ \E w \in Workers : Take(w) \/ ReadSnapshot(w) \/ ReadFails(w) \/ Apply(w) \/ Finish(w)
  \/ \E c \in Clients : Open(c) \/ Register(c) \/ Refuse(c) \/ Write(c) \/ Drop(c) \/ Leave(c)
  \/ CloseClients \/ Cancel \/ Closed
  \/ \E g \in Background : Exit(g)

Spec == Init /\ [][Next]_vars

\* The tickers, the workers and the serving goroutines keep running.
Fairness ==
  /\ WF_vars(Reconcile) /\ WF_vars(Coalesce) /\ WF_vars(Subscribe)
  /\ \A w \in Workers :
       /\ WF_vars(Take(w)) /\ WF_vars(ReadSnapshot(w) \/ ReadFails(w))
       /\ WF_vars(Apply(w)) /\ WF_vars(Finish(w))
  /\ \A c \in Clients : WF_vars(Write(c)) /\ WF_vars(Leave(c))
  /\ WF_vars(Cancel) /\ WF_vars(Closed)
  /\ \A g \in Background : WF_vars(Exit(g))

FairSpec == Spec /\ Fairness
-----------------------------------------------------------------------------
\* A room never holds more connections than its limit, nor more of one
\* participant, and the hub no more rooms, however connections race to register.
AdmissionLimits ==
  /\ Cardinality(known) <= Cardinality(Seeded) + ExtraRooms
  /\ \A r \in Rooms :
       /\ Cardinality(Registered(r)) <= MaxClients
       /\ Registered(r) # {} => r \in known
       /\ \A c \in Registered(r) :
            Cardinality({o \in Registered(r) : PidOf[o] = PidOf[c]}) <= PerPid

\* The types of the hub's state, and what Admits is there for.
TypeOK ==
  /\ epoch \in [Rooms -> 1..MaxEpoch] /\ version \in [Rooms -> 0..MaxVersion]
  /\ pending \in [Rooms -> Nat]
  /\ subscribed \in BOOLEAN /\ failures \in 0..MaxFailures
  /\ known \subseteq Rooms
  /\ dirty \in [Rooms -> BOOLEAN] /\ refreshing \in [Rooms -> BOOLEAN] /\ lost \in [Rooms -> BOOLEAN]
  /\ latest \in [Rooms -> Snapshots \cup {None}]
  /\ jobs \in Seq(Rooms) /\ Len(jobs) <= JobCap
  /\ worker \in [Workers ->
                   {Idle} \cup [stage : {"taken", "applied"}, room : Rooms]
                     \cup [stage : {"read"}, room : Rooms, message : Snapshots \cup {Unavailable}]]
  /\ conn \in [Clients -> {"away", "opening", "live", "closing", "gone"}]
  /\ cepoch \in [Clients -> 0..MaxEpoch]
  /\ queue \in [Clients -> {<< >>} \cup {<<m>> : m \in Messages}]
  /\ view \in [Clients -> Snapshots \cup {None}]
  /\ phase \in {"open", "marked", "cancelled", "done"}
  /\ exited \subseteq Background
  /\ AdmissionLimits

(***************************************************************************)
(* At most one refresh of a room is queued or running, and room.refreshing *)
(* says exactly whether there is one: two refreshes of a room could apply  *)
(* their snapshots in the wrong order.                                     *)
(***************************************************************************)
Busy(r) == {w \in Workers : worker[w] # Idle /\ worker[w].room = r}
Queued(r) == {i \in DOMAIN jobs : jobs[i] = r}
OneRefreshPerRoom ==
  TypeOK /\ \A r \in Rooms :
    Cardinality(Busy(r)) + Cardinality(Queued(r)) = IF refreshing[r] THEN 1 ELSE 0

(***************************************************************************)
(* A connection is never queued or shown a board of another epoch than the *)
(* one it connected in, whenever the reset fell between its handshake, its *)
(* registration, the snapshot read and the broadcast.                      *)
(***************************************************************************)
OnlyOwnEpoch ==
  \A c \in Clients :
    /\ view[c] # None => view[c].epoch = cepoch[c]
    /\ queue[c] # << >> /\ Head(queue[c]) \in Snapshots => Head(queue[c]).epoch = cepoch[c]

(***************************************************************************)
(* A client never sees the leaderboard go back: what is written to a       *)
(* socket is at least as new as what was written before.                   *)
(***************************************************************************)
NeverBackwards ==
  [][\A c \in Clients :
       view[c] # None /\ view'[c] # view[c] => view'[c].version > view[c].version]_view

(***************************************************************************)
(* A change is never forgotten between the ticker, the worker and the      *)
(* broadcast: a live client that is behind the store has its room dirty, a *)
(* refresh that has not read yet or has read the current state, or a       *)
(* notification on its way - unless the notification was lost or the read  *)
(* failed, which only the reconciling ticker repairs.                      *)
(***************************************************************************)
UpToDate(c) ==
  \/ queue[c] \in {<< Current(RoomOf[c]) >>, << ResetRequired >>}
  \/ queue[c] = << >> /\ view[c] = Current(RoomOf[c])
WillRefresh(r) ==
  \/ dirty[r] \/ pending[r] > 0 \/ Queued(r) # {}
  \/ \E w \in Busy(r) : \/ worker[w].stage = "taken"
                        \/ worker[w].stage = "read" /\ worker[w].message = Current(r)
WakeupNotForgotten ==
  \A c \in Clients :
    conn[c] = "live" => UpToDate(c) \/ WillRefresh(RoomOf[c]) \/ lost[RoomOf[c]]

(***************************************************************************)
(* Lost notifications, broken subscriptions and failed reads delay a board *)
(* but never withhold it: a live client of the current epoch is eventually *)
(* shown a version at least as new as the one now in the store, unless it  *)
(* leaves or the room is reset.                                            *)
(***************************************************************************)
BoardArrives ==
  \A c \in Clients, v \in 0..MaxVersion :
    (conn[c] = "live" /\ cepoch[c] = epoch[RoomOf[c]] /\ version[RoomOf[c]] = v)
      ~> \/ conn[c] # "live" \/ cepoch[c] # epoch[RoomOf[c]]
         \/ view[c] # None /\ view[c].version >= v

\* A client of an earlier epoch is eventually told to start over and let go.
StaleClientIsReleased ==
  \A c \in Clients : (conn[c] = "live" /\ cepoch[c] # epoch[RoomOf[c]]) ~> conn[c] = "gone"

\* Close returns, whatever the workers and the sockets were doing.
CloseReturns == phase = "marked" ~> phase = "done"
=============================================================================
