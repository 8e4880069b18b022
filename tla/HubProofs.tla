------------------------------ MODULE HubProofs ------------------------------
(***************************************************************************)
(* Proofs about the realtime hub, for any set of rooms, clients and        *)
(* workers and any limits.  Four invariants, each using those before it:   *)
(*   TypeOK            the shape of the state and the admission limits;    *)
(*   SingleRefreshes   which refresh a room has: queued, running or none;  *)
(*   OwnEpochs, AllInOrder   what is queued and shown is of the client's   *)
(*                     epoch, and no newer than what comes behind it;      *)
(*   Wakeful           a room whose reader is stale is owed a refresh.     *)
(***************************************************************************)
EXTENDS Hub, FiniteSetTheorems, TLAPS

LEMMA Finite == IsFiniteSet(Rooms) /\ Seeded \subseteq Rooms /\ IsFiniteSet(Clients)
  BY HubAssumption

LEMMA RoomType == \A c \in Clients : RoomOf[c] \in Rooms
  BY HubAssumption

LEMMA LimitType ==
  /\ ExtraRooms \in Nat /\ MaxClients \in Nat /\ PerPid \in Nat /\ JobCap \in Nat
  /\ MaxEpoch \in Nat /\ MaxVersion \in Nat /\ MaxFailures \in Nat
  BY HubAssumption

LEMMA NoneIsNoSnapshot == None \notin Snapshots
  BY HubAssumption DEF Snapshots

-----------------------------------------------------------------------------
(***************************************************************************)
(* The limits on connections and rooms.                                    *)
(***************************************************************************)
LEMMA RegisteredFinite == \A r : IsFiniteSet(Registered(r)) /\ Registered(r) \subseteq Clients
<1> SUFFICES ASSUME NEW r PROVE IsFiniteSet(Registered(r)) /\ Registered(r) \subseteq Clients
  OBVIOUS
<1>1. Registered(r) \in SUBSET Clients
  BY DEF Registered
<1>2. QED
  BY <1>1, Finite, FS_Subset

\* Fewer connections never break a limit.
LEMMA LimitsShrink ==
  ASSUME AdmissionLimits, known' = known,
         \A c \in Clients : conn'[c] \in {"live", "closing"} => conn[c] \in {"live", "closing"}
  PROVE  AdmissionLimits'
<1>1. ASSUME NEW r \in Rooms
      PROVE  /\ Cardinality(Registered(r)') <= MaxClients
             /\ Registered(r)' # {} => r \in known'
             /\ \A c \in Registered(r)' :
                  Cardinality({o \in Registered(r)' : PidOf[o] = PidOf[c]}) <= PerPid
  <2>1. Registered(r)' \subseteq Registered(r)
    BY DEF Registered
  <2>2. IsFiniteSet(Registered(r)) /\ Registered(r)' \in SUBSET Registered(r)
    BY <2>1, RegisteredFinite
  <2>3. Cardinality(Registered(r)) <= MaxClients /\ Cardinality(Registered(r)) \in Nat
    BY <2>2, FS_CardinalityType DEF AdmissionLimits
  <2>4. IsFiniteSet(Registered(r)') /\ Cardinality(Registered(r)') <= Cardinality(Registered(r))
    BY <2>2, FS_Subset
  <2>5. Cardinality(Registered(r)') \in Nat
    BY <2>4, FS_CardinalityType
  <2>6. Cardinality(Registered(r)') <= MaxClients
    BY <2>3, <2>4, <2>5, LimitType
  <2>7. Registered(r)' # {} => r \in known'
    BY <2>1 DEF AdmissionLimits
  <2>8. ASSUME NEW c \in Registered(r)'
        PROVE  Cardinality({o \in Registered(r)' : PidOf[o] = PidOf[c]}) <= PerPid
    <3> DEFINE S == {o \in Registered(r) : PidOf[o] = PidOf[c]}
               T == {o \in Registered(r)' : PidOf[o] = PidOf[c]}
    <3>1. T \in SUBSET S /\ S \in SUBSET Registered(r)
      BY <2>1
    <3>2. Cardinality(S) <= PerPid
      BY <2>1 DEF AdmissionLimits
    <3> HIDE DEF S, T
    <3>3. IsFiniteSet(S)
      BY <2>2, <3>1, FS_Subset
    <3>4. IsFiniteSet(T) /\ Cardinality(T) <= Cardinality(S)
      BY <3>1, <3>3, FS_Subset
    <3>5. Cardinality(S) \in Nat /\ Cardinality(T) \in Nat
      BY <3>3, <3>4, FS_CardinalityType
    <3>6. Cardinality(T) <= PerPid
      BY <3>2, <3>4, <3>5, LimitType
    <3>7. QED
      BY <3>6 DEF T
  <2>9. QED
    BY <2>6, <2>7, <2>8
<1>2. QED
  BY <1>1 DEF AdmissionLimits

\* An admitted connection stays within the limits.
LEMMA RegisterWithinLimits ==
  ASSUME AdmissionLimits, known \subseteq Rooms, NEW c \in Clients, conn[c] = "opening", Admits(c),
         conn \in [Clients -> {"away", "opening", "live", "closing", "gone"}],
         known' = known \cup {RoomOf[c]}, conn' = [conn EXCEPT ![c] = "live"]
  PROVE  AdmissionLimits'
<1>1. c \notin Registered(RoomOf[c])
  BY DEF Registered
<1>2. Registered(RoomOf[c])' = Registered(RoomOf[c]) \cup {c}
  BY DEF Registered
<1>3. \A r : r # RoomOf[c] => Registered(r)' = Registered(r)
  BY DEF Registered
<1>4. Cardinality(known') <= Cardinality(Seeded) + ExtraRooms
  <2>1. IsFiniteSet(known) /\ IsFiniteSet(Seeded)
    BY Finite, FS_Subset
  <2>2. Cardinality(known) \in Nat /\ Cardinality(Seeded) \in Nat
    BY <2>1, FS_CardinalityType
  <2>3. CASE RoomOf[c] \in known
    <3>1. known' = known
      BY <2>3
    <3>2. QED
      BY <3>1 DEF AdmissionLimits
  <2>4. CASE RoomOf[c] \notin known
    <3>1. Cardinality(known') = Cardinality(known) + 1
      BY <2>1, <2>4, FS_AddElement
    <3>2. Cardinality(known) < Cardinality(Seeded) + ExtraRooms
      BY <2>4 DEF Admits
    <3>3. QED
      BY <2>2, <3>1, <3>2, LimitType
  <2>5. QED
    BY <2>3, <2>4
<1>5. ASSUME NEW r \in Rooms, r # RoomOf[c]
      PROVE  /\ Cardinality(Registered(r)') <= MaxClients
             /\ Registered(r)' # {} => r \in known'
             /\ \A o \in Registered(r)' :
                  Cardinality({x \in Registered(r)' : PidOf[x] = PidOf[o]}) <= PerPid
  BY <1>3, <1>5 DEF AdmissionLimits
<1>6. ASSUME NEW r \in Rooms, r = RoomOf[c]
      PROVE  /\ Cardinality(Registered(r)') <= MaxClients
             /\ Registered(r)' # {} => r \in known'
             /\ \A o \in Registered(r)' :
                  Cardinality({x \in Registered(r)' : PidOf[x] = PidOf[o]}) <= PerPid
  <2> DEFINE R == Registered(r)
             Own == {x \in R : PidOf[x] = PidOf[c]}
  <2>1. IsFiniteSet(R) /\ c \notin R /\ Registered(r)' = R \cup {c}
    BY <1>1, <1>2, <1>6, RegisteredFinite
  <2>2. Cardinality(R) < MaxClients /\ Cardinality(Own) < PerPid
    BY <1>6 DEF Admits
  <2>3. \A o \in R : Cardinality({x \in R : PidOf[x] = PidOf[o]}) <= PerPid
    BY DEF AdmissionLimits
  <2>4. Own \in SUBSET R
    OBVIOUS
  <2> HIDE DEF R
  <2>5. Cardinality(R) \in Nat /\ Cardinality(R \cup {c}) = Cardinality(R) + 1
    BY <2>1, FS_CardinalityType, FS_AddElement
  <2>6. Cardinality(R \cup {c}) <= MaxClients
    BY <2>2, <2>5, LimitType
  <2>7. IsFiniteSet(Own) /\ c \notin Own
    BY <2>1, <2>4, FS_Subset
  <2>8. Cardinality(Own \cup {c}) <= PerPid
    <3> HIDE DEF Own
    <3>1. Cardinality(Own) \in Nat /\ Cardinality(Own \cup {c}) = Cardinality(Own) + 1
      BY <2>7, FS_CardinalityType, FS_AddElement
    <3>2. QED
      BY <2>2, <3>1, LimitType
  <2>9. ASSUME NEW o \in R \cup {c}
        PROVE  Cardinality({x \in R \cup {c} : PidOf[x] = PidOf[o]}) <= PerPid
    <3>1. CASE PidOf[o] = PidOf[c]
      <4>1. {x \in R \cup {c} : PidOf[x] = PidOf[o]} = Own \cup {c}
        BY <3>1
      <4>2. QED
        BY <2>8, <4>1, Zenon
    <3>2. CASE PidOf[o] # PidOf[c]
      <4>1. {x \in R \cup {c} : PidOf[x] = PidOf[o]} = {x \in R : PidOf[x] = PidOf[o]} /\ o \in R
        BY <3>2
      <4>2. QED
        BY <2>3, <4>1, Zenon
    <3>3. QED
      BY <3>1, <3>2
  <2>10. r \in known'
    BY <1>6
  <2>11. QED
    BY <2>1, <2>6, <2>9, <2>10
<1>7. QED
  BY <1>4, <1>5, <1>6 DEF AdmissionLimits

\* A refused connection may still add its room.
LEMMA RefuseWithinLimits ==
  ASSUME AdmissionLimits, known \subseteq Rooms, NEW c \in Clients,
         \A o \in Clients : conn'[o] \in {"live", "closing"} <=> conn[o] \in {"live", "closing"},
         known' = IF phase = "open" /\ Cardinality(known) < Cardinality(Seeded) + ExtraRooms
                  THEN known \cup {RoomOf[c]} ELSE known
  PROVE  AdmissionLimits'
<1>1. \A r : Registered(r)' = Registered(r)
  BY DEF Registered
<1>2. Cardinality(known') <= Cardinality(Seeded) + ExtraRooms
  <2>1. IsFiniteSet(known) /\ IsFiniteSet(Seeded)
    BY Finite, FS_Subset
  <2>2. Cardinality(known) \in Nat /\ Cardinality(Seeded) \in Nat
    BY <2>1, FS_CardinalityType
  <2>3. CASE known' = known
    BY <2>3 DEF AdmissionLimits
  <2>4. CASE known' # known
    <3>1. RoomOf[c] \notin known /\ known' = known \cup {RoomOf[c]} /\ Cardinality(known) < Cardinality(Seeded) + ExtraRooms
      BY <2>4
    <3>2. Cardinality(known') = Cardinality(known) + 1
      BY <2>1, <2>2, <3>1, FS_AddElement
    <3>3. IsFiniteSet(known')
      BY <2>1, <3>1, FS_AddElement
    <3>4. Cardinality(known') \in Nat
      BY <3>3, FS_CardinalityType
    <3>5. QED
      BY <2>2, <3>1, <3>2, <3>4, LimitType
  <2>5. QED
    BY <2>3, <2>4
<1>3. known \subseteq known'
  OBVIOUS
<1>4. QED
  BY <1>1, <1>2, <1>3 DEF AdmissionLimits
-----------------------------------------------------------------------------
\* What the workers and the queues hold.
Jobs == {Idle} \cup [stage : {"taken", "applied"}, room : Rooms]
               \cup [stage : {"read"}, room : Rooms, message : Snapshots \cup {Unavailable}]
Queues == {<< >>} \cup {<<m>> : m \in Messages}

LEMMA WorkerType == TypeOK => worker \in [Workers -> Jobs]
  BY DEF TypeOK, Jobs

LEMMA QueueType == TypeOK => queue \in [Clients -> Queues]
  BY DEF TypeOK, Queues

LEMMA CurrentType == TypeOK => \A r \in Rooms : Current(r) \in Snapshots
  BY DEF TypeOK, Current, Snap, Snapshots

LEMMA UnavailableIsNoSnapshot == Unavailable \notin Snapshots /\ ResetRequired \notin Snapshots
  BY DEF Unavailable, ResetRequired, Snapshots

LEMMA WorkerStage ==
  ASSUME TypeOK, NEW w \in Workers
  PROVE  /\ worker[w].stage \in {"taken", "applied"} =>
              worker[w] = [stage |-> worker[w].stage, room |-> worker[w].room] /\ worker[w].room \in Rooms
         /\ worker[w].stage = "read" =>
              worker[w].room \in Rooms /\ worker[w].message \in Snapshots \cup {Unavailable}
         /\ worker[w] = Idle <=> worker[w].stage = "idle"
         /\ worker[w].stage \in {"idle", "taken", "read", "applied"}
<1>1. worker[w] \in Jobs
  BY DEF TypeOK, Jobs
<1>2. CASE worker[w] = Idle
  BY <1>2 DEF Idle
<1>3. CASE worker[w] \in [stage : {"taken", "applied"}, room : Rooms]
  BY <1>3 DEF Idle
<1>4. CASE worker[w] \in [stage : {"read"}, room : Rooms, message : Snapshots \cup {Unavailable}]
  BY <1>4 DEF Idle
<1>5. QED
  BY <1>1, <1>2, <1>3, <1>4 DEF Jobs

\* Encoding a snapshot gives the same snapshot.
LEMMA EncodedIs ==
  ASSUME TypeOK, NEW r \in Rooms, NEW m \in Snapshots \cup {Unavailable}
  PROVE  Encoded(r, m) = m
<1>1. CASE m = Unavailable
  BY <1>1 DEF Encoded
<1>2. CASE m # Unavailable
  <2>1. m \in Snapshots
    BY <1>2
  <2>2. CASE latest[r] = None \/ latest[r].epoch # m.epoch \/ latest[r].version # m.version
    BY <2>2 DEF Encoded
  <2>3. CASE ~ (latest[r] = None \/ latest[r].epoch # m.epoch \/ latest[r].version # m.version)
    <3>1. latest[r] \in Snapshots
      BY <2>3 DEF TypeOK
    <3>2. latest[r] = m
      BY <2>1, <2>3, <3>1 DEF Snapshots
    <3>3. QED
      BY <3>2 DEF Encoded
  <2>4. QED
    BY <2>2, <2>3
<1>3. QED
  BY <1>1, <1>2

LEMMA ForType ==
  ASSUME NEW c \in Clients, NEW state \in Snapshots \cup {Unavailable}
  PROVE  For(c, state, state) \in Messages
  BY DEF For, Messages

LEMMA InitType == Init => TypeOK
<1> SUFFICES ASSUME Init PROVE TypeOK
  OBVIOUS
<1>1. AdmissionLimits
  <2>1. \A r : Registered(r) = {}
    BY DEF Init, Registered
  <2>2. Cardinality({}) = 0 /\ IsFiniteSet(Seeded)
    BY Finite, FS_EmptySet, FS_Subset
  <2>3. Cardinality(Seeded) \in Nat
    BY <2>2, FS_CardinalityType
  <2>4. Cardinality(known) <= Cardinality(Seeded) + ExtraRooms
    BY <2>3, LimitType DEF Init
  <2>5. 0 <= MaxClients
    BY LimitType
  <2>6. QED
    BY <2>1, <2>2, <2>4, <2>5, Zenon DEF AdmissionLimits
<1>2. /\ epoch \in [Rooms -> 1..MaxEpoch] /\ version \in [Rooms -> 0..MaxVersion]
      /\ pending \in [Rooms -> Nat] /\ failures \in 0..MaxFailures /\ known \subseteq Rooms
  BY Finite, LimitType DEF Init
<1>6. /\ subscribed \in BOOLEAN
      /\ dirty \in [Rooms -> BOOLEAN] /\ refreshing \in [Rooms -> BOOLEAN] /\ lost \in [Rooms -> BOOLEAN]
  BY Zenon DEF Init
<1>3. /\ latest \in [Rooms -> Snapshots \cup {None}]
      /\ jobs \in Seq(Rooms) /\ Len(jobs) <= JobCap
      /\ worker \in [Workers -> Jobs]
  BY LimitType DEF Init, Jobs
<1>4. /\ conn \in [Clients -> {"away", "opening", "live", "closing", "gone"}]
      /\ cepoch \in [Clients -> 0..MaxEpoch]
      /\ queue \in [Clients -> Queues]
      /\ view \in [Clients -> Snapshots \cup {None}]
      /\ phase \in {"open", "marked", "cancelled", "done"}
      /\ exited \subseteq Background
  BY LimitType DEF Init, Queues
<1>5. QED
  BY <1>1, <1>2, <1>3, <1>4, <1>6 DEF TypeOK, Jobs, Queues

LEMMA StoreType ==
  ASSUME TypeOK, NEW r \in Rooms, Commit(r) \/ ResetRoom(r) \/ LoseNotification(r) \/ Dirty(r)
  PROVE  TypeOK'
<1>1. UNCHANGED <<subscribed, failures, known, refreshing, latest, jobs, worker, conn, cepoch, queue, view, phase, exited>>
  BY DEF Commit, ResetRoom, LoseNotification, Dirty, roomVars, clientVars
<1>2. AdmissionLimits'
  BY <1>1, LimitsShrink DEF TypeOK
<1>3. /\ epoch \in [Rooms -> 1..MaxEpoch] /\ version \in [Rooms -> 0..MaxVersion]
      /\ pending \in [Rooms -> Nat]
      /\ dirty \in [Rooms -> BOOLEAN] /\ lost \in [Rooms -> BOOLEAN]
  BY DEF TypeOK
<1>4. /\ epoch' \in [Rooms -> 1..MaxEpoch] /\ version' \in [Rooms -> 0..MaxVersion]
      /\ pending' \in [Rooms -> Nat]
  <2>1. CASE Commit(r)
    BY <1>3, <2>1, LimitType DEF Commit
  <2>2. CASE ResetRoom(r)
    BY <1>3, <2>2, LimitType DEF ResetRoom
  <2>3. CASE LoseNotification(r)
    BY <1>3, <2>3 DEF LoseNotification, storeVars
  <2>4. CASE Dirty(r)
    BY <1>3, <2>4 DEF Dirty, storeVars
  <2>5. QED
    BY <2>1, <2>2, <2>3, <2>4
<1>5. dirty' \in [Rooms -> BOOLEAN] /\ lost' \in [Rooms -> BOOLEAN]
  <2>1. CASE Commit(r)
    BY <1>3, <2>1 DEF Commit, roomVars
  <2>2. CASE ResetRoom(r)
    BY <1>3, <2>2 DEF ResetRoom, roomVars
  <2>3. CASE LoseNotification(r)
    BY <1>3, <2>3 DEF LoseNotification, roomVars
  <2>4. CASE Dirty(r)
    BY <1>3, <2>4 DEF Dirty
  <2>5. QED
    BY <2>1, <2>2, <2>3, <2>4
<1>6. QED
  BY <1>1, <1>2, <1>3, <1>4, <1>5 DEF TypeOK

LEMMA RunType ==
  ASSUME TypeOK, Subscribe \/ Disconnect \/ Reconcile
  PROVE  TypeOK'
<1>1. UNCHANGED <<epoch, version, pending, known, refreshing, latest, jobs, worker, conn, cepoch, queue, view, phase, exited>>
  BY DEF Subscribe, Disconnect, Reconcile, roomVars, clientVars, storeVars
<1>2. AdmissionLimits'
  BY <1>1, LimitsShrink DEF TypeOK
<1>3. subscribed' \in BOOLEAN /\ failures' \in 0..MaxFailures
  <2>1. subscribed \in BOOLEAN /\ failures \in 0..MaxFailures
    BY DEF TypeOK
  <2>2. failures' \in 0..MaxFailures
    BY <2>1, LimitType DEF Subscribe, Disconnect, Reconcile
  <2>3. subscribed' \in BOOLEAN
    BY <2>1, Zenon DEF Subscribe, Disconnect, Reconcile
  <2>4. QED
    BY <2>2, <2>3
<1>4. dirty' \in [Rooms -> BOOLEAN] /\ lost' \in [Rooms -> BOOLEAN]
  <2>1. \A r \in Rooms : (dirty[r] \/ r \in known) \in BOOLEAN
    OBVIOUS
  <2>2. CASE DirtyAll
    BY <2>1, <2>2 DEF DirtyAll
  <2>3. CASE Disconnect
    BY <2>3 DEF TypeOK, Disconnect, roomVars
  <2>4. QED
    BY <2>2, <2>3 DEF Subscribe, Reconcile
<1>5. QED
  BY <1>1, <1>2, <1>3, <1>4 DEF TypeOK

LEMMA BatchType ==
  ASSUME TypeOK, NEW batch \in Batches
  PROVE  /\ batch \in Seq(Rooms)
         /\ \E n \in Nat : batch \in [1..n -> Ready]
         /\ Ready \subseteq Rooms
<1>1. PICK n \in 0..Cardinality(Ready) : batch \in [1..n -> Ready]
  BY DEF Batches
<1>2. Ready \subseteq Rooms /\ n \in Nat
  <2>1. Ready \in SUBSET Rooms
    BY DEF Ready, TypeOK
  <2>2. IsFiniteSet(Ready)
    BY <2>1, Finite, FS_Subset
  <2>3. Cardinality(Ready) \in Nat
    BY <2>2, FS_CardinalityType
  <2>4. QED
    BY <2>1, <2>3
<1>3. batch \in Seq(Rooms)
  BY <1>1, <1>2
<1>4. QED
  BY <1>1, <1>2, <1>3

LEMMA CoalesceType == TypeOK /\ Coalesce => TypeOK'
<1> SUFFICES ASSUME TypeOK, Coalesce PROVE TypeOK'
  OBVIOUS
<1>1. UNCHANGED <<epoch, version, pending, subscribed, failures, known, latest, worker, conn, cepoch, queue, view, phase, exited, lost>>
  BY DEF Coalesce, clientVars, storeVars
<1>2. AdmissionLimits'
  BY <1>1, LimitsShrink DEF TypeOK
<1>3. PICK batch \in Batches :
        LET sent == {batch[i] : i \in DOMAIN batch} IN
        /\ jobs' = jobs \o batch
        /\ dirty' = [r \in Rooms |-> dirty[r] /\ r \notin sent]
        /\ refreshing' = [r \in Rooms |-> refreshing[r] \/ r \in sent]
  BY DEF Coalesce
<1>4. dirty' \in [Rooms -> BOOLEAN] /\ refreshing' \in [Rooms -> BOOLEAN]
  <2> DEFINE sent == {batch[i] : i \in DOMAIN batch}
  <2>1. /\ dirty' = [r \in Rooms |-> dirty[r] /\ r \notin sent]
        /\ refreshing' = [r \in Rooms |-> refreshing[r] \/ r \in sent]
    BY <1>3
  <2> HIDE DEF sent
  <2>2. QED
    BY <2>1
<1>7. batch \in Seq(Rooms)
  BY BatchType
<1>8. jobs' \in Seq(Rooms) /\ Len(jobs') <= JobCap
  <2>1. jobs \in Seq(Rooms)
    BY DEF TypeOK
  <2>2. Len(jobs') = Len(jobs) + Len(batch) /\ jobs' \in Seq(Rooms)
    BY <1>3, <1>7, <2>1
  <2>3. Len(jobs) + Len(batch) <= JobCap
    BY <1>7, <2>1, LimitType DEF Batches
  <2>4. QED
    BY <2>2, <2>3
<1>9. QED
  BY <1>1, <1>2, <1>4, <1>8 DEF TypeOK

LEMMA TakeType ==
  ASSUME TypeOK, NEW w \in Workers, Take(w)
  PROVE  TypeOK'
<1>1. UNCHANGED <<epoch, version, pending, subscribed, failures, known, dirty, refreshing, latest,
                  conn, cepoch, queue, view, phase, exited, lost>>
  BY DEF Take, roomVars, clientVars, storeVars
<1>2. AdmissionLimits'
  BY <1>1, LimitsShrink DEF TypeOK
<1>3. jobs \in Seq(Rooms) /\ Len(jobs) <= JobCap /\ jobs # << >>
  BY DEF TypeOK, Take
<1>4. Head(jobs) \in Rooms /\ Tail(jobs) \in Seq(Rooms) /\ Len(Tail(jobs)) = Len(jobs) - 1
  BY <1>3
<1>5. jobs' \in Seq(Rooms) /\ Len(jobs') <= JobCap
  BY <1>3, <1>4, LimitType DEF Take
<1>6. [stage |-> "taken", room |-> Head(jobs)] \in Jobs
  BY <1>4 DEF Jobs
<1>7. worker' \in [Workers -> Jobs]
  BY <1>6, WorkerType DEF Take
<1>8. QED
  BY <1>1, <1>2, <1>5, <1>7 DEF TypeOK, Jobs

LEMMA ReadType ==
  ASSUME TypeOK, NEW w \in Workers, ReadSnapshot(w) \/ ReadFails(w)
  PROVE  TypeOK'
<1>1. UNCHANGED <<epoch, version, pending, subscribed, known, dirty, refreshing, latest, jobs,
                  conn, cepoch, queue, view, phase, exited>>
  BY DEF ReadSnapshot, ReadFails, roomVars, clientVars, storeVars
<1>2. AdmissionLimits'
  BY <1>1, LimitsShrink DEF TypeOK
<1>3. worker[w].stage = "taken" /\ worker[w].room \in Rooms
  BY WorkerStage DEF ReadSnapshot, ReadFails
<1>4. \E m \in Snapshots \cup {Unavailable} :
        worker' = [worker EXCEPT ![w] = [stage |-> "read", room |-> @.room, message |-> m]]
  BY <1>3, CurrentType DEF ReadSnapshot, ReadFails
<1>5. \E job \in Jobs : worker' = [worker EXCEPT ![w] = job]
  BY <1>3, <1>4 DEF Jobs
<1>6. worker' \in [Workers -> Jobs]
  BY <1>5, WorkerType
<1>7. failures' \in 0..MaxFailures
  <2>1. failures \in 0..MaxFailures
    BY DEF TypeOK
  <2>2. QED
    BY <2>1, LimitType DEF ReadSnapshot, ReadFails
<1>8. lost' \in [Rooms -> BOOLEAN]
  <2>1. lost \in [Rooms -> BOOLEAN]
    BY DEF TypeOK
  <2>2. QED
    BY <2>1 DEF ReadSnapshot, ReadFails
<1>9. QED
  BY <1>1, <1>2, <1>6, <1>7, <1>8 DEF TypeOK, Jobs

\* What a worker broadcasts is the snapshot it read, or that none was available.
LEMMA ApplyIs ==
  ASSUME TypeOK, NEW w \in Workers, Apply(w)
  PROVE  LET r == worker[w].room
             state == worker[w].message
         IN  /\ worker[w].stage = "read" /\ r \in Rooms /\ state \in Snapshots \cup {Unavailable}
             /\ latest' = IF state = Unavailable THEN latest ELSE [latest EXCEPT ![r] = state]
             /\ queue' = [c \in Clients |-> IF c \in Registered(r) THEN << For(c, state, state) >>
                                                                 ELSE queue[c]]
             /\ worker' = [worker EXCEPT ![w] = [stage |-> "applied", room |-> r]]
<1> DEFINE r == worker[w].room
           state == worker[w].message
<1>1. worker[w].stage = "read"
  BY DEF Apply
<1>2. r \in Rooms /\ state \in Snapshots \cup {Unavailable}
  BY <1>1, WorkerStage
<1>3. Encoded(r, state) = state
  BY <1>2, EncodedIs
<1>4. /\ latest' = IF state = Unavailable THEN latest ELSE [latest EXCEPT ![r] = Encoded(r, state)]
      /\ queue' = [c \in Clients |-> IF c \in Registered(r)
                                     THEN << For(c, state, Encoded(r, state)) >> ELSE queue[c]]
      /\ worker' = [worker EXCEPT ![w] = [stage |-> "applied", room |-> r]]
  BY Zenon DEF Apply
<1> HIDE DEF r, state
<1>5. /\ latest' = IF state = Unavailable THEN latest ELSE [latest EXCEPT ![r] = state]
      /\ queue' = [c \in Clients |-> IF c \in Registered(r)
                                     THEN << For(c, state, state) >> ELSE queue[c]]
  BY <1>3, <1>4
<1>6. QED
  BY <1>1, <1>2, <1>4, <1>5 DEF r, state

LEMMA ApplyType ==
  ASSUME TypeOK, NEW w \in Workers, Apply(w)
  PROVE  TypeOK'
<1> DEFINE r == worker[w].room
           state == worker[w].message
<1>1. UNCHANGED <<epoch, version, pending, subscribed, failures, known, dirty, refreshing, jobs,
                  conn, cepoch, view, phase, exited, lost>>
  BY DEF Apply, storeVars
<1>2. AdmissionLimits'
  BY <1>1, LimitsShrink DEF TypeOK
<1>3. /\ worker[w].stage = "read" /\ r \in Rooms /\ state \in Snapshots \cup {Unavailable}
      /\ latest' = IF state = Unavailable THEN latest ELSE [latest EXCEPT ![r] = state]
      /\ queue' = [c \in Clients |-> IF c \in Registered(r) THEN << For(c, state, state) >>
                                                            ELSE queue[c]]
      /\ worker' = [worker EXCEPT ![w] = [stage |-> "applied", room |-> r]]
  BY ApplyIs
<1> HIDE DEF r, state
<1>4. latest' \in [Rooms -> Snapshots \cup {None}]
  <2>1. latest \in [Rooms -> Snapshots \cup {None}]
    BY DEF TypeOK
  <2>2. QED
    BY <1>3, <2>1
<1>5. queue' \in [Clients -> Queues]
  <2>1. \A c \in Clients : << For(c, state, state) >> \in Queues
    BY <1>3, ForType DEF Queues
  <2>2. QED
    BY <1>3, <2>1, QueueType
<1>6. [stage |-> "applied", room |-> r] \in Jobs
  BY <1>3 DEF Jobs
<1>7. worker' \in [Workers -> Jobs]
  BY <1>3, <1>6, WorkerType
<1>8. QED
  BY <1>1, <1>2, <1>4, <1>5, <1>7 DEF TypeOK, Jobs, Queues

LEMMA FinishType ==
  ASSUME TypeOK, NEW w \in Workers, Finish(w)
  PROVE  TypeOK'
<1>1. UNCHANGED <<epoch, version, pending, subscribed, failures, known, dirty, latest, jobs,
                  conn, cepoch, queue, view, phase, exited, lost>>
  BY DEF Finish, clientVars, storeVars
<1>2. AdmissionLimits'
  BY <1>1, LimitsShrink DEF TypeOK
<1>3. Idle \in Jobs
  BY DEF Jobs
<1>4. worker' \in [Workers -> Jobs]
  BY <1>3, WorkerType DEF Finish
<1>5. refreshing' \in [Rooms -> BOOLEAN]
  <2>1. refreshing \in [Rooms -> BOOLEAN]
    BY DEF TypeOK
  <2>2. QED
    BY <2>1 DEF Finish
<1>6. QED
  BY <1>1, <1>2, <1>4, <1>5 DEF TypeOK, Jobs

\* Serving a connection touches the client's side, and known and dirty when it registers.
LEMMA ServeType ==
  ASSUME TypeOK, NEW c \in Clients,
         Open(c) \/ Register(c) \/ Refuse(c) \/ Write(c) \/ Drop(c) \/ Leave(c)
  PROVE  TypeOK'
<1>1. UNCHANGED <<epoch, version, pending, subscribed, failures, refreshing, latest, jobs, worker,
                  phase, exited, lost>>
  BY DEF Open, Register, Refuse, Write, Drop, Leave, roomVars, storeVars
<1>2. /\ conn \in [Clients -> {"away", "opening", "live", "closing", "gone"}]
      /\ cepoch \in [Clients -> 0..MaxEpoch] /\ view \in [Clients -> Snapshots \cup {None}]
      /\ queue \in [Clients -> Queues]
      /\ dirty \in [Rooms -> BOOLEAN] /\ known \subseteq Rooms /\ epoch \in [Rooms -> 1..MaxEpoch]
      /\ AdmissionLimits /\ RoomOf[c] \in Rooms
  BY RoomType, QueueType DEF TypeOK
<1>3. conn' \in [Clients -> {"away", "opening", "live", "closing", "gone"}]
  BY <1>2 DEF Open, Register, Refuse, Write, Drop, Leave
<1>4. cepoch' \in [Clients -> 0..MaxEpoch]
  <2>1. epoch[RoomOf[c]] \in 0..MaxEpoch
    BY <1>2, LimitType
  <2>2. QED
    BY <1>2, <2>1 DEF Open, Register, Refuse, Write, Drop, Leave
<1>5. /\ view' \in [Clients -> Snapshots \cup {None}]
      /\ queue' \in [Clients -> Queues]
  <2>1. CASE Write(c)
    <3>1. queue' = [queue EXCEPT ![c] = << >>]
      BY <2>1 DEF Write
    <3>2. queue' \in [Clients -> Queues]
      BY <1>2, <3>1 DEF Queues
    <3>3. view' \in [Clients -> Snapshots \cup {None}]
      <4>1. view' = view \/ \E m \in Snapshots : view' = [view EXCEPT ![c] = m]
        BY <2>1 DEF Write
      <4>2. QED
        BY <1>2, <4>1
    <3>4. QED
      BY <1>2, <3>2, <3>3
  <2>2. CASE UNCHANGED <<queue, view>>
    BY <1>2, <2>2
  <2>3. QED
    BY <2>1, <2>2 DEF Open, Register, Refuse, Drop, Leave
<1>6. dirty' \in [Rooms -> BOOLEAN] /\ known' \subseteq Rooms
  BY <1>2 DEF Open, Register, Refuse, Write, Drop, Leave, roomVars
<1>7. AdmissionLimits'
  <2>1. CASE Register(c)
    BY <1>2, <2>1, RegisterWithinLimits DEF Register
  <2>2. CASE Refuse(c)
    <3>1. \A o \in Clients : conn'[o] \in {"live", "closing"} <=> conn[o] \in {"live", "closing"}
      BY <1>2, <2>2 DEF Refuse
    <3>2. QED
      BY <1>2, <2>2, <3>1, RefuseWithinLimits DEF Refuse
  <2>3. CASE Open(c) \/ Write(c) \/ Drop(c) \/ Leave(c)
    <3>1. known' = known
      BY <2>3 DEF Open, Write, Drop, Leave, roomVars
    <3>2. \A o \in Clients : conn'[o] \in {"live", "closing"} => conn[o] \in {"live", "closing"}
      BY <1>2, <2>3 DEF Open, Write, Drop, Leave
    <3>3. QED
      BY <1>2, <3>1, <3>2, LimitsShrink
  <2>4. QED
    BY <2>1, <2>2, <2>3
<1>8. QED
  BY <1>1, <1>3, <1>4, <1>5, <1>6, <1>7 DEF TypeOK, Queues

LEMMA CloseType ==
  ASSUME TypeOK, CloseClients \/ Cancel \/ Closed \/ \E g \in Background : Exit(g)
  PROVE  TypeOK'
<1>1. UNCHANGED <<epoch, version, pending, subscribed, failures, known, dirty, refreshing, latest,
                  jobs, worker, cepoch, queue, view, lost>>
  BY DEF CloseClients, Cancel, Closed, Exit, roomVars, clientVars, storeVars
<1>2. conn \in [Clients -> {"away", "opening", "live", "closing", "gone"}] /\ AdmissionLimits
  BY DEF TypeOK
<1>3. /\ conn' \in [Clients -> {"away", "opening", "live", "closing", "gone"}]
      /\ \A o \in Clients : conn'[o] \in {"live", "closing"} => conn[o] \in {"live", "closing"}
  BY <1>2 DEF CloseClients, Cancel, Closed, Exit, clientVars
<1>4. AdmissionLimits'
  BY <1>1, <1>2, <1>3, LimitsShrink
<1>5. phase' \in {"open", "marked", "cancelled", "done"} /\ exited' \subseteq Background
  BY DEF TypeOK, CloseClients, Cancel, Closed, Exit
<1>6. QED
  BY <1>1, <1>3, <1>4, <1>5 DEF TypeOK

LEMMA NextType == TypeOK /\ [Next]_vars => TypeOK'
<1> SUFFICES ASSUME TypeOK, [Next]_vars PROVE TypeOK'
  OBVIOUS
<1>1. CASE UNCHANGED vars
  <2>1. UNCHANGED <<epoch, version, pending, subscribed, failures, known, dirty, refreshing, latest, jobs,
                    worker, conn, cepoch, queue, view, phase, exited, lost>>
    BY <1>1 DEF vars
  <2>2. AdmissionLimits'
    BY <2>1, LimitsShrink DEF TypeOK
  <2>3. QED
    BY <2>1, <2>2 DEF TypeOK
<1>2. QED
  BY <1>1, StoreType, RunType, CoalesceType, TakeType, ReadType, ApplyType, FinishType, ServeType,
     CloseType DEF Next

(***************************************************************************)
(* The hub's state keeps its shape, and no race of registrations, refusals *)
(* and departures takes a room, a participant or the hub over its limit.   *)
(***************************************************************************)
THEOREM TypeCorrect == Spec => []TypeOK
<1>1. QED
  BY InitType, NextType, PTL DEF Spec
-----------------------------------------------------------------------------
(***************************************************************************)
(* One refresh per room.  The invariant says which refresh there is, so    *)
(* that it is inductive without counting.                                  *)
(***************************************************************************)
SingleRefresh(r) ==
  \/ ~refreshing[r] /\ Busy(r) = {} /\ Queued(r) = {}
  \/ refreshing[r] /\ Queued(r) = {} /\ \E w \in Workers : Busy(r) = {w}
  \/ refreshing[r] /\ Busy(r) = {} /\ \E i \in DOMAIN jobs : Queued(r) = {i}
SingleRefreshes == \A r \in Rooms : SingleRefresh(r)

LEMMA ConcatIs ==
  \A s, t \in Seq(Rooms) :
    /\ DOMAIN s = 1..Len(s) /\ Len(s) \in Nat /\ DOMAIN (s \o t) = 1..(Len(s) + Len(t))
    /\ \A i \in 1..Len(s) : (s \o t)[i] = s[i]
    /\ \A i \in 1..Len(t) : (s \o t)[Len(s) + i] = t[i]
<1> SUFFICES ASSUME NEW s \in Seq(Rooms), NEW t \in Seq(Rooms)
    PROVE  /\ DOMAIN s = 1..Len(s) /\ Len(s) \in Nat /\ DOMAIN (s \o t) = 1..(Len(s) + Len(t))
           /\ \A i \in 1..Len(s) : (s \o t)[i] = s[i]
           /\ \A i \in 1..Len(t) : (s \o t)[Len(s) + i] = t[i]
  BY Zenon
<1>1. Len(s) \in Nat /\ Len(t) \in Nat /\ DOMAIN s = 1..Len(s)
  OBVIOUS
<1>2. s \o t \in Seq(Rooms) /\ Len(s \o t) = Len(s) + Len(t)
  OBVIOUS
<1>3. DOMAIN (s \o t) = 1..(Len(s) + Len(t))
  BY <1>2
<1>4. \A i \in 1..Len(s) : (s \o t)[i] = s[i]
  BY <1>1, <1>3
<1>5. ASSUME NEW i \in 1..Len(t) PROVE (s \o t)[Len(s) + i] = t[i]
  <2>1. Len(s) + i \in 1..(Len(s) + Len(t)) /\ Len(s) + i > Len(s)
    BY <1>1
  <2>2. (Len(s) + i) - Len(s) = i
    BY <1>1
  <2>3. QED
    BY <2>1, <2>2
<1>6. QED
  BY <1>1, <1>3, <1>4, <1>5

LEMMA CoalesceSingle == TypeOK /\ SingleRefreshes /\ Coalesce => SingleRefreshes'
<1> SUFFICES ASSUME TypeOK, SingleRefreshes, Coalesce, NEW r \in Rooms PROVE SingleRefresh(r)'
  BY DEF SingleRefreshes
<1>1. PICK batch \in Batches :
        LET sent == {batch[i] : i \in DOMAIN batch} IN
        /\ jobs' = jobs \o batch
        /\ refreshing' = [x \in Rooms |-> refreshing[x] \/ x \in sent]
  BY DEF Coalesce
<1> DEFINE sent == {batch[i] : i \in DOMAIN batch}
<1>2. PICK n \in Nat : batch \in [1..n -> Ready]
  BY BatchType
<1>3. n \in Nat /\ Ready \subseteq Rooms
  BY BatchType
<1>4. batch \in Seq(Rooms) /\ jobs \in Seq(Rooms) /\ Len(batch) = n /\ DOMAIN batch = 1..n
  BY <1>2, <1>3, BatchType DEF TypeOK
<1>5. /\ DOMAIN jobs' = 1..(Len(jobs) + n) /\ DOMAIN jobs = 1..Len(jobs) /\ Len(jobs) \in Nat
      /\ \A i \in 1..Len(jobs) : jobs'[i] = jobs[i]
      /\ \A i \in 1..n : jobs'[Len(jobs) + i] = batch[i]
  <2>1. jobs' = jobs \o batch
    BY <1>1
  <2>2. /\ DOMAIN jobs = 1..Len(jobs) /\ Len(jobs) \in Nat
        /\ DOMAIN (jobs \o batch) = 1..(Len(jobs) + Len(batch))
        /\ \A i \in 1..Len(jobs) : (jobs \o batch)[i] = jobs[i]
        /\ \A i \in 1..Len(batch) : (jobs \o batch)[Len(jobs) + i] = batch[i]
    <3>1. jobs \in Seq(Rooms) /\ batch \in Seq(Rooms)
      BY <1>4
    <3>2. QED
      BY <3>1, ConcatIs, Zenon
  <2>3. QED
    BY <1>4, <2>1, <2>2, Zenon
<1>6. Busy(r)' = Busy(r)
  BY DEF Coalesce, Busy
<1>7. refreshing'[r] <=> refreshing[r] \/ r \in sent
  BY <1>1
<1>8. CASE r \in sent
  <2>1. PICK k \in 1..n : batch[k] = r
    BY <1>4, <1>8
  <2>2. ~refreshing[r]
    BY <1>2, <2>1 DEF Ready
  <2>3. Busy(r) = {} /\ Queued(r) = {}
    BY <2>2 DEF SingleRefreshes, SingleRefresh
  <2>4. \A i \in 1..n : batch[i] = r => i = k
    BY <1>4, <2>1 DEF Batches
  <2>5. \A i \in 1..Len(jobs) : jobs[i] # r
    BY <1>5, <2>3 DEF Queued
  <2>6. \A i \in DOMAIN jobs' : jobs'[i] = r <=> i = Len(jobs) + k
    <3>1. ASSUME NEW i \in DOMAIN jobs' PROVE jobs'[i] = r <=> i = Len(jobs) + k
      <4>1. CASE i \in 1..Len(jobs)
        BY <1>5, <2>5, <4>1, <1>3
      <4>2. CASE i \notin 1..Len(jobs)
        <5>1. i - Len(jobs) \in 1..n /\ i = Len(jobs) + (i - Len(jobs))
          BY <1>3, <1>5, <4>2
        <5>2. jobs'[i] = batch[i - Len(jobs)]
          BY <1>5, <5>1
        <5>3. QED
          BY <1>5, <2>1, <2>4, <5>1, <5>2
      <4>3. QED
        BY <4>1, <4>2
    <3>2. QED
      BY <3>1
  <2>7. Len(jobs) + k \in DOMAIN jobs'
    BY <1>3, <1>5
  <2>8. Queued(r)' = {Len(jobs) + k}
    BY <2>6, <2>7 DEF Queued
  <2>9. QED
    BY <1>6, <1>7, <1>8, <2>3, <2>7, <2>8 DEF SingleRefresh
<1>9. CASE r \notin sent
  <2>1. \A i \in 1..n : batch[i] # r
    BY <1>4, <1>9
  <2>2. \A i \in DOMAIN jobs' : jobs'[i] = r <=> i \in DOMAIN jobs /\ jobs[i] = r
    <3>1. ASSUME NEW i \in DOMAIN jobs' PROVE jobs'[i] = r <=> i \in DOMAIN jobs /\ jobs[i] = r
      <4>1. CASE i \in 1..Len(jobs)
        BY <1>5, <4>1
      <4>2. CASE i \notin 1..Len(jobs)
        <5>1. i - Len(jobs) \in 1..n /\ i = Len(jobs) + (i - Len(jobs))
          BY <1>3, <1>5, <4>2
        <5>2. jobs'[i] = batch[i - Len(jobs)]
          BY <1>5, <5>1
        <5>3. QED
          BY <1>5, <2>1, <4>2, <5>1, <5>2
      <4>3. QED
        BY <4>1, <4>2
    <3>2. QED
      BY <3>1
  <2>3. DOMAIN jobs \subseteq DOMAIN jobs'
    BY <1>3, <1>5
  <2>4. Queued(r)' = Queued(r)
    BY <2>2, <2>3 DEF Queued
  <2>5. QED
    BY <1>6, <1>7, <1>9, <2>3, <2>4 DEF SingleRefreshes, SingleRefresh
<1>10. QED
  BY <1>8, <1>9

LEMMA TakeSingle ==
  ASSUME TypeOK, SingleRefreshes, NEW w \in Workers, Take(w)
  PROVE  SingleRefreshes'
<1> SUFFICES ASSUME NEW r \in Rooms PROVE SingleRefresh(r)'
  BY DEF SingleRefreshes
<1>1. /\ jobs \in Seq(Rooms) /\ jobs # << >> /\ worker[w] = Idle
      /\ jobs' = Tail(jobs) /\ refreshing' = refreshing
      /\ worker' = [worker EXCEPT ![w] = [stage |-> "taken", room |-> Head(jobs)]]
  BY DEF TypeOK, Take, roomVars
<1>2. /\ DOMAIN jobs = 1..Len(jobs) /\ Len(jobs) \in Nat \ {0} /\ Head(jobs) = jobs[1]
      /\ DOMAIN jobs' = 1..(Len(jobs) - 1)
      /\ \A i \in 1..(Len(jobs) - 1) : jobs'[i] = jobs[i + 1]
  BY <1>1
<1>3. w \notin Busy(r) /\ \A x \in Workers : x # w => (x \in Busy(r)' <=> x \in Busy(r))
  BY <1>1 DEF Busy
<1>4. w \in Busy(r)' <=> r = jobs[1]
  <2>1. worker'[w] = [stage |-> "taken", room |-> jobs[1]]
    BY <1>1, <1>2, WorkerType
  <2>2. worker'[w] # Idle /\ worker'[w].room = jobs[1]
    BY <2>1 DEF Idle
  <2>3. QED
    BY <2>2 DEF Busy
<1>5. \A i \in DOMAIN jobs' : i \in Queued(r)' <=> i + 1 \in Queued(r)
  BY <1>2 DEF Queued
<1>6. Queued(r)' \subseteq DOMAIN jobs' /\ Queued(r) \subseteq DOMAIN jobs
      /\ Busy(r) \subseteq Workers /\ Busy(r)' \subseteq Workers
  BY DEF Queued, Busy
<1>7. CASE r = jobs[1]
  <2>1. 1 \in Queued(r)
    BY <1>2, <1>7 DEF Queued
  <2>2. refreshing[r] /\ Busy(r) = {} /\ Queued(r) = {1}
    BY <2>1 DEF SingleRefreshes, SingleRefresh
  <2>3. Queued(r)' = {}
    BY <1>2, <1>5, <1>6, <2>2
  <2>4. Busy(r)' = {w}
    BY <1>3, <1>4, <1>6, <1>7, <2>2
  <2>5. QED
    BY <1>1, <2>2, <2>3, <2>4 DEF SingleRefresh
<1>8. CASE r # jobs[1]
  <2>1. Busy(r)' = Busy(r)
    BY <1>3, <1>4, <1>6, <1>8
  <2>2. 1 \notin Queued(r)
    BY <1>8 DEF Queued
  <2>3. Queued(r) = {} => Queued(r)' = {}
    BY <1>5, <1>6
  <2>4. ASSUME NEW i \in DOMAIN jobs, Queued(r) = {i}
        PROVE  i - 1 \in DOMAIN jobs' /\ Queued(r)' = {i - 1}
    <3>1. i \in 2..Len(jobs)
      BY <1>2, <2>2, <2>4
    <3>2. i - 1 \in DOMAIN jobs' /\ (i - 1) + 1 = i
      BY <1>2, <3>1
    <3>3. \A j \in DOMAIN jobs' : j + 1 = i <=> j = i - 1
      BY <1>2, <3>1
    <3>4. QED
      BY <1>5, <1>6, <2>4, <3>2, <3>3
  <2>5. SingleRefresh(r) /\ refreshing' = refreshing
    BY <1>1 DEF SingleRefreshes
  <2>6. QED
    BY <2>1, <2>3, <2>4, <2>5 DEF SingleRefresh
<1>9. QED
  BY <1>7, <1>8

LEMMA FinishSingle ==
  ASSUME TypeOK, SingleRefreshes, NEW w \in Workers, Finish(w)
  PROVE  SingleRefreshes'
<1> SUFFICES ASSUME NEW r \in Rooms PROVE SingleRefresh(r)'
  BY DEF SingleRefreshes
<1> DEFINE ended == worker[w].room
<1>1. /\ worker[w].stage = "applied" /\ jobs' = jobs
      /\ refreshing' = [refreshing EXCEPT ![ended] = FALSE]
      /\ worker' = [worker EXCEPT ![w] = Idle]
  BY DEF Finish
<1>2. ended \in Rooms /\ worker[w] # Idle /\ refreshing \in [Rooms -> BOOLEAN]
  BY <1>1, WorkerStage DEF TypeOK
<1> HIDE DEF ended
<1>3. Queued(r)' = Queued(r)
  BY <1>1 DEF Queued
<1>4. Busy(r)' = Busy(r) \ {w}
  <2>1. worker'[w] = Idle /\ \A x \in Workers : x # w => worker'[x] = worker[x]
    BY <1>1, WorkerType
  <2>2. QED
    BY <2>1 DEF Busy
<1>5. CASE r = ended
  <2>1. w \in Busy(r)
    BY <1>2, <1>5 DEF Busy, ended
  <2>2. Queued(r) = {} /\ Busy(r) = {w}
    BY <2>1 DEF SingleRefreshes, SingleRefresh
  <2>3. ~refreshing'[r]
    BY <1>1, <1>2, <1>5
  <2>4. QED
    BY <1>3, <1>4, <2>2, <2>3 DEF SingleRefresh
<1>6. CASE r # ended
  <2>1. w \notin Busy(r)
    BY <1>6 DEF Busy, ended
  <2>2. Busy(r)' = Busy(r) /\ refreshing'[r] = refreshing[r]
    BY <1>1, <1>2, <1>4, <1>6, <2>1
  <2>3. QED
    BY <1>1, <1>3, <2>2 DEF SingleRefreshes, SingleRefresh
<1>7. QED
  BY <1>5, <1>6

\* The steps that neither start nor end a refresh.
RefreshesStay ==
  /\ jobs' = jobs /\ refreshing' = refreshing
  /\ \A r \in Rooms : Busy(r)' = Busy(r)

LEMMA ProgressStays ==
  ASSUME TypeOK, NEW w \in Workers, ReadSnapshot(w) \/ ReadFails(w) \/ Apply(w)
  PROVE  RefreshesStay
<1>1. jobs' = jobs /\ refreshing' = refreshing
  BY DEF ReadSnapshot, ReadFails, Apply, roomVars
<1>2. worker[w].stage \in {"taken", "read"}
  BY DEF ReadSnapshot, ReadFails, Apply
<1>3. \E m : \/ worker' = [worker EXCEPT ![w] = [stage |-> "read", room |-> worker[w].room, message |-> m]]
             \/ worker' = [worker EXCEPT ![w] = [stage |-> "applied", room |-> worker[w].room]]
  BY DEF ReadSnapshot, ReadFails, Apply
<1>4. worker[w] # Idle /\ worker'[w] # Idle /\ worker'[w].room = worker[w].room
      /\ \A x \in Workers : x # w => worker'[x] = worker[x]
  <2>1. \E m : \/ worker'[w] = [stage |-> "read", room |-> worker[w].room, message |-> m]
               \/ worker'[w] = [stage |-> "applied", room |-> worker[w].room]
    BY <1>3, WorkerType
  <2>2. worker'[w] # Idle /\ worker'[w].room = worker[w].room
    BY <2>1 DEF Idle
  <2>3. worker[w] # Idle
    BY <1>2 DEF Idle
  <2>4. QED
    BY <1>3, <2>2, <2>3, WorkerType
<1>5. ASSUME NEW r \in Rooms PROVE Busy(r)' = Busy(r)
  BY <1>4 DEF Busy
<1>6. QED
  BY <1>1, <1>5 DEF RefreshesStay

LEMMA OthersStay ==
  ASSUME \/ \E r \in Rooms : Commit(r) \/ ResetRoom(r) \/ LoseNotification(r) \/ Dirty(r)
         \/ Subscribe \/ Disconnect \/ Reconcile
         \/ \E c \in Clients : Open(c) \/ Register(c) \/ Refuse(c) \/ Write(c) \/ Drop(c) \/ Leave(c)
         \/ CloseClients \/ Cancel \/ Closed
         \/ \E g \in Background : Exit(g)
         \/ UNCHANGED vars
  PROVE  UNCHANGED <<jobs, refreshing, worker>>
<1>1. CASE \/ \E r \in Rooms : Commit(r) \/ ResetRoom(r) \/ LoseNotification(r) \/ Dirty(r)
           \/ Subscribe \/ Disconnect \/ Reconcile
  BY <1>1 DEF Commit, ResetRoom, LoseNotification, Dirty, Subscribe, Disconnect, Reconcile, roomVars
<1>2. CASE \E c \in Clients : Open(c) \/ Register(c) \/ Refuse(c) \/ Write(c) \/ Drop(c) \/ Leave(c)
  BY <1>2 DEF Open, Register, Refuse, Write, Drop, Leave, roomVars
<1>3. CASE CloseClients \/ Cancel \/ Closed \/ \E g \in Background : Exit(g)
  BY <1>3 DEF CloseClients, Cancel, Closed, Exit, roomVars
<1>4. CASE UNCHANGED vars
  BY <1>4 DEF vars
<1>5. QED
  BY <1>1, <1>2, <1>3, <1>4

LEMMA SingleStep == TypeOK /\ SingleRefreshes /\ [Next]_vars => SingleRefreshes'
<1> SUFFICES ASSUME TypeOK, SingleRefreshes, [Next]_vars PROVE SingleRefreshes'
  OBVIOUS
<1>1. CASE RefreshesStay
  <2>1. \A r \in Rooms : Queued(r)' = Queued(r)
    BY <1>1 DEF RefreshesStay, Queued
  <2>2. QED
    BY <1>1, <2>1 DEF RefreshesStay, SingleRefreshes, SingleRefresh
<1>2. CASE UNCHANGED <<jobs, refreshing, worker>>
  <2>1. RefreshesStay
    BY <1>2 DEF RefreshesStay, Busy
  <2>2. QED
    BY <1>1, <2>1
<1>3. QED
  BY <1>1, <1>2, CoalesceSingle, TakeSingle, FinishSingle, ProgressStays, OthersStay DEF Next

LEMMA SingleIsOne == TypeOK /\ SingleRefreshes => OneRefreshPerRoom
<1> SUFFICES ASSUME TypeOK, SingleRefreshes, NEW r \in Rooms
             PROVE  Cardinality(Busy(r)) + Cardinality(Queued(r)) = IF refreshing[r] THEN 1 ELSE 0
  BY DEF OneRefreshPerRoom
<1>1. Cardinality({}) = 0 /\ \A x : Cardinality({x}) = 1
  BY FS_EmptySet, FS_Singleton
<1>2. CASE ~refreshing[r] /\ Busy(r) = {} /\ Queued(r) = {}
  BY <1>1, <1>2
<1>3. CASE refreshing[r] /\ Queued(r) = {} /\ \E w \in Workers : Busy(r) = {w}
  <2>1. Cardinality(Busy(r)) = 1 /\ Cardinality(Queued(r)) = 0
    BY <1>1, <1>3, Zenon
  <2>2. QED
    BY <1>3, <2>1
<1>4. CASE refreshing[r] /\ Busy(r) = {} /\ \E i \in DOMAIN jobs : Queued(r) = {i}
  <2>1. Cardinality(Busy(r)) = 0 /\ Cardinality(Queued(r)) = 1
    BY <1>1, <1>4, Zenon
  <2>2. QED
    BY <1>4, <2>1
<1>5. QED
  BY <1>2, <1>3, <1>4 DEF SingleRefreshes, SingleRefresh

LEMMA SingleAlways == Spec => []SingleRefreshes
<1>1. Init => SingleRefreshes
  <2>1. ASSUME Init PROVE \A r \in Rooms : Busy(r) = {} /\ Queued(r) = {} /\ ~refreshing[r]
    BY <2>1 DEF Init, Busy, Queued
  <2>2. QED
    BY <2>1 DEF SingleRefreshes, SingleRefresh
<1>2. QED
  BY <1>1, SingleStep, TypeCorrect, PTL DEF Spec

(***************************************************************************)
(* No two refreshes of a room are ever queued or running together.         *)
(***************************************************************************)
THEOREM RefreshesAreSingle == Spec => []OneRefreshPerRoom
<1>1. QED
  BY SingleAlways, SingleIsOne, TypeCorrect, PTL
-----------------------------------------------------------------------------
(***************************************************************************)
(* Boards of one's own epoch.  A connection is given its epoch before it   *)
(* is sent anything, and For compares every snapshot with that epoch.      *)
(***************************************************************************)
NothingBeforeItIsLive ==
  \A c \in Clients : conn[c] \in {"away", "opening"} => queue[c] = << >> /\ view[c] = None
OwnEpochs == NothingBeforeItIsLive /\ OnlyOwnEpoch

\* The steps that send, show and reopen nothing.
NothingIsSent ==
  /\ UNCHANGED <<cepoch, queue, view>>
  /\ \A c \in Clients : conn'[c] \in {"away", "opening"} => conn[c] \in {"away", "opening"}

\* Who changes what the clients see.
LEMMA SendingSteps ==
  ASSUME TypeOK, [Next]_vars
  PROVE  \/ NothingIsSent
         \/ \E w \in Workers : Apply(w)
         \/ \E c \in Clients : Write(c) \/ Open(c)
<1>1. conn \in [Clients -> {"away", "opening", "live", "closing", "gone"}]
  BY DEF TypeOK
<1>2. CASE UNCHANGED <<conn, cepoch, queue, view>>
  BY <1>2 DEF NothingIsSent
<1>3. CASE \E c \in Clients : Register(c) \/ Refuse(c) \/ Drop(c) \/ Leave(c)
  BY <1>1, <1>3 DEF Register, Refuse, Drop, Leave, NothingIsSent
<1>4. CASE CloseClients
  BY <1>1, <1>4 DEF CloseClients, NothingIsSent
<1>5. CASE \/ \E r \in Rooms : Commit(r) \/ ResetRoom(r) \/ LoseNotification(r) \/ Dirty(r)
           \/ Subscribe \/ Disconnect \/ Reconcile \/ Coalesce
  BY <1>2, <1>5 DEF Commit, ResetRoom, LoseNotification, Dirty, Subscribe, Disconnect, Reconcile,
                    Coalesce, clientVars
<1>6. CASE \E w \in Workers : Take(w) \/ ReadSnapshot(w) \/ ReadFails(w) \/ Finish(w)
  BY <1>2, <1>6 DEF Take, ReadSnapshot, ReadFails, Finish, clientVars
<1>7. CASE Cancel \/ Closed \/ \E g \in Background : Exit(g)
  BY <1>2, <1>7 DEF Cancel, Closed, Exit, clientVars
<1>8. CASE UNCHANGED vars
  BY <1>2, <1>8 DEF vars
<1>9. QED
  BY <1>3, <1>4, <1>5, <1>6, <1>7, <1>8 DEF Next

\* What is queued for a client is a snapshot only if it is of its epoch.
LEMMA ForOwnEpoch ==
  ASSUME NEW c \in Clients, NEW state \in Snapshots \cup {Unavailable},
         For(c, state, state) \in Snapshots
  PROVE  For(c, state, state) = state /\ state.epoch = cepoch[c]
<1>1. For(c, state, state) # ResetRequired /\ state # Unavailable
  BY UnavailableIsNoSnapshot DEF For
<1>2. QED
  BY <1>1 DEF For

LEMMA OwnEpochStep == TypeOK /\ OwnEpochs /\ [Next]_vars => OwnEpochs'
<1> SUFFICES ASSUME TypeOK, OwnEpochs, [Next]_vars PROVE OwnEpochs'
  OBVIOUS
<1>1. CASE NothingIsSent
  BY <1>1 DEF NothingIsSent, OwnEpochs, NothingBeforeItIsLive, OnlyOwnEpoch
<1>2. ASSUME NEW w \in Workers, Apply(w) PROVE OwnEpochs'
  <2> DEFINE r == worker[w].room
             state == worker[w].message
  <2>1. /\ state \in Snapshots \cup {Unavailable}
        /\ queue' = [c \in Clients |-> IF c \in Registered(r) THEN << For(c, state, state) >>
                                                              ELSE queue[c]]
    BY <1>2, ApplyIs
  <2>2. UNCHANGED <<conn, cepoch, view>>
    BY <1>2 DEF Apply
  <2> HIDE DEF r, state
  <2>3. ASSUME NEW c \in Clients, c \in Registered(r)
        PROVE  /\ conn[c] \notin {"away", "opening"}
               /\ Head(queue'[c]) \in Snapshots => Head(queue'[c]).epoch = cepoch[c]
    <3>1. conn[c] \notin {"away", "opening"}
      BY <2>3 DEF Registered
    <3>2. Head(queue'[c]) = For(c, state, state)
      BY <2>1, <2>3
    <3>3. QED
      BY <2>1, <3>1, <3>2, ForOwnEpoch
  <2>4. \A c \in Clients : c \notin Registered(r) => queue'[c] = queue[c]
    BY <2>1
  <2>5. NothingBeforeItIsLive'
    BY <2>2, <2>3, <2>4 DEF OwnEpochs, NothingBeforeItIsLive
  <2>6. OnlyOwnEpoch'
    BY <2>2, <2>3, <2>4 DEF OwnEpochs, OnlyOwnEpoch
  <2>7. QED
    BY <2>5, <2>6 DEF OwnEpochs
<1>3. ASSUME NEW c \in Clients, Write(c) PROVE OwnEpochs'
  <2>1. /\ conn[c] = "live" /\ queue[c] # << >> /\ cepoch' = cepoch
        /\ queue' = [queue EXCEPT ![c] = << >>]
        /\ view' = IF Head(queue[c]) \in Snapshots THEN [view EXCEPT ![c] = Head(queue[c])] ELSE view
        /\ conn' = conn \/ conn' = [conn EXCEPT ![c] = "closing"]
    BY <1>3 DEF Write
  <2>2. conn \in [Clients -> {"away", "opening", "live", "closing", "gone"}]
        /\ queue \in [Clients -> Queues] /\ view \in [Clients -> Snapshots \cup {None}]
    BY QueueType DEF TypeOK
  <2>3. \A o \in Clients : o # c => queue'[o] = queue[o] /\ view'[o] = view[o] /\ conn'[o] = conn[o]
    BY <2>1, <2>2
  <2>4. conn'[c] \in {"live", "closing"} /\ queue'[c] = << >>
        /\ (view'[c] = view[c] \/ (Head(queue[c]) \in Snapshots /\ view'[c] = Head(queue[c])))
    BY <2>1, <2>2
  <2>5. NothingBeforeItIsLive'
    BY <2>3, <2>4 DEF OwnEpochs, NothingBeforeItIsLive
  <2>6. OnlyOwnEpoch'
    BY <2>1, <2>3, <2>4 DEF OwnEpochs, OnlyOwnEpoch
  <2>7. QED
    BY <2>5, <2>6 DEF OwnEpochs
<1>4. ASSUME NEW c \in Clients, Open(c) PROVE OwnEpochs'
  <2>1. /\ conn[c] = "away" /\ queue' = queue /\ view' = view
        /\ conn' = [conn EXCEPT ![c] = "opening"]
        /\ cepoch' = [cepoch EXCEPT ![c] = epoch[RoomOf[c]]]
    BY <1>4 DEF Open
  <2>2. queue[c] = << >> /\ view[c] = None
    BY <2>1 DEF OwnEpochs, NothingBeforeItIsLive
  <2>3. \A o \in Clients : o # c => conn'[o] = conn[o] /\ cepoch'[o] = cepoch[o]
    BY <2>1 DEF TypeOK
  <2>4. NothingBeforeItIsLive'
    BY <2>1, <2>2, <2>3 DEF OwnEpochs, NothingBeforeItIsLive
  <2>5. OnlyOwnEpoch'
    BY <2>1, <2>2, <2>3 DEF OwnEpochs, OnlyOwnEpoch
  <2>6. QED
    BY <2>4, <2>5 DEF OwnEpochs
<1>5. QED
  BY <1>1, <1>2, <1>3, <1>4, SendingSteps

LEMMA OwnEpochAlways == Spec => []OwnEpochs
<1>1. Init => OwnEpochs
  BY DEF Init, OwnEpochs, NothingBeforeItIsLive, OnlyOwnEpoch
<1>2. QED
  BY <1>1, OwnEpochStep, TypeCorrect, PTL DEF Spec

(***************************************************************************)
(* No connection is ever queued or shown a board of another epoch than the *)
(* one it connected in.                                                    *)
(***************************************************************************)
THEOREM OwnEpochOnly == Spec => []OnlyOwnEpoch
<1>1. OwnEpochs => OnlyOwnEpoch
  BY DEF OwnEpochs
<1>2. QED
  BY <1>1, OwnEpochAlways, PTL
-----------------------------------------------------------------------------
(***************************************************************************)
(* Boards in order.  On its way from the store to the socket a snapshot is *)
(* in the hands of the room's worker, then queued, then shown; a snapshot  *)
(* further along is never newer than one behind it.                        *)
(***************************************************************************)
NotAfter(m, n) ==
  \/ m.epoch < n.epoch
  \/ m.epoch = n.epoch /\ m.version <= n.version

InHand(r) == {m \in Snapshots : \E w \in Workers :
                worker[w].stage = "read" /\ worker[w].room = r /\ worker[w].message = m}
Waiting(c) == {m \in Snapshots : queue[c] = <<m>>}
Shown(c) == {m \in Snapshots : view[c] = m}

InOrder(c) ==
  LET r == RoomOf[c] IN
  /\ \A m \in Shown(c) : \A n \in Waiting(c) \cup InHand(r) \cup {Current(r)} : NotAfter(m, n)
  /\ \A m \in Waiting(c) : \A n \in InHand(r) \cup {Current(r)} : NotAfter(m, n)
  /\ \A m \in InHand(r) : NotAfter(m, Current(r))
AllInOrder == \A c \in Clients : InOrder(c)

LEMMA NotAfterOrders ==
  /\ \A m \in Snapshots : NotAfter(m, m)
  /\ \A l, m, n \in Snapshots : NotAfter(l, m) /\ NotAfter(m, n) => NotAfter(l, n)
<1>1. \A m \in Snapshots : m.epoch \in Int /\ m.version \in Int
  <2>1. \A m \in Snapshots : m.epoch \in 1..MaxEpoch /\ m.version \in 0..MaxVersion
    BY DEF Snapshots
  <2>2. 1..MaxEpoch \subseteq Int /\ 0..MaxVersion \subseteq Int
    BY LimitType
  <2>3. QED
    BY <2>1, <2>2
<1>2. \A m \in Snapshots : NotAfter(m, m)
  BY <1>1 DEF NotAfter
<1>3. ASSUME NEW l \in Snapshots, NEW m \in Snapshots, NEW n \in Snapshots,
             NotAfter(l, m), NotAfter(m, n)
      PROVE  NotAfter(l, n)
  <2>1. /\ l.epoch \in Int /\ m.epoch \in Int /\ n.epoch \in Int
        /\ l.version \in Int /\ m.version \in Int /\ n.version \in Int
    BY <1>1
  <2>2. QED
    BY <1>3, <2>1 DEF NotAfter
<1>4. QED
  BY <1>2, <1>3

\* The four ways a step moves the snapshots on.
StoreAdvances(c) ==
  /\ NotAfter(Current(RoomOf[c]), Current(RoomOf[c])')
  /\ InHand(RoomOf[c])' \subseteq InHand(RoomOf[c]) \cup {Current(RoomOf[c])}
  /\ Waiting(c)' \subseteq Waiting(c) /\ Shown(c)' \subseteq Shown(c)
Broadcast(c) ==
  /\ Current(RoomOf[c])' = Current(RoomOf[c])
  /\ InHand(RoomOf[c])' = {}
  /\ Waiting(c)' \subseteq InHand(RoomOf[c]) /\ Shown(c)' \subseteq Shown(c)
Written(c) ==
  /\ Current(RoomOf[c])' = Current(RoomOf[c])
  /\ InHand(RoomOf[c])' \subseteq InHand(RoomOf[c])
  /\ Waiting(c)' = {} /\ Shown(c)' \subseteq Shown(c) \cup Waiting(c)

LEMMA MovesKeepOrder ==
  ASSUME TypeOK, TypeOK', NEW c \in Clients, InOrder(c),
         StoreAdvances(c) \/ Broadcast(c) \/ Written(c)
  PROVE  InOrder(c)'
<1> DEFINE r == RoomOf[c]
<1>1. Current(r) \in Snapshots /\ Current(r)' \in Snapshots
  <2>1. Current(r) \in Snapshots
    BY RoomType, CurrentType
  <2>2. Current(r)' \in Snapshots
    BY RoomType DEF TypeOK, Current, Snap, Snapshots
  <2>3. QED
    BY <2>1, <2>2
<1>2. /\ Waiting(c) \subseteq Snapshots /\ Shown(c) \subseteq Snapshots /\ InHand(r) \subseteq Snapshots
  BY DEF Waiting, Shown, InHand
<1>3. CASE StoreAdvances(c)
  <2>1. \A m \in Snapshots : NotAfter(m, Current(r)) => NotAfter(m, Current(r)')
    BY <1>1, <1>3, NotAfterOrders DEF StoreAdvances
  <2>2. \A m \in InHand(r)' : NotAfter(m, Current(r)')
    BY <1>1, <1>2, <1>3, <2>1, NotAfterOrders DEF StoreAdvances, InOrder
  <2>3. \A m \in Waiting(c)' : \A n \in InHand(r)' \cup {Current(r)'} : NotAfter(m, n)
    BY <1>1, <1>2, <1>3, <2>1, NotAfterOrders DEF StoreAdvances, InOrder
  <2>4. \A m \in Shown(c)' : \A n \in Waiting(c)' \cup InHand(r)' \cup {Current(r)'} : NotAfter(m, n)
    BY <1>1, <1>2, <1>3, <2>1, NotAfterOrders DEF StoreAdvances, InOrder
  <2>5. QED
    BY <2>2, <2>3, <2>4 DEF InOrder
<1>4. CASE Broadcast(c)
  <2>1. \A m \in Waiting(c)' : NotAfter(m, Current(r)')
    BY <1>4 DEF Broadcast, InOrder
  <2>2. \A m \in Shown(c)' : \A n \in Waiting(c)' \cup {Current(r)'} : NotAfter(m, n)
    BY <1>4 DEF Broadcast, InOrder
  <2>3. QED
    BY <1>4, <2>1, <2>2 DEF InOrder, Broadcast
<1>5. CASE Written(c)
  BY <1>5 DEF Written, InOrder
<1>6. QED
  BY <1>3, <1>4, <1>5

\* Nobody but the store, the readers and the writers moves a snapshot.
NothingMoves ==
  /\ UNCHANGED <<epoch, version, queue, view>>
  /\ \A w \in Workers : worker'[w].stage = "read" => worker'[w] = worker[w]

LEMMA MovingSteps ==
  ASSUME TypeOK, [Next]_vars
  PROVE  \/ NothingMoves
         \/ \E r \in Rooms : Commit(r) \/ ResetRoom(r)
         \/ \E w \in Workers : ReadSnapshot(w) \/ ReadFails(w) \/ Apply(w)
         \/ \E c \in Clients : Write(c)
<1>1. CASE UNCHANGED <<epoch, version, queue, view, worker>>
  BY <1>1 DEF NothingMoves
<1>2. CASE \E w \in Workers : Take(w) \/ Finish(w)
  <2>1. PICK w \in Workers : Take(w) \/ Finish(w)
    BY <1>2
  <2>2. worker' = [worker EXCEPT ![w] = [stage |-> "taken", room |-> Head(jobs)]]
        \/ worker' = [worker EXCEPT ![w] = Idle]
    BY <2>1 DEF Take, Finish
  <2>3. worker'[w].stage # "read" /\ \A x \in Workers : x # w => worker'[x] = worker[x]
    <3>1. worker'[w] = [stage |-> "taken", room |-> Head(jobs)] \/ worker'[w] = Idle
      BY <2>2, WorkerType
    <3>2. QED
      BY <2>2, <3>1, WorkerType DEF Idle
  <2>4. UNCHANGED <<epoch, version, queue, view>>
    BY <2>1 DEF Take, Finish, storeVars, clientVars
  <2>5. QED
    BY <2>3, <2>4 DEF NothingMoves
<1>3. CASE \/ \E r \in Rooms : LoseNotification(r) \/ Dirty(r)
           \/ Subscribe \/ Disconnect \/ Reconcile \/ Coalesce
  BY <1>1, <1>3 DEF LoseNotification, Dirty, Subscribe, Disconnect, Reconcile, Coalesce,
                    clientVars, storeVars
<1>4. CASE \E c \in Clients : Open(c) \/ Register(c) \/ Refuse(c) \/ Drop(c) \/ Leave(c)
  BY <1>1, <1>4 DEF Open, Register, Refuse, Drop, Leave, storeVars
<1>5. CASE CloseClients \/ Cancel \/ Closed \/ \E g \in Background : Exit(g)
  BY <1>1, <1>5 DEF CloseClients, Cancel, Closed, Exit, clientVars, storeVars
<1>6. CASE UNCHANGED vars
  BY <1>1, <1>6 DEF vars
<1>7. QED
  BY <1>2, <1>3, <1>4, <1>5, <1>6 DEF Next

LEMMA NothingMovesInOrder ==
  ASSUME TypeOK, NothingMoves, NEW c \in Clients
  PROVE  StoreAdvances(c)
<1>1. Current(RoomOf[c])' = Current(RoomOf[c]) /\ Current(RoomOf[c]) \in Snapshots
  BY RoomType, CurrentType DEF NothingMoves, Current
<1>2. Waiting(c)' = Waiting(c) /\ Shown(c)' = Shown(c)
  BY DEF NothingMoves, Waiting, Shown
<1>3. InHand(RoomOf[c])' \subseteq InHand(RoomOf[c])
  BY DEF NothingMoves, InHand
<1>4. QED
  BY <1>1, <1>2, <1>3, NotAfterOrders DEF StoreAdvances

LEMMA StoreMovesInOrder ==
  ASSUME TypeOK, NEW r \in Rooms, Commit(r) \/ ResetRoom(r), NEW c \in Clients
  PROVE  StoreAdvances(c)
<1>1. UNCHANGED <<worker, queue, view>>
  BY DEF Commit, ResetRoom, clientVars
<1>2. InHand(RoomOf[c])' = InHand(RoomOf[c]) /\ Waiting(c)' = Waiting(c) /\ Shown(c)' = Shown(c)
  BY <1>1 DEF InHand, Waiting, Shown
<1>3. /\ epoch \in [Rooms -> 1..MaxEpoch] /\ version \in [Rooms -> 0..MaxVersion] /\ RoomOf[c] \in Rooms
  BY RoomType DEF TypeOK
<1>4. CASE Commit(r)
  <2>1. epoch' = epoch /\ version' = [version EXCEPT ![r] = @ + 1]
    BY <1>4 DEF Commit
  <2>2. epoch'[RoomOf[c]] = epoch[RoomOf[c]] /\ version[RoomOf[c]] <= version'[RoomOf[c]]
    BY <1>3, <2>1, LimitType
  <2>3. NotAfter(Current(RoomOf[c]), Current(RoomOf[c])')
    BY <2>2 DEF NotAfter, Current, Snap
  <2>4. QED
    BY <1>2, <2>3 DEF StoreAdvances
<1>5. CASE ResetRoom(r)
  <2>1. epoch' = [epoch EXCEPT ![r] = @ + 1] /\ version' = [version EXCEPT ![r] = 0]
    BY <1>5 DEF ResetRoom
  <2>2. \/ epoch[RoomOf[c]] < epoch'[RoomOf[c]]
        \/ epoch'[RoomOf[c]] = epoch[RoomOf[c]] /\ version[RoomOf[c]] <= version'[RoomOf[c]]
    BY <1>3, <2>1, LimitType
  <2>3. NotAfter(Current(RoomOf[c]), Current(RoomOf[c])')
    BY <2>2 DEF NotAfter, Current, Snap
  <2>4. QED
    BY <1>2, <2>3 DEF StoreAdvances
<1>6. QED
  BY <1>4, <1>5

LEMMA ReadMovesInOrder ==
  ASSUME TypeOK, NEW w \in Workers, ReadSnapshot(w) \/ ReadFails(w), NEW c \in Clients
  PROVE  StoreAdvances(c)
<1>1. UNCHANGED <<epoch, version, queue, view>>
  BY DEF ReadSnapshot, ReadFails, clientVars, storeVars
<1>2. Current(RoomOf[c])' = Current(RoomOf[c]) /\ Current(RoomOf[c]) \in Snapshots
  BY <1>1, RoomType, CurrentType DEF Current
<1>3. Waiting(c)' = Waiting(c) /\ Shown(c)' = Shown(c)
  BY <1>1 DEF Waiting, Shown
<1>4. \/ worker'[w] = [stage |-> "read", room |-> worker[w].room, message |-> Current(worker[w].room)]
      \/ worker'[w] = [stage |-> "read", room |-> worker[w].room, message |-> Unavailable]
  BY WorkerType DEF ReadSnapshot, ReadFails
<1>5. \A x \in Workers : x # w => worker'[x] = worker[x]
  BY WorkerType DEF ReadSnapshot, ReadFails
<1>6. ASSUME NEW m \in InHand(RoomOf[c])' PROVE m \in InHand(RoomOf[c]) \cup {Current(RoomOf[c])}
  <2>1. PICK x \in Workers : worker'[x].stage = "read" /\ worker'[x].room = RoomOf[c]
                             /\ worker'[x].message = m
    BY <1>6 DEF InHand
  <2>2. m \in Snapshots
    BY <1>6 DEF InHand
  <2>3. CASE x = w
    BY <1>4, <2>1, <2>2, <2>3, UnavailableIsNoSnapshot
  <2>4. CASE x # w
    BY <1>5, <2>1, <2>2, <2>4 DEF InHand
  <2>5. QED
    BY <2>3, <2>4
<1>7. QED
  BY <1>2, <1>3, <1>6, NotAfterOrders DEF StoreAdvances

\* Only one worker ever holds a snapshot of the room, so a broadcast leaves none behind.
LEMMA ApplyMovesInOrder ==
  ASSUME TypeOK, SingleRefreshes, OwnEpochs, NEW w \in Workers, Apply(w), NEW c \in Clients
  PROVE  StoreAdvances(c) \/ Broadcast(c)
<1> DEFINE r == worker[w].room
           state == worker[w].message
<1>1. /\ worker[w].stage = "read" /\ r \in Rooms /\ state \in Snapshots \cup {Unavailable}
      /\ queue' = [o \in Clients |-> IF o \in Registered(r) THEN << For(o, state, state) >>
                                                            ELSE queue[o]]
      /\ worker' = [worker EXCEPT ![w] = [stage |-> "applied", room |-> r]]
  BY ApplyIs
<1>2. UNCHANGED <<epoch, version, view>>
  BY DEF Apply, storeVars
<1> HIDE DEF r, state
<1>3. Current(RoomOf[c])' = Current(RoomOf[c]) /\ Current(RoomOf[c]) \in Snapshots
  BY <1>2, RoomType, CurrentType DEF Current
<1>4. Shown(c)' = Shown(c)
  BY <1>2 DEF Shown
<1>5. worker'[w].stage = "applied" /\ \A x \in Workers : x # w => worker'[x] = worker[x]
  <2>1. worker'[w] = [stage |-> "applied", room |-> r]
    BY <1>1, WorkerType
  <2>2. QED
    BY <1>1, <2>1, WorkerType
<1>6. InHand(RoomOf[c])' \subseteq InHand(RoomOf[c])
  BY <1>5 DEF InHand
<1>7. CASE RoomOf[c] = r /\ c \in Registered(r)
  <2>1. Busy(RoomOf[c]) \subseteq {w}
    <3>1. w \in Busy(RoomOf[c])
      BY <1>1, <1>7, WorkerStage DEF Busy, r, Idle
    <3>2. QED
      BY <1>1, <1>7, <3>1 DEF SingleRefreshes, SingleRefresh
  <2>2. InHand(RoomOf[c])' = {}
    <3>1. ASSUME NEW x \in Workers, worker'[x].stage = "read", worker'[x].room = RoomOf[c]
          PROVE  FALSE
      <4>1. x # w /\ worker[x].stage = "read" /\ worker[x].room = RoomOf[c]
        BY <1>5, <3>1
      <4>2. x \in Busy(RoomOf[c])
        BY <4>1 DEF Busy, Idle
      <4>3. QED
        BY <2>1, <4>1, <4>2
    <3>2. QED
      BY <3>1 DEF InHand
  <2>3. Waiting(c)' \subseteq InHand(RoomOf[c])
    <3>1. queue'[c] = << For(c, state, state) >>
      BY <1>1, <1>7
    <3>2. ASSUME NEW m \in Waiting(c)' PROVE m \in InHand(RoomOf[c])
      <4>1. m \in Snapshots /\ queue'[c] = <<m>>
        BY <3>2 DEF Waiting
      <4>2. m = For(c, state, state)
        BY <3>1, <4>1
      <4>3. m = state
        BY <1>1, <4>1, <4>2, ForOwnEpoch
      <4>4. QED
        BY <1>1, <1>7, <4>1, <4>3 DEF InHand, r, state
    <3>3. QED
      BY <3>2
  <2>4. QED
    BY <1>3, <1>4, <1>7, <2>2, <2>3 DEF Broadcast
<1>8. CASE ~ (RoomOf[c] = r /\ c \in Registered(r))
  <2>1. queue'[c] = queue[c]
    BY <1>1, <1>8 DEF Registered
  <2>2. Waiting(c)' = Waiting(c)
    BY <2>1 DEF Waiting
  <2>3. QED
    BY <1>3, <1>4, <1>6, <2>2, NotAfterOrders DEF StoreAdvances
<1>9. QED
  BY <1>7, <1>8

LEMMA WriteMovesInOrder ==
  ASSUME TypeOK, NEW o \in Clients, Write(o), NEW c \in Clients
  PROVE  StoreAdvances(c) \/ Written(c)
<1>1. /\ UNCHANGED <<epoch, version, worker>>
      /\ queue[o] # << >> /\ queue' = [queue EXCEPT ![o] = << >>]
      /\ view' = IF Head(queue[o]) \in Snapshots THEN [view EXCEPT ![o] = Head(queue[o])] ELSE view
  BY DEF Write, storeVars
<1>2. queue \in [Clients -> Queues] /\ view \in [Clients -> Snapshots \cup {None}]
  BY QueueType DEF TypeOK
<1>3. Current(RoomOf[c])' = Current(RoomOf[c]) /\ Current(RoomOf[c]) \in Snapshots
      /\ InHand(RoomOf[c])' = InHand(RoomOf[c])
  BY <1>1, RoomType, CurrentType DEF Current, InHand
<1>4. CASE c # o
  <2>1. queue'[c] = queue[c] /\ view'[c] = view[c]
    BY <1>1, <1>2, <1>4
  <2>2. Waiting(c)' = Waiting(c) /\ Shown(c)' = Shown(c)
    BY <2>1 DEF Waiting, Shown
  <2>3. QED
    BY <1>3, <2>2, NotAfterOrders DEF StoreAdvances
<1>5. CASE c = o
  <2>1. queue'[c] = << >>
    BY <1>1, <1>2, <1>5
  <2>2. Waiting(c)' = {}
    BY <2>1 DEF Waiting
  <2>3. PICK m \in Messages : queue[c] = <<m>>
    BY <1>1, <1>2, <1>5 DEF Queues
  <2>4. \/ view'[c] = view[c]
        \/ m \in Snapshots /\ view'[c] = m
    BY <1>1, <1>2, <1>5, <2>3
  <2>5. Shown(c)' \subseteq Shown(c) \cup Waiting(c)
    BY <2>3, <2>4 DEF Shown, Waiting
  <2>6. QED
    BY <1>3, <2>2, <2>5 DEF Written
<1>6. QED
  BY <1>4, <1>5

LEMMA OrderStep ==
  TypeOK /\ SingleRefreshes /\ OwnEpochs /\ AllInOrder /\ [Next]_vars => AllInOrder'
<1> SUFFICES ASSUME TypeOK, SingleRefreshes, OwnEpochs, AllInOrder, [Next]_vars, NEW c \in Clients
             PROVE  InOrder(c)'
  BY DEF AllInOrder
<1>1. TypeOK' /\ InOrder(c)
  BY NextType DEF AllInOrder
<1>2. StoreAdvances(c) \/ Broadcast(c) \/ Written(c)
  BY MovingSteps, NothingMovesInOrder, StoreMovesInOrder, ReadMovesInOrder, ApplyMovesInOrder,
     WriteMovesInOrder
<1>3. QED
  BY <1>1, <1>2, MovesKeepOrder

LEMMA OrderAlways == Spec => []AllInOrder
<1>1. Init => AllInOrder
  <2> SUFFICES ASSUME Init, NEW c \in Clients PROVE InOrder(c)
    BY DEF AllInOrder
  <2>1. Waiting(c) = {} /\ Shown(c) = {} /\ \A r : InHand(r) = {}
    BY NoneIsNoSnapshot DEF Init, Waiting, Shown, InHand, Idle
  <2>2. QED
    BY <2>1 DEF InOrder
<1>2. QED
  BY <1>1, OrderStep, TypeCorrect, SingleAlways, OwnEpochAlways, PTL DEF Spec

(***************************************************************************)
(* What is written to a socket is always newer than what was written to it *)
(* before: a board never goes back, whatever the workers, the resets and   *)
(* the commits were doing.                                                 *)
(***************************************************************************)
LEMMA ShownGrows ==
  ASSUME TypeOK, OwnEpochs, AllInOrder, [Next]_vars, NEW c \in Clients,
         view[c] # None, view'[c] # view[c]
  PROVE  view'[c].version > view[c].version
<1>1. PICK o \in Clients : Write(o)
  <2>1. ~ NothingIsSent
    BY DEF NothingIsSent
  <2>2. \A w \in Workers : ~ Apply(w)
    BY DEF Apply
  <2>3. \A o \in Clients : ~ Open(o)
    BY DEF Open
  <2>4. QED
    BY <2>1, <2>2, <2>3, SendingSteps
<1>2. /\ queue[o] # << >>
      /\ view' = IF Head(queue[o]) \in Snapshots THEN [view EXCEPT ![o] = Head(queue[o])] ELSE view
  BY <1>1 DEF Write
<1>3. queue \in [Clients -> Queues] /\ view \in [Clients -> Snapshots \cup {None}]
  BY QueueType DEF TypeOK
<1>4. o = c
  BY <1>2, <1>3
<1>5. PICK m \in Messages : queue[c] = <<m>>
  BY <1>2, <1>3, <1>4 DEF Queues
<1>6. m \in Snapshots /\ view'[c] = m /\ view[c] \in Snapshots
  BY <1>2, <1>3, <1>4, <1>5
<1>7. NotAfter(view[c], m)
  <2>1. m \in Waiting(c) /\ view[c] \in Shown(c)
    BY <1>5, <1>6 DEF Waiting, Shown
  <2>2. QED
    BY <2>1 DEF AllInOrder, InOrder
<1>8. view[c].epoch = m.epoch
  <2>1. view[c].epoch = cepoch[c]
    BY DEF OwnEpochs, OnlyOwnEpoch
  <2>2. m.epoch = cepoch[c]
    BY <1>5, <1>6 DEF OwnEpochs, OnlyOwnEpoch
  <2>3. QED
    BY <2>1, <2>2
<1>9. /\ m.epoch \in 1..MaxEpoch /\ m.version \in 0..MaxVersion /\ view[c].version \in 0..MaxVersion
  BY <1>6 DEF Snapshots
<1>10. view[c].version # m.version
  BY <1>6, <1>8 DEF Snapshots
<1>11. QED
  BY <1>6, <1>7, <1>8, <1>9, <1>10, LimitType DEF NotAfter

THEOREM BoardsNeverGoBack == Spec => NeverBackwards
<1>1. TypeOK /\ OwnEpochs /\ AllInOrder /\ [Next]_vars
      => [\A c \in Clients : view[c] # None /\ view'[c] # view[c]
                               => view'[c].version > view[c].version]_view
  BY ShownGrows
<1>2. QED
  BY <1>1, TypeCorrect, OwnEpochAlways, OrderAlways, PTL DEF Spec, NeverBackwards
-----------------------------------------------------------------------------
(***************************************************************************)
(* No change is forgotten.  A room is owed a refresh while it is dirty, a  *)
(* notification is on its way or a change went unannounced.  A worker that *)
(* holds anything but the current state of its room owes it another: the   *)
(* ticker cannot have taken the mark while the room was being refreshed.   *)
(***************************************************************************)
Owed(r) == dirty[r] \/ pending[r] > 0 \/ lost[r]
RefreshesAreKnown == \A r \in Rooms : refreshing[r] => r \in known
StaleReadIsOwed ==
  \A r \in Rooms, w \in Workers :
    worker[w].stage = "read" /\ worker[w].room = r /\ worker[w].message # Current(r) => Owed(r)
Wakeful == RefreshesAreKnown /\ StaleReadIsOwed /\ WakeupNotForgotten

LEMMA BusyIsRefreshing ==
  ASSUME TypeOK, SingleRefreshes, NEW w \in Workers, worker[w].stage # "idle"
  PROVE  worker[w].room \in Rooms /\ w \in Busy(worker[w].room) /\ refreshing[worker[w].room]
<1>1. worker[w].room \in Rooms /\ worker[w] # Idle
  BY WorkerStage
<1>2. w \in Busy(worker[w].room)
  BY <1>1 DEF Busy
<1>3. QED
  BY <1>1, <1>2 DEF SingleRefreshes, SingleRefresh

\* A worker is moved only by its own steps.
LEMMA WorkerSteps ==
  ASSUME TypeOK, [Next]_vars, NEW w \in Workers
  PROVE  worker'[w] = worker[w]
         \/ Take(w) \/ ReadSnapshot(w) \/ ReadFails(w) \/ Apply(w) \/ Finish(w)
<1>1. CASE \E x \in Workers : Take(x) \/ ReadSnapshot(x) \/ ReadFails(x) \/ Apply(x) \/ Finish(x)
  <2>1. PICK x \in Workers : Take(x) \/ ReadSnapshot(x) \/ ReadFails(x) \/ Apply(x) \/ Finish(x)
    BY <1>1
  <2>2. \E job : worker' = [worker EXCEPT ![x] = job]
    BY <2>1 DEF Take, ReadSnapshot, ReadFails, Apply, Finish
  <2>3. x # w => worker'[w] = worker[w]
    BY <2>2, WorkerType
  <2>4. QED
    BY <2>1, <2>3
<1>2. CASE Coalesce
  BY <1>2 DEF Coalesce
<1>3. QED
  BY <1>1, <1>2, OthersStay DEF Next

\* What a client has queued and shown changes when it is written or broadcast to.
LEMMA ClientSteps ==
  ASSUME TypeOK, [Next]_vars, NEW c \in Clients
  PROVE  \/ queue'[c] = queue[c] /\ view'[c] = view[c]
         \/ Write(c)
         \/ \E w \in Workers : Apply(w)
<1>1. CASE NothingIsSent
  BY <1>1 DEF NothingIsSent
<1>2. ASSUME NEW o \in Clients, Write(o)
      PROVE  o = c \/ (queue'[c] = queue[c] /\ view'[c] = view[c])
  <2>1. queue' = [queue EXCEPT ![o] = << >>]
        /\ (view' = view \/ view' = [view EXCEPT ![o] = Head(queue[o])])
    BY <1>2 DEF Write
  <2>2. QED
    BY <2>1, QueueType DEF TypeOK
<1>3. ASSUME NEW o \in Clients, Open(o) PROVE queue' = queue /\ view' = view
  BY <1>3 DEF Open
<1>4. QED
  BY <1>1, <1>2, <1>3, SendingSteps

LEMMA ConnSteps ==
  ASSUME TypeOK, [Next]_vars, NEW c \in Clients, conn'[c] = "live", conn[c] # "live"
  PROVE  Register(c)
<1>1. conn \in [Clients -> {"away", "opening", "live", "closing", "gone"}]
  BY DEF TypeOK
<1>2. conn' # conn
  OBVIOUS
<1>3. ~ \E r \in Rooms : Commit(r) \/ ResetRoom(r) \/ LoseNotification(r) \/ Dirty(r)
  BY <1>2 DEF Commit, ResetRoom, LoseNotification, Dirty, clientVars
<1>4. ~ (Subscribe \/ Disconnect \/ Reconcile \/ Coalesce)
  BY <1>2 DEF Subscribe, Disconnect, Reconcile, Coalesce, clientVars
<1>5. ~ \E w \in Workers : Take(w) \/ ReadSnapshot(w) \/ ReadFails(w) \/ Apply(w) \/ Finish(w)
  BY <1>2 DEF Take, ReadSnapshot, ReadFails, Apply, Finish, clientVars
<1>6. ~ (Cancel \/ Closed \/ \E g \in Background : Exit(g)) /\ ~ UNCHANGED vars
  BY <1>2 DEF Cancel, Closed, Exit, clientVars, vars
<1>7. ~ CloseClients
  BY <1>1 DEF CloseClients
<1>8. ~ \E o \in Clients : Open(o) \/ Refuse(o) \/ Write(o) \/ Drop(o) \/ Leave(o)
  BY <1>1 DEF Open, Refuse, Write, Drop, Leave
<1>9. PICK o \in Clients : Register(o)
  BY <1>3, <1>4, <1>5, <1>6, <1>7, <1>8 DEF Next
<1>10. o = c
  BY <1>1, <1>9 DEF Register
<1>11. QED
  BY <1>9, <1>10

\* A job leaves the channel only for a worker.
LEMMA JobSteps ==
  ASSUME TypeOK, [Next]_vars, NEW r \in Rooms, Queued(r) # {}
  PROVE  Queued(r)' # {} \/ \E w \in Workers : w \in Busy(r)' /\ worker'[w].stage = "taken"
<1>1. CASE jobs' = jobs
  BY <1>1 DEF Queued
<1>2. CASE Coalesce
  <2>1. PICK batch \in Batches : jobs' = jobs \o batch
    BY <1>2 DEF Coalesce
  <2>2. batch \in Seq(Rooms) /\ jobs \in Seq(Rooms)
    BY BatchType DEF TypeOK
  <2>3. /\ DOMAIN jobs = 1..Len(jobs) /\ Len(jobs) \in Nat
        /\ DOMAIN (jobs \o batch) = 1..(Len(jobs) + Len(batch))
        /\ \A i \in 1..Len(jobs) : (jobs \o batch)[i] = jobs[i]
    BY <2>2, ConcatIs, Zenon
  <2>4. Len(batch) \in Nat
    BY <2>2
  <2>5. PICK i \in DOMAIN jobs : jobs[i] = r
    BY DEF Queued
  <2>6. i \in DOMAIN jobs' /\ jobs'[i] = r
    BY <2>1, <2>3, <2>4, <2>5
  <2>7. QED
    BY <2>6 DEF Queued
<1>3. ASSUME NEW w \in Workers, Take(w)
      PROVE  Queued(r)' # {} \/ (w \in Busy(r)' /\ worker'[w].stage = "taken")
  <2>1. /\ jobs \in Seq(Rooms) /\ jobs # << >> /\ jobs' = Tail(jobs)
        /\ worker' = [worker EXCEPT ![w] = [stage |-> "taken", room |-> Head(jobs)]]
    BY <1>3 DEF TypeOK, Take
  <2>2. /\ DOMAIN jobs = 1..Len(jobs) /\ Len(jobs) \in Nat \ {0} /\ Head(jobs) = jobs[1]
        /\ DOMAIN jobs' = 1..(Len(jobs) - 1)
        /\ \A i \in 1..(Len(jobs) - 1) : jobs'[i] = jobs[i + 1]
    BY <2>1
  <2>3. PICK i \in 1..Len(jobs) : jobs[i] = r
    BY <2>2 DEF Queued
  <2>4. CASE i = 1
    <3>1. worker'[w] = [stage |-> "taken", room |-> r]
      BY <2>1, <2>2, <2>3, <2>4, WorkerType
    <3>2. QED
      BY <3>1 DEF Busy, Idle
  <2>5. CASE i # 1
    <3>1. i - 1 \in 1..(Len(jobs) - 1) /\ (i - 1) + 1 = i
      BY <2>2, <2>5
    <3>2. jobs'[i - 1] = r
      BY <2>2, <2>3, <3>1
    <3>3. QED
      BY <2>2, <3>1, <3>2 DEF Queued
  <2>6. QED
    BY <2>4, <2>5
<1>4. CASE \E w \in Workers : ReadSnapshot(w) \/ ReadFails(w) \/ Apply(w) \/ Finish(w)
  BY <1>1, <1>4 DEF ReadSnapshot, ReadFails, Apply, Finish
<1>5. QED
  BY <1>1, <1>2, <1>3, <1>4, OthersStay DEF Next

\* What a room is owed is paid only by a refresh of a room that has none.
LEMMA OwedSteps ==
  ASSUME TypeOK, SingleRefreshes, [Next]_vars, NEW r \in Rooms, r \in known, Owed(r)
  PROVE  Owed(r)' \/ (Queued(r)' # {} /\ ~refreshing[r])
<1>1. /\ dirty \in [Rooms -> BOOLEAN] /\ pending \in [Rooms -> Nat] /\ lost \in [Rooms -> BOOLEAN]
  BY DEF TypeOK
<1>2. CASE UNCHANGED <<dirty, pending, lost>>
  BY <1>2 DEF Owed
<1>3. ASSUME NEW x \in Rooms, Commit(x) \/ ResetRoom(x) \/ LoseNotification(x) \/ Dirty(x)
      PROVE  Owed(r)'
  <2>1. CASE Commit(x)
    <3>1. dirty' = dirty /\ lost' = lost /\ pending' = [pending EXCEPT ![x] = @ + 1]
      BY <2>1 DEF Commit, roomVars
    <3>2. pending'[r] >= pending[r]
      BY <1>1, <3>1
    <3>3. QED
      BY <1>1, <3>1, <3>2 DEF Owed
  <2>2. CASE ResetRoom(x)
    <3>1. dirty' = dirty /\ pending' = pending /\ lost' = [lost EXCEPT ![x] = TRUE]
      BY <2>2 DEF ResetRoom, roomVars
    <3>2. lost[r] => lost'[r]
      BY <1>1, <3>1
    <3>3. QED
      BY <3>1, <3>2 DEF Owed
  <2>3. CASE LoseNotification(x)
    <3>1. dirty' = dirty /\ lost' = [lost EXCEPT ![x] = TRUE] /\ pending' = [pending EXCEPT ![x] = @ - 1]
      BY <2>3 DEF LoseNotification, roomVars
    <3>2. CASE r = x
      BY <1>1, <3>1, <3>2 DEF Owed
    <3>3. CASE r # x
      <4>1. lost'[r] = lost[r] /\ pending'[r] = pending[r]
        BY <1>1, <3>1, <3>3
      <4>2. QED
        BY <3>1, <4>1 DEF Owed
    <3>4. QED
      BY <3>2, <3>3
  <2>4. CASE Dirty(x)
    <3>1. lost' = lost /\ pending' = [pending EXCEPT ![x] = @ - 1]
          /\ dirty' = IF x \in known THEN [dirty EXCEPT ![x] = TRUE] ELSE dirty
      BY <2>4 DEF Dirty
    <3>2. CASE r = x
      BY <1>1, <3>1, <3>2 DEF Owed
    <3>3. CASE r # x
      <4>1. dirty'[r] = dirty[r] /\ pending'[r] = pending[r]
        BY <1>1, <3>1, <3>3
      <4>2. QED
        BY <3>1, <4>1 DEF Owed
    <3>4. QED
      BY <3>2, <3>3
  <2>5. QED
    BY <1>3, <2>1, <2>2, <2>3, <2>4
<1>4. CASE Subscribe \/ Reconcile
  BY <1>4 DEF Subscribe, Reconcile, DirtyAll, Owed
<1>5. CASE Coalesce
  <2>1. PICK batch \in Batches :
          LET sent == {batch[i] : i \in DOMAIN batch} IN
          /\ jobs' = jobs \o batch
          /\ dirty' = [x \in Rooms |-> dirty[x] /\ x \notin sent]
    BY <1>5 DEF Coalesce
  <2> DEFINE sent == {batch[i] : i \in DOMAIN batch}
  <2>2. pending' = pending /\ lost' = lost
    BY <1>5 DEF Coalesce
  <2>3. CASE r \notin sent
    BY <2>1, <2>2, <2>3 DEF Owed
  <2>4. CASE r \in sent
    <3>1. PICK n \in Nat : batch \in [1..n -> Ready]
      BY BatchType
    <3>2. PICK k \in 1..n : batch[k] = r
      BY <2>4, <3>1
    <3>3. ~refreshing[r]
      BY <3>1, <3>2 DEF Ready
    <3>4. batch \in Seq(Rooms) /\ jobs \in Seq(Rooms) /\ Len(batch) = n
      <4>1. batch \in Seq(Rooms) /\ jobs \in Seq(Rooms)
        BY BatchType DEF TypeOK
      <4>2. DOMAIN batch = 1..n
        BY <3>1
      <4>3. Len(batch) = n
        BY <3>1, <4>1, <4>2
      <4>4. QED
        BY <4>1, <4>3
    <3>5. /\ Len(jobs) \in Nat /\ DOMAIN (jobs \o batch) = 1..(Len(jobs) + Len(batch))
          /\ \A i \in 1..Len(batch) : (jobs \o batch)[Len(jobs) + i] = batch[i]
      BY <3>4, ConcatIs, Zenon
    <3>6. jobs' = jobs \o batch
      BY <2>1
    <3> HIDE DEF sent
    <3>7. jobs'[Len(jobs) + k] = r /\ Len(jobs) + k \in DOMAIN jobs'
      BY <3>1, <3>2, <3>4, <3>5, <3>6
    <3>8. QED
      BY <3>3, <3>7 DEF Queued
  <2>5. QED
    BY <2>3, <2>4
<1>6. CASE Disconnect
  BY <1>2, <1>6 DEF Disconnect, roomVars
<1>7. ASSUME NEW w \in Workers, ReadFails(w) PROVE Owed(r)'
  <2>1. dirty' = dirty /\ pending' = pending /\ lost' = [lost EXCEPT ![worker[w].room] = TRUE]
    BY <1>7 DEF ReadFails, roomVars
  <2>2. lost[r] => lost'[r]
    BY <1>1, <2>1
  <2>3. QED
    BY <2>1, <2>2 DEF Owed
<1>8. CASE \E w \in Workers : Take(w) \/ ReadSnapshot(w) \/ Apply(w) \/ Finish(w)
  BY <1>2, <1>8 DEF Take, ReadSnapshot, Apply, Finish, roomVars
<1>9. ASSUME NEW c \in Clients, Register(c) PROVE Owed(r)'
  <2>1. dirty' = [dirty EXCEPT ![RoomOf[c]] = TRUE] /\ pending' = pending /\ lost' = lost
    BY <1>9 DEF Register
  <2>2. dirty[r] => dirty'[r]
    BY <1>1, <2>1
  <2>3. QED
    BY <2>1, <2>2 DEF Owed
<1>10. CASE \E c \in Clients : Open(c) \/ Refuse(c) \/ Write(c) \/ Drop(c) \/ Leave(c)
  BY <1>2, <1>10 DEF Open, Refuse, Write, Drop, Leave, roomVars
<1>11. CASE CloseClients \/ Cancel \/ Closed \/ \E g \in Background : Exit(g)
  BY <1>2, <1>11 DEF CloseClients, Cancel, Closed, Exit, roomVars
<1>12. CASE UNCHANGED vars
  BY <1>2, <1>12 DEF vars
<1>13. QED
  BY <1>3, <1>4, <1>5, <1>6, <1>7, <1>8, <1>9, <1>10, <1>11, <1>12 DEF Next

\* A change of the store is owed, whatever becomes of its notification.
LEMMA ChangesAreOwed ==
  ASSUME TypeOK, [Next]_vars, NEW r \in Rooms
  PROVE  Current(r)' = Current(r) \/ Owed(r)'
<1>1. CASE UNCHANGED <<epoch, version>>
  BY <1>1 DEF Current
<1>2. ASSUME NEW x \in Rooms, Commit(x) PROVE Current(r)' = Current(r) \/ Owed(r)'
  <2>1. /\ epoch' = epoch /\ version' = [version EXCEPT ![x] = @ + 1]
        /\ pending' = [pending EXCEPT ![x] = @ + 1]
    BY <1>2 DEF Commit
  <2>2. version \in [Rooms -> 0..MaxVersion] /\ pending \in [Rooms -> Nat]
    BY DEF TypeOK
  <2>3. CASE r = x
    BY <2>1, <2>2, <2>3 DEF Owed
  <2>4. CASE r # x
    BY <2>1, <2>2, <2>4 DEF Current
  <2>5. QED
    BY <2>3, <2>4
<1>3. ASSUME NEW x \in Rooms, ResetRoom(x) PROVE Current(r)' = Current(r) \/ Owed(r)'
  <2>1. /\ epoch' = [epoch EXCEPT ![x] = @ + 1] /\ version' = [version EXCEPT ![x] = 0]
        /\ lost' = [lost EXCEPT ![x] = TRUE]
    BY <1>3 DEF ResetRoom
  <2>2. /\ version \in [Rooms -> 0..MaxVersion] /\ epoch \in [Rooms -> 1..MaxEpoch]
        /\ lost \in [Rooms -> BOOLEAN]
    BY DEF TypeOK
  <2>3. CASE r = x
    BY <2>1, <2>2, <2>3 DEF Owed
  <2>4. CASE r # x
    BY <2>1, <2>2, <2>4 DEF Current
  <2>5. QED
    BY <2>3, <2>4
<1>4. ASSUME NEW w \in Workers, ReadSnapshot(w) \/ ReadFails(w) \/ Apply(w) PROVE UNCHANGED <<epoch, version>>
  BY <1>4 DEF ReadSnapshot, ReadFails, Apply, storeVars
<1>5. ASSUME NEW c \in Clients, Write(c) PROVE UNCHANGED <<epoch, version>>
  BY <1>5 DEF Write, storeVars
<1>6. CASE NothingMoves
  BY <1>1, <1>6 DEF NothingMoves
<1>7. QED
  BY <1>1, <1>2, <1>3, <1>4, <1>5, <1>6, MovingSteps

LEMMA KnownGrows ==
  ASSUME TypeOK, [Next]_vars
  PROVE  known \subseteq known'
<1>1. CASE \E c \in Clients : Register(c) \/ Refuse(c)
  BY <1>1 DEF Register, Refuse
<1>2. CASE \/ \E r \in Rooms : Commit(r) \/ ResetRoom(r) \/ LoseNotification(r) \/ Dirty(r)
           \/ Subscribe \/ Disconnect \/ Reconcile \/ Coalesce
  BY <1>2 DEF Commit, ResetRoom, LoseNotification, Dirty, Subscribe, Disconnect, Reconcile, Coalesce,
              roomVars
<1>3. CASE \E w \in Workers : Take(w) \/ ReadSnapshot(w) \/ ReadFails(w) \/ Apply(w) \/ Finish(w)
  BY <1>3 DEF Take, ReadSnapshot, ReadFails, Apply, Finish, roomVars
<1>4. CASE \E c \in Clients : Open(c) \/ Write(c) \/ Drop(c) \/ Leave(c)
  BY <1>4 DEF Open, Write, Drop, Leave, roomVars
<1>5. CASE CloseClients \/ Cancel \/ Closed \/ \E g \in Background : Exit(g)
  BY <1>5 DEF CloseClients, Cancel, Closed, Exit, roomVars
<1>6. CASE UNCHANGED vars
  BY <1>6 DEF vars
<1>7. QED
  BY <1>1, <1>2, <1>3, <1>4, <1>5, <1>6 DEF Next

LEMMA RefreshingSteps ==
  ASSUME TypeOK, [Next]_vars, NEW r \in Rooms, refreshing'[r]
  PROVE  refreshing[r] \/ r \in known
<1>1. CASE Coalesce
  <2>1. PICK batch \in Batches :
          refreshing' = [x \in Rooms |-> refreshing[x] \/ x \in {batch[i] : i \in DOMAIN batch}]
    BY <1>1 DEF Coalesce
  <2>2. PICK n \in Nat : batch \in [1..n -> Ready]
    BY BatchType
  <2>3. {batch[i] : i \in DOMAIN batch} \subseteq known
    BY <2>2 DEF Ready
  <2>4. QED
    BY <2>1, <2>3
<1>2. ASSUME NEW w \in Workers, Finish(w) PROVE refreshing[r]
  BY <1>2 DEF Finish, TypeOK
<1>3. CASE \E w \in Workers : Take(w) \/ ReadSnapshot(w) \/ ReadFails(w) \/ Apply(w)
  BY <1>3 DEF Take, ReadSnapshot, ReadFails, Apply, roomVars
<1>4. QED
  BY <1>1, <1>2, <1>3, OthersStay DEF Next

LEMMA StaleReadsStep ==
  ASSUME TypeOK, SingleRefreshes, Wakeful, [Next]_vars
  PROVE  StaleReadIsOwed'
<1> SUFFICES ASSUME NEW r \in Rooms, NEW w \in Workers, worker'[w].stage = "read",
                    worker'[w].room = r, worker'[w].message # Current(r)'
             PROVE  Owed(r)'
  BY DEF StaleReadIsOwed
<1>1. CASE worker'[w] = worker[w]
  <2>1. refreshing[r]
    BY <1>1, BusyIsRefreshing
  <2>2. r \in known
    BY <2>1 DEF Wakeful, RefreshesAreKnown
  <2>3. CASE worker[w].message # Current(r)
    <3>1. Owed(r)
      BY <1>1, <2>3 DEF Wakeful, StaleReadIsOwed
    <3>2. QED
      BY <2>1, <2>2, <3>1, OwedSteps
  <2>4. CASE worker[w].message = Current(r)
    <3>1. Current(r)' # Current(r)
      BY <1>1, <2>4
    <3>2. QED
      BY <3>1, ChangesAreOwed
  <2>5. QED
    BY <2>3, <2>4
<1>2. CASE ReadSnapshot(w)
  <2>1. worker'[w] = [stage |-> "read", room |-> worker[w].room, message |-> Current(worker[w].room)]
    BY <1>2, WorkerType DEF ReadSnapshot
  <2>2. epoch' = epoch /\ version' = version
    BY <1>2 DEF ReadSnapshot, storeVars
  <2>3. Current(r)' = Current(r)
    BY <2>2 DEF Current
  <2>4. QED
    BY <2>1, <2>3
<1>3. CASE ReadFails(w)
  <2>1. lost \in [Rooms -> BOOLEAN]
    BY DEF TypeOK
  <2>2. worker'[w] = [stage |-> "read", room |-> worker[w].room, message |-> Unavailable]
    BY <1>3, WorkerType DEF ReadFails
  <2>3. worker[w].room = r
    BY <2>2
  <2>4. lost'[r]
    BY <1>3, <2>1, <2>3 DEF ReadFails
  <2>5. QED
    BY <2>4 DEF Owed
<1>4. CASE Take(w) \/ Apply(w) \/ Finish(w)
  <2>1. \/ worker'[w] = [stage |-> "taken", room |-> Head(jobs)]
        \/ worker'[w] = [stage |-> "applied", room |-> worker[w].room]
        \/ worker'[w] = Idle
    BY <1>4, WorkerType DEF Take, Apply, Finish
  <2>2. QED
    BY <2>1 DEF Idle
<1>5. QED
  BY <1>1, <1>2, <1>3, <1>4, WorkerSteps

\* A live client's room is known: the hub never forgets a room.
LEMMA LiveRoomIsKnown ==
  ASSUME TypeOK, NEW c \in Clients, conn[c] = "live"
  PROVE  RoomOf[c] \in known /\ RoomOf[c] \in Rooms /\ c \in Registered(RoomOf[c])
<1>1. c \in Registered(RoomOf[c]) /\ RoomOf[c] \in Rooms
  BY RoomType DEF Registered
<1>2. QED
  BY <1>1 DEF TypeOK, AdmissionLimits

LEMMA WakeupStep ==
  ASSUME TypeOK, SingleRefreshes, Wakeful, [Next]_vars, NEW c \in Clients, conn'[c] = "live"
  PROVE  (UpToDate(c) \/ WillRefresh(RoomOf[c]) \/ lost[RoomOf[c]])'
<1> DEFINE r == RoomOf[c]
<1>0. SUFFICES ASSUME ~Owed(r)', Queued(r)' = {} PROVE (UpToDate(c) \/ WillRefresh(r))'
  BY DEF Owed, WillRefresh
<1>1. conn[c] = "live"
  <2>1. ASSUME Register(c) PROVE FALSE
    <3>1. dirty'[r]
      BY <2>1, RoomType DEF Register, TypeOK
    <3>2. QED
      BY <1>0, <3>1 DEF Owed
  <2>2. QED
    BY <2>1, ConnSteps
<1>2. r \in known /\ r \in Rooms /\ c \in Registered(r)
  BY <1>1, LiveRoomIsKnown
<1>3. ~Owed(r)
  BY <1>0, <1>2, OwedSteps
<1>4. Current(r)' = Current(r) /\ Current(r) \in Snapshots
  BY <1>0, <1>2, ChangesAreOwed, CurrentType
<1>5. ASSUME NEW w \in Workers, w \in Busy(r), Apply(w) PROVE UpToDate(c)'
  <2>1. worker[w].room = r /\ worker[w].stage = "read"
    BY <1>5 DEF Busy, Apply
  <2>2. worker[w].message = Current(r)
    BY <1>2, <1>3, <2>1 DEF Wakeful, StaleReadIsOwed
  <2>3. queue'[c] = << For(c, Current(r), Current(r)) >>
    BY <1>2, <1>5, <2>1, <2>2, ApplyIs
  <2>4. QED
    BY <1>4, <2>3 DEF UpToDate, For
<1>6. ASSUME NEW w \in Workers, w \in Busy(r), worker[w].stage = "taken"
      PROVE  WillRefresh(r)'
  <2>1. CASE worker'[w] = worker[w]
    BY <1>6, <2>1 DEF WillRefresh, Busy
  <2>2. CASE ReadSnapshot(w)
    <3>1. worker'[w] = [stage |-> "read", room |-> r, message |-> Current(r)]
      BY <1>6, <2>2, WorkerType DEF ReadSnapshot, Busy
    <3>2. QED
      BY <1>4, <3>1 DEF WillRefresh, Busy, Idle
  <2>3. CASE ReadFails(w)
    <3>1. lost'[r]
      BY <1>2, <1>6, <2>3 DEF ReadFails, Busy, TypeOK
    <3>2. QED
      BY <1>0, <3>1 DEF Owed
  <2>4. CASE Take(w) \/ Apply(w) \/ Finish(w)
    BY <1>6, <2>4 DEF Take, Apply, Finish, Idle
  <2>5. QED
    BY <2>1, <2>2, <2>3, <2>4, WorkerSteps
<1>7. ASSUME NEW w \in Workers, w \in Busy(r), worker[w].stage = "read", worker[w].message = Current(r)
      PROVE  (UpToDate(c) \/ WillRefresh(r))'
  <2>1. CASE worker'[w] = worker[w]
    BY <1>4, <1>7, <2>1 DEF WillRefresh, Busy
  <2>2. CASE Apply(w)
    BY <1>5, <1>7, <2>2
  <2>3. CASE Take(w) \/ ReadSnapshot(w) \/ ReadFails(w) \/ Finish(w)
    BY <1>7, <2>3 DEF Take, ReadSnapshot, ReadFails, Finish, Idle
  <2>4. QED
    BY <2>1, <2>2, <2>3, WorkerSteps
<1>8. ASSUME Queued(r) # {} PROVE WillRefresh(r)'
  <2>1. PICK w \in Workers : w \in Busy(r)' /\ worker'[w].stage = "taken"
    BY <1>0, <1>2, <1>8, JobSteps
  <2>2. QED
    BY <2>1 DEF WillRefresh
<1>9. ASSUME UpToDate(c) PROVE UpToDate(c)'
  <2>1. CASE queue'[c] = queue[c] /\ view'[c] = view[c]
    BY <1>4, <1>9, <2>1 DEF UpToDate
  <2>2. CASE Write(c)
    <3>1. /\ queue'[c] = << >> /\ queue[c] # << >>
          /\ view' = IF Head(queue[c]) \in Snapshots THEN [view EXCEPT ![c] = Head(queue[c])] ELSE view
          /\ conn' = IF Head(queue[c]) = ResetRequired THEN [conn EXCEPT ![c] = "closing"] ELSE conn
      BY <2>2, QueueType DEF Write
    <3>2. queue[c] # << ResetRequired >>
      BY <1>1, <3>1 DEF TypeOK
    <3>3. queue[c] = << Current(r) >>
      BY <1>9, <3>1, <3>2 DEF UpToDate
    <3>4. Head(queue[c]) = Current(r)
      BY <3>3
    <3>5. view'[c] = Current(r)
      BY <1>4, <3>1, <3>4 DEF TypeOK
    <3>6. QED
      BY <1>4, <3>1, <3>5 DEF UpToDate
  <2>3. ASSUME NEW w \in Workers, Apply(w) PROVE UpToDate(c)'
    <3>1. CASE worker[w].room = r
      <4>1. w \in Busy(r)
        BY <2>3, <3>1 DEF Apply, Busy, Idle
      <4>2. QED
        BY <1>5, <2>3, <4>1
    <3>2. CASE worker[w].room # r
      <4>1. c \notin Registered(worker[w].room)
        BY <3>2 DEF Registered
      <4>2. queue'[c] = queue[c] /\ view' = view
        BY <2>3, <4>1, ApplyIs DEF Apply
      <4>3. QED
        BY <2>1, <4>2
    <3>3. QED
      BY <3>1, <3>2
  <2>4. QED
    BY <2>1, <2>2, <2>3, ClientSteps
<1>10. UpToDate(c) \/ WillRefresh(r)
  BY <1>1, <1>3 DEF Wakeful, WakeupNotForgotten, Owed
<1>11. \/ UpToDate(c) \/ Queued(r) # {}
       \/ \E w \in Busy(r) : \/ worker[w].stage = "taken"
                             \/ worker[w].stage = "read" /\ worker[w].message = Current(r)
  BY <1>3, <1>10 DEF WillRefresh, Owed
<1>12. Busy(r) \subseteq Workers
  BY DEF Busy
<1>13. QED
  BY <1>6, <1>7, <1>8, <1>9, <1>11, <1>12

LEMMA WakefulStep == TypeOK /\ SingleRefreshes /\ Wakeful /\ [Next]_vars => Wakeful'
<1> SUFFICES ASSUME TypeOK, SingleRefreshes, Wakeful, [Next]_vars PROVE Wakeful'
  OBVIOUS
<1>1. RefreshesAreKnown'
  BY KnownGrows, RefreshingSteps DEF Wakeful, RefreshesAreKnown
<1>2. WakeupNotForgotten'
  BY WakeupStep DEF WakeupNotForgotten
<1>3. QED
  BY <1>1, <1>2, StaleReadsStep DEF Wakeful

(***************************************************************************)
(* A change is never forgotten between the ticker, the worker and the      *)
(* broadcast, in whatever order notifications, reads and resets fall.      *)
(***************************************************************************)
THEOREM WakeupsAreNotForgotten == Spec => []WakeupNotForgotten
<1>1. Init => Wakeful
  <2> SUFFICES ASSUME Init PROVE Wakeful
    OBVIOUS
  <2>1. RefreshesAreKnown /\ StaleReadIsOwed /\ \A c \in Clients : conn[c] # "live"
    BY DEF Init, RefreshesAreKnown, StaleReadIsOwed, Idle
  <2>2. QED
    BY <2>1 DEF Wakeful, WakeupNotForgotten
<1>2. Wakeful => WakeupNotForgotten
  BY DEF Wakeful
<1>3. QED
  BY <1>1, <1>2, WakefulStep, TypeCorrect, SingleAlways, PTL DEF Spec
==============================================================================
