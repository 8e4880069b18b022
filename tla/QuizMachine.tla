------------------------------ MODULE QuizMachine ------------------------------
(***************************************************************************)
(* The browser's QuizMachine: one learner's view of a quiz, kept over HTTP *)
(* requests that may be lost or answered late, a WebSocket that brings     *)
(* public snapshots and may break, and a stored submission intent that     *)
(* survives a reload.  The server is reduced to what this learner sees of  *)
(* it; its room may be reset, and the same learner may also play from      *)
(* another tab.                                                            *)
(*                                                                         *)
(* JavaScript runs a handler until it awaits, so an action runs a call of  *)
(* the machine up to its next request.  What remains to be done when the   *)
(* response arrives is the request's "then", a stack of what the callers   *)
(* of the request still do, and Resume runs it.                            *)
(***************************************************************************)
EXTENDS Integers, Sequences, FiniteSets

CONSTANTS
  Questions,        \* how many questions an attempt has; they are answered in order
  Threads,          \* bound: requests in flight at a time
  MaxEpoch,         \* bound: epochs of the room
  MaxOther,         \* bound: answers from another tab and by other learners
  MaxFailures       \* bound: requests or responses lost, and refused answers

ASSUME QuizMachineAssumption ==
  /\ Questions \in Nat \ {0} /\ MaxEpoch \in Nat \ {0} /\ IsFiniteSet(Threads)
  /\ MaxOther \in Nat /\ MaxFailures \in Nat

None == [epoch |-> 0]
NoCall == [on |-> "none"]
NoSocket == [epoch |-> 0]
Opening == [epoch |-> 0, message |-> None] \* a socket the server has not admitted yet
ResetRequired == [code |-> "RESET_REQUIRED"]
NoReply == [ok |-> FALSE, code |-> "none"]

VARIABLES
  server,           \* the room, and this learner in it
  m,                \* the fields of the machine, and what it keeps in sessionStorage
  calls,            \* Thread -> the request in flight, its reply and its continuation
  others,           \* what others did so far
  failures,         \* failures so far
  rolledBack        \* history: a private state of an earlier epoch has replaced a later one

vars == <<server, m, calls, others, failures, rolledBack>>

Key(e, q) == [epoch |-> e, q |-> q]
-----------------------------------------------------------------------------
(* The machine's getters *)

CurrentQuestion(s) == IF Len(s.receipts) < Questions THEN Len(s.receipts) + 1 ELSE 0
Question(x) ==
  IF x.feedback # None THEN x.feedback.q ELSE IF x.state = None THEN 0 ELSE CurrentQuestion(x.state)
NeedsRecovery(x) == x.connection = "reset"
Complete(x) == x.state # None /\ CurrentQuestion(x.state) = 0 /\ x.feedback = None /\ x.pending = None

CanSelect(x) ==
  /\ x.state # None /\ CurrentQuestion(x.state) # 0
  /\ x.pending = None /\ x.feedback = None /\ ~x.busy /\ ~NeedsRecovery(x)
  /\ x.clock = Key(x.state.epoch, CurrentQuestion(x.state))
  /\ x.state.shown = Len(x.state.receipts)

CanAdvance(x) ==
  /\ x.feedback # None /\ x.pending = None /\ ~NeedsRecovery(x)
  /\ x.privateVersion >= x.feedback.version
  /\ x.feedback.q \in DOMAIN x.state.receipts

\* The buttons that call retry() and stay on the page, and its own guard; the
\* button of the passing "reconnecting" notice is left out.
RetryOffered(x) ==
  /\ x.state # None /\ ~NeedsRecovery(x) /\ ~x.busy
  /\ \/ x.submission = "unconfirmed"
     \/ x.pending = None /\ x.connection = "unavailable"
     \/ x.pending = None /\ x.clockMessage /\ x.feedback = None /\ ~Complete(x)
RetryWorks(x) == ~x.resolving /\ x.submission # "checking"
-----------------------------------------------------------------------------
(* Its private methods, as functions of its fields *)

\* closeSocket: the handlers of the old socket are gone before it is closed.
CloseSocket(x) == [x EXCEPT !.ws = NoSocket]

Fail(x, reply) ==
  IF reply \in {"EPOCH_MISMATCH", "NOT_JOINED"}
  THEN [x EXCEPT !.connection = "reset", !.ws = NoSocket]
  ELSE [x EXCEPT !.connection = "unavailable"]

ClearPending(x) == [x EXCEPT !.pending = None, !.saved = None]

ShowFeedback(x, q) ==
  [x EXCEPT !.feedback = [epoch |-> x.state.epoch, q |-> q, version |-> x.state.receipts[q]],
            !.selected = Key(x.state.epoch, q), !.submission = "idle"]

\* accept: a receipt of the pending question in the present epoch.
Accept(x, receipt) ==
  IF x.pending = None \/ receipt.epoch # x.state.epoch \/ receipt.q # x.pending.q THEN x
  ELSE ClearPending([x EXCEPT !.feedback = receipt, !.selected = Key(receipt.epoch, receipt.q),
                              !.submission = "idle"])

ReceiptOf(s, q) == [epoch |-> s.epoch, q |-> q, version |-> s.receipts[q]]
\* Mutation: the stored dismissal is not read.
ReadNothing(x, e) == 0

ReadDismissed(x, e) == IF x.dismissal.epoch = e THEN x.dismissal.version ELSE 0

\* Mutation: what was shown in an earlier epoch stays.
AdoptWithFeedback(x, previousQuestion, newEpoch) ==
  LET a == IF x.pending # None /\ x.pending.epoch # x.state.epoch THEN ClearPending(x) ELSE x
      latest == Len(a.state.receipts)
  IN IF a.feedback # None \/ a.pending # None THEN a
     ELSE IF latest > 0 /\ a.state.receipts[latest] > a.dismissedVersion THEN ShowFeedback(a, latest)
     ELSE IF previousQuestion # Question(a) THEN [a EXCEPT !.selected = None]
     ELSE a

\* The rest of applyPrivate once the state has been adopted.
Adopt(x, previousQuestion, newEpoch) ==
  LET a == IF x.pending # None /\ x.pending.epoch # x.state.epoch THEN ClearPending(x) ELSE x
      b == IF newEpoch THEN [a EXCEPT !.feedback = None, !.selected = None,
                                      !.dismissedVersion = ReadDismissed(a, a.state.epoch)] ELSE a
      c == IF b.pending # None /\ b.pending.q \in DOMAIN b.state.receipts
           THEN Accept(b, ReceiptOf(b.state, b.pending.q)) ELSE b
      latest == Len(c.state.receipts)
  IN IF c.feedback # None \/ c.pending # None THEN c
     ELSE IF latest > 0 /\ c.state.receipts[latest] > c.dismissedVersion THEN ShowFeedback(c, latest)
     ELSE IF previousQuestion # Question(c) THEN [c EXCEPT !.selected = None]
     ELSE c

\* A state whose request is older than one applied already is late (0, see
\* Renumbered), and so is one of an older version of the same epoch.
ApplyPrivate(x, incoming, sequence) ==
  LET sameEpoch == x.state # None /\ x.state.epoch = incoming.epoch
      adopted == IF sameEpoch /\ x.state.version > incoming.version
                 THEN [incoming EXCEPT !.version = x.state.version, !.shown = x.state.shown]
                 ELSE incoming
  IN IF sequence <= x.appliedSequence \/ (sameEpoch /\ incoming.version < x.privateVersion) THEN x
     ELSE Adopt([x EXCEPT !.appliedSequence = sequence, !.privateVersion = incoming.version,
                          !.state = adopted],
                Question(x), ~sameEpoch)

\* Mutation: a reload forgets the stored intent.
LoadNothing(x) == ClearPending(x)

LoadPending(x) ==
  IF x.saved = None THEN x
  ELSE IF x.saved.epoch # x.state.epoch THEN ClearPending(x)
  ELSE [x EXCEPT !.pending = x.saved, !.feedback = None, !.selected = Key(x.saved.epoch, x.saved.q),
                 !.submission = "unconfirmed"]

\* connect, and scheduleReconnect
Connect(x) == [x EXCEPT !.ws = Opening, !.connection = "ok"]
ScheduleReconnect(x) ==
  IF x.timer \/ NeedsRecovery(x) THEN CloseSocket(x)
  ELSE [CloseSocket(x) EXCEPT !.timer = TRUE, !.connection = "ok"]
-----------------------------------------------------------------------------
(* What is left to do after an await, up to the next one. *)

At(name) == [at |-> name, id |-> 0]
Call(on, key, id, sequence, then) ==
  [on |-> on, key |-> key, id |-> id, sequence |-> sequence, then |-> then, reply |-> NoReply, alive |-> TRUE]
Runs(x, call) == [machine |-> x, call |-> call]

WantsClock(x) ==
  /\ x.state # None /\ CurrentQuestion(x.state) # 0
  /\ x.feedback = None /\ x.pending = None /\ ~NeedsRecovery(x)
  /\ Key(x.state.epoch, CurrentQuestion(x.state)) \notin {x.clock, x.starting}

CanSend(x) ==
  x.pending # None /\ x.state # None /\ x.pending.epoch = x.state.epoch /\ x.sending # x.pending.id

\* Sends of the answer that end, startCurrentQuestion and, last of all, the caller:
\* the page's own join or retry, the timer's reconnect, or synchronizePublic.
Sent(id) == [at |-> "sent", id |-> id]
Occurs(then, name) == \E i \in DOMAIN then : then[i].at = name

Finished(x, then) ==
  LET connects == \/ Occurs(then, "joined") \/ Occurs(then, "reconnect")
                  \/ Occurs(then, "retried") /\ x.ws = NoSocket
      y == [x EXCEPT !.sending = IF \E i \in DOMAIN then : then[i] = Sent(@) THEN 0 ELSE @,
                     !.busy = @ /\ ~Occurs(then, "joined"),
                     !.publicSync = @ /\ ~Occurs(then, "public"),
                     !.resolving = @ /\ ~Occurs(then, "retried")]
  IN IF connects /\ ~NeedsRecovery(x) THEN Connect(y) ELSE y

\* Only startCurrentQuestion may wait again.  Once it has nothing to ask for, a
\* later one of the same run has nothing to ask for either.
Resume(x, then) ==
  LET starts == {i \in DOMAIN then : then[i].at = "startQuestion"}
      first == CHOOSE i \in starts : \A j \in starts : i <= j
      key == Key(x.state.epoch, CurrentQuestion(x.state))
  IN IF starts # {} /\ WantsClock(x)
     THEN Runs([Finished(x, SubSeq(then, 1, first - 1)) EXCEPT !.starting = key],
               Call("start", key, 0, 0, SubSeq(then, first + 1, Len(then))))
     ELSE Runs(Finished(x, then), NoCall)

Synchronize(x, then) ==
  Runs([x EXCEPT !.requestSequence = @ + 1], Call("state", None, 0, x.requestSequence + 1, then))

SendPending(x, then) ==
  IF CanSend(x)
  THEN Runs([x EXCEPT !.sending = x.pending.id, !.submission = "checking"],
            Call("answer", Key(x.pending.epoch, x.pending.q), x.pending.id, 0, <<Sent(x.pending.id)>> \o then))
  ELSE Resume(x, then)

ResolvePending(x, then) ==
  IF x.pending # None /\ x.pending.q \in DOMAIN x.state.receipts
  THEN Resume(Accept(x, ReceiptOf(x.state, x.pending.q)), then)
  ELSE SendPending(x, then)

\* What each request does next when its response has arrived.
AfterState(x, c) ==
  IF c.reply.ok
  THEN ResolvePending(ApplyPrivate(x, c.reply.state, c.sequence), <<At("startQuestion")>> \o c.then)
  ELSE Resume(Fail(x, c.reply.code), c.then)

AfterJoin(x, c) ==
  IF c.reply.ok
  THEN ResolvePending(LoadPending(ApplyPrivate([x EXCEPT !.requestSequence = @ + 1], c.reply.state,
                                               x.requestSequence + 1)),
                      <<At("startQuestion"), At("joined")>>)
  ELSE Runs([Fail(x, c.reply.code) EXCEPT !.busy = FALSE], NoCall)

Unconfirmed(x) == [x EXCEPT !.submission = "unconfirmed"]
AfterAnswer(x, c) ==
  IF x.pending = None \/ x.pending.id # c.id THEN Resume(x, c.then)
  ELSE IF c.reply.ok
  THEN LET accepted == Accept(x, c.reply.receipt) IN
       IF accepted.pending = None
       THEN Synchronize(accepted, c.then)
       ELSE Resume(Unconfirmed(accepted), c.then)
  ELSE IF c.reply.code = "refused" THEN Resume([ClearPending(x) EXCEPT !.submission = "idle"], c.then)
  ELSE IF c.reply.code = "lost" THEN Resume(Unconfirmed(x), c.then)
  ELSE Resume(Fail(Unconfirmed(x), c.reply.code), c.then)

\* Mutation: a start that failed is never taken off the list.
StartedForGood(x, key) == x

Started(x, key) == IF x.starting = key THEN [x EXCEPT !.starting = None] ELSE x
AfterStart(x, c) ==
  LET obsolete == \/ x.state.epoch # c.key.epoch \/ CurrentQuestion(x.state) # c.key.q
                  \/ x.feedback # None
      unclocked == [x EXCEPT !.clockMessage = TRUE]
  IN IF obsolete THEN Resume(Started(x, c.key), c.then)
     ELSE IF c.reply.ok
     THEN Resume(Started([x EXCEPT !.clock = c.key, !.clockMessage = FALSE], c.key), c.then)
     ELSE IF c.reply.code = "QUESTION_ALREADY_ANSWERED"
     THEN Runs(unclocked, Call("resync", c.key, 0, 0, c.then))
     ELSE Resume(Started(Fail(unclocked, c.reply.code), c.key), c.then)

\* The number of this request is drawn when its response is applied.
AfterResync(x, c) ==
  LET y == IF c.reply.ok
           THEN ApplyPrivate([x EXCEPT !.requestSequence = @ + 1], c.reply.state, x.requestSequence + 1)
           ELSE Fail(x, c.reply.code)
  IN Resume(Started(y, c.key), c.then)

\* A response to an earlier generation changes nothing but retry's own flag.
AfterDeath(x, c) ==
  Runs(IF Occurs(c.then, "retried") THEN [x EXCEPT !.resolving = FALSE] ELSE x, NoCall)

After(x, c) ==
  CASE ~c.alive -> AfterDeath(x, c)
    [] c.alive /\ c.on = "state" -> AfterState(x, c)
    [] c.alive /\ c.on = "join" -> AfterJoin(x, c)
    [] c.alive /\ c.on = "answer" -> AfterAnswer(x, c)
    [] c.alive /\ c.on = "start" -> AfterStart(x, c)
    [] c.alive /\ c.on = "resync" -> AfterResync(x, c)
-----------------------------------------------------------------------------
(* Sequence numbers are only compared, so that they are kept small: those  *)
(* of responses that would come late become 0, the others their rank.      *)

Renumbered(x, cs) ==
  LET fresh == {cs[t].sequence : t \in {u \in Threads : cs[u] # NoCall /\ cs[u].on = "state"}}
                 \ 0..x.appliedSequence
      rank(n) == IF n \in fresh THEN Cardinality({k \in fresh : k <= n}) ELSE 0
  IN /\ m' = [x EXCEPT !.appliedSequence = 0, !.requestSequence = Cardinality(fresh)]
     /\ calls' = [t \in Threads |-> IF cs[t] = NoCall THEN NoCall
                                    ELSE [cs[t] EXCEPT !.sequence = rank(@)]]

\* The machine's call leaves thread t with the request it stopped at, if any.
Steps(t, run) == Renumbered(run.machine, [calls EXCEPT ![t] = run.call])

Free(t) == calls[t] = NoCall
-----------------------------------------------------------------------------
(* The learner *)

Blank ==
  [state |-> None, connection |-> "ok", submission |-> "idle", busy |-> FALSE, pending |-> None,
   selected |-> None, feedback |-> None, clock |-> None, clockMessage |-> FALSE, starting |-> None,
   requestSequence |-> 0, appliedSequence |-> 0, ws |-> NoSocket, timer |-> FALSE,
   resolving |-> FALSE, privateVersion |-> 0, dismissedVersion |-> 0, sending |-> 0,
   publicSync |-> FALSE, saved |-> None, dismissal |-> None, uuids |-> 0]

\* join, from the form, the rejoin button or a reload: only sessionStorage is kept,
\* and the requests in flight belong to an earlier generation.
Join(t) ==
  LET stopped == [u \in Threads |-> IF Free(u) THEN NoCall ELSE [calls[u] EXCEPT !.alive = FALSE]] IN
  /\ Free(t)
  /\ Renumbered([Blank EXCEPT !.busy = TRUE, !.saved = m.saved, !.dismissal = m.dismissal, !.uuids = m.uuids],
                [stopped EXCEPT ![t] = Call("join", None, 0, 0, << >>)])
  /\ UNCHANGED <<server, others, failures, rolledBack>>

Select ==
  /\ CanSelect(m)
  /\ m' = [m EXCEPT !.selected = Key(m.state.epoch, Question(m))]
  /\ UNCHANGED <<server, calls, others, failures, rolledBack>>

\* The intent is stored before it is sent.
Submit(t) ==
  LET intent == [epoch |-> m.state.epoch, q |-> Question(m), id |-> m.uuids + 1] IN
  /\ Free(t) /\ CanSelect(m) /\ m.selected # None
  /\ Steps(t, SendPending([m EXCEPT !.pending = intent, !.saved = intent, !.uuids = @ + 1], << >>))
  /\ UNCHANGED <<server, others, failures, rolledBack>>

Retry(t) ==
  /\ Free(t) /\ RetryOffered(m) /\ RetryWorks(m)
  /\ Steps(t, Synchronize([m EXCEPT !.resolving = TRUE], <<At("retried")>>))
  /\ UNCHANGED <<server, others, failures, rolledBack>>

Dismissed(x) ==
  LET seen == x.feedback.version
      y == [x EXCEPT !.dismissedVersion = seen, !.dismissal = [epoch |-> x.state.epoch, version |-> seen],
                     !.feedback = None, !.selected = None, !.submission = "idle"]
      latest == Len(y.state.receipts)
  IN IF latest > 0 /\ y.state.receipts[latest] > seen THEN ShowFeedback(y, latest) ELSE y

NextQuestion(t) ==
  /\ Free(t) /\ CanAdvance(m)
  /\ Steps(t, Resume(Dismissed(m), <<At("startQuestion")>>))
  /\ UNCHANGED <<server, others, failures, rolledBack>>
-----------------------------------------------------------------------------
(* The socket *)

\* Server.live admits a learner who has joined, with the epoch of that moment.
Admit ==
  /\ m.ws = Opening /\ server.joined
  /\ m' = [m EXCEPT !.ws.epoch = server.epoch]
  /\ UNCHANGED <<server, calls, others, failures, rolledBack>>

\* A newer message replaces the one on its way.
Push ==
  /\ m.ws # NoSocket /\ m.ws # Opening
  /\ m' = [m EXCEPT !.ws.message =
              IF server.epoch = m.ws.epoch
              THEN [epoch |-> server.epoch, version |-> server.version, shown |-> Len(server.receipts)]
              ELSE ResetRequired]
  /\ UNCHANGED <<server, calls, others, failures, rolledBack>>

Public(x, snapshot) ==
  IF snapshot.version > x.state.version
  THEN [x EXCEPT !.state.version = snapshot.version, !.state.shown = snapshot.shown] ELSE x

SynchronizePublic(x) ==
  IF x.publicSync THEN Runs(x, NoCall)
  ELSE Synchronize([x EXCEPT !.publicSync = TRUE], <<At("public")>>)

Receives(x, message) ==
  IF message = ResetRequired THEN Runs(Fail(x, "EPOCH_MISMATCH"), NoCall)
  ELSE IF message.epoch # x.state.epoch THEN SynchronizePublic(x)
  ELSE IF message.version < x.state.version THEN Runs(x, NoCall)
  ELSE LET y == [Public(x, message) EXCEPT !.connection = "ok"] IN
       IF message.shown > Len(x.state.receipts) THEN SynchronizePublic(y) ELSE Runs(y, NoCall)

Receive(t) ==
  /\ Free(t) /\ m.ws # NoSocket /\ m.ws # Opening /\ m.ws.message # None
  /\ Steps(t, Receives([m EXCEPT !.ws.message = None], m.ws.message))
  /\ UNCHANGED <<server, others, failures, rolledBack>>

\* The socket closes, nothing was heard for too long, or a message was no good.
SocketFails ==
  /\ m.ws # NoSocket
  /\ m' = ScheduleReconnect(m)
  /\ UNCHANGED <<server, calls, others, failures, rolledBack>>

TimerFires(t) ==
  /\ Free(t) /\ m.timer
  /\ Steps(t, Synchronize([m EXCEPT !.timer = FALSE], <<At("reconnect")>>))
  /\ UNCHANGED <<server, others, failures, rolledBack>>
-----------------------------------------------------------------------------
(* The network and the server *)

Error(code) == [ok |-> FALSE, code |-> code]

State(s) == [epoch |-> s.epoch, version |-> s.version, shown |-> Len(s.receipts),
             receipts |-> [i \in DOMAIN s.receipts |-> s.receipts[i].version]]
Joined(s) == IF s.joined THEN s ELSE [s EXCEPT !.joined = TRUE, !.version = @ + 1]
Answered(s, id) == [s EXCEPT !.receipts = Append(@, [version |-> s.version + 1, id |-> id]), !.version = @ + 1]

\* What the server makes of a request: its new state and its reply.
Served(s, c) ==
  IF c.on = "join" THEN [server |-> Joined(s), reply |-> [ok |-> TRUE, state |-> State(Joined(s))]]
  ELSE IF c.key # None /\ c.on # "resync" /\ c.key.epoch # s.epoch
       THEN [server |-> s, reply |-> Error("EPOCH_MISMATCH")]
  ELSE IF ~s.joined THEN [server |-> s, reply |-> Error("NOT_JOINED")]
  ELSE CASE c.on \in {"state", "resync"} -> [server |-> s, reply |-> [ok |-> TRUE, state |-> State(s)]]
         [] c.on = "start" ->
              IF c.key.q \notin s.clocks /\ c.key.q <= Len(s.receipts)
              THEN [server |-> s, reply |-> Error("QUESTION_ALREADY_ANSWERED")]
              ELSE [server |-> [s EXCEPT !.clocks = @ \cup {c.key.q}], reply |-> [ok |-> TRUE, clock |-> c.key]]
         [] c.on = "answer" /\ c.id \in s.refused -> [server |-> s, reply |-> Error("refused")]
         [] c.on = "answer" /\ c.id \notin s.refused ->
              LET after == IF c.key.q <= Len(s.receipts) THEN s ELSE Answered(s, c.id) IN
              [server |-> after, reply |-> [ok |-> TRUE, receipt |-> ReceiptOf(State(after), c.key.q)]]

Waiting(t) == ~Free(t) /\ calls[t].reply = NoReply

Serve(t) ==
  /\ Waiting(t)
  /\ LET served == Served(server, calls[t]) IN
       /\ server' = served.server
       /\ calls' = [calls EXCEPT ![t].reply = served.reply]
  /\ UNCHANGED <<m, others, failures, rolledBack>>

\* A request is lost before it is served, or its response after.
Lose(t) ==
  /\ ~Free(t) /\ failures < MaxFailures
  /\ calls' = [calls EXCEPT ![t].reply = Error("lost")]
  /\ failures' = failures + 1
  /\ UNCHANGED <<server, m, others, rolledBack>>

\* An error that is not retryable lies in the payload: every copy of it meets the same.
Refuse(id) ==
  /\ failures < MaxFailures /\ id \notin server.refused
  /\ \A i \in DOMAIN server.receipts : server.receipts[i].id # id
  /\ server' = [server EXCEPT !.refused = @ \cup {id}]
  /\ failures' = failures + 1
  /\ UNCHANGED <<m, calls, others, rolledBack>>

Respond(t) ==
  /\ ~Free(t) /\ calls[t].reply # NoReply
  /\ Steps(t, After(m, calls[t]))
  /\ rolledBack' = (rolledBack \/ (m.state # None /\ m'.state.epoch < m.state.epoch))
  /\ UNCHANGED <<server, others, failures>>

Reset ==
  /\ server.epoch < MaxEpoch
  /\ server' = [epoch |-> server.epoch + 1, joined |-> FALSE, version |-> 0, receipts |-> << >>, clocks |-> {},
               refused |-> {}]
  /\ UNCHANGED <<m, calls, others, failures, rolledBack>>

\* The other tab joins again after a reset, and answers; an answer without a start is late.
OtherTabJoins ==
  /\ ~server.joined /\ server.epoch > 1
  /\ server' = Joined(server)
  /\ UNCHANGED <<m, calls, others, failures, rolledBack>>

OtherTabAnswers ==
  /\ server.joined /\ Len(server.receipts) < Questions /\ others < MaxOther
  /\ \E clocks \in {server.clocks, server.clocks \cup {Len(server.receipts) + 1}} :
       server' = [Answered(server, 0) EXCEPT !.clocks = clocks]
  /\ others' = others + 1
  /\ UNCHANGED <<m, calls, failures, rolledBack>>

OtherLearnerAnswers ==
  /\ others < MaxOther
  /\ server' = [server EXCEPT !.version = @ + 1]
  /\ others' = others + 1
  /\ UNCHANGED <<m, calls, failures, rolledBack>>
-----------------------------------------------------------------------------
Init ==
  /\ server = [epoch |-> 1, joined |-> FALSE, version |-> 0, receipts |-> << >>, clocks |-> {},
               refused |-> {}]
  /\ m = Blank
  /\ calls = [t \in Threads |-> NoCall]
  /\ others = 0 /\ failures = 0 /\ rolledBack = FALSE

Next ==
  \/ \E t \in Threads :
       Join(t) \/ Submit(t) \/ Retry(t) \/ NextQuestion(t) \/ Receive(t) \/ TimerFires(t)
  \/ \E t \in Threads : Serve(t) \/ Lose(t) \/ Respond(t)
  \/ \E id \in {calls[t].id : t \in {u \in Threads : Waiting(u) /\ calls[u].on = "answer"}} : Refuse(id)
  \/ Select \/ Admit \/ Push \/ SocketFails
  \/ Reset \/ OtherTabJoins \/ OtherTabAnswers \/ OtherLearnerAnswers

Spec == Init /\ [][Next]_vars

(***************************************************************************)
(* Requests end, the hub refreshes every room again and again, timers      *)
(* fire, and the learner clicks the retry button for as long as it is      *)
(* shown.  The steps Respond, TimerFires, Receive and Retry each end the   *)
(* condition they wait for; that each happens again and again while its    *)
(* condition holds is said by the condition failing again and again.       *)
(***************************************************************************)
SomeFree == \E t \in Threads : Free(t)

Fairness ==
  /\ \A t \in Threads : WF_vars(Serve(t)) /\ []<>(Free(t) \/ calls[t].reply = NoReply)
  /\ []<>~(SomeFree /\ m.timer)
  /\ []<>~(SomeFree /\ m.ws \notin {NoSocket, Opening} /\ m.ws.message # None)
  /\ []<>~(SomeFree /\ RetryOffered(m) /\ RetryWorks(m))
  /\ WF_vars(Admit) /\ WF_vars(Push)

FairSpec == Spec /\ Fairness
-----------------------------------------------------------------------------
TypeOK ==
  /\ m.connection \in {"ok", "unavailable", "reset"}
  /\ m.submission \in {"idle", "checking", "unconfirmed"}
  /\ m.state = None \/ (Len(m.state.receipts) \in 0..Questions /\ m.state.shown \in 0..Questions)
  /\ m.pending # None => m.pending = m.saved
  /\ m.feedback # None => m.feedback.q \in 1..Questions
  /\ \A t \in Threads : Free(t) \/ calls[t].on \in {"join", "state", "start", "answer", "resync"}

(***************************************************************************)
(* What is shown belongs to what is known: the pending answer, the         *)
(* feedback, and a selection the learner can submit are of the epoch of    *)
(* the state, and the selection is of the question on the screen, whatever *)
(* response or snapshot came in between.                                   *)
(***************************************************************************)
ShownTogether ==
  TypeOK /\ (m.state # None =>
    /\ m.pending # None => m.pending.epoch = m.state.epoch
    /\ m.feedback # None => m.feedback.epoch = m.state.epoch
    /\ CanSelect(m) /\ m.selected # None => m.selected = Key(m.state.epoch, Question(m)))

(***************************************************************************)
(* A lost response does not cost the learner a question twice: a question  *)
(* whose answer from here the server has accepted is not open again here.  *)
(* It may be once an old response has taken the page back to an earlier    *)
(* epoch, which the sequence numbers do not prevent: they order requests,  *)
(* not what the server answered.  The page then drops the answer of the    *)
(* later epoch, and when it comes forward again it has no intent to check. *)
(***************************************************************************)
OwnAnswerNotReoffered ==
  ~rolledBack /\ CanSelect(m) /\ m.state.epoch = server.epoch /\ Question(m) \in DOMAIN server.receipts =>
    server.receipts[Question(m)].id = 0

(***************************************************************************)
(* Feedback that was dismissed does not come back, not even after a reload *)
(* - unless the page was taken back, to before the dismissed answer.       *)
(***************************************************************************)
DismissedStaysAway ==
  ~rolledBack /\ m.feedback # None /\ m.dismissal.epoch = m.feedback.epoch =>
    m.feedback.version > m.dismissal.version

(***************************************************************************)
(* The learner is never stuck: again and again there is a question to      *)
(* answer, feedback to leave, a result, or an explicit recovery - provided *)
(* no answer was abandoned while it was being checked (see RetryHelps).    *)
(***************************************************************************)
MovesOn == m.state = None \/ CanSelect(m) \/ CanAdvance(m) \/ Complete(m) \/ NeedsRecovery(m)
Abandoned == m.submission = "checking" /\ m.sending = 0
PlayerGetsOn == []<>(MovesOn \/ Abandoned)

(***************************************************************************)
(* The message of startCurrentQuestion: the question timer could not be    *)
(* synchronized, retry to continue.  A learner who keeps clicking goes on. *)
(***************************************************************************)
RetryHelps == []<>MovesOn
=============================================================================
