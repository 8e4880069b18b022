--------------------------- MODULE QuizMachineProofs ---------------------------
(***************************************************************************)
(* Proofs about the learner's machine, for any number of questions,        *)
(* requests in flight, epochs, other players and failures.  The invariant  *)
(* QuizMachineOK has five parts.  Base: the page shows what belongs to its *)
(* state, every state in a reply and on the page is a copy of what the     *)
(* server had (Behind), and two copies of one epoch agree (Agree).         *)
(* NamesOK: an answer with the identifier of the stored intent is for its  *)
(* question, and what the server has accepted it does not refuse.          *)
(* DismissalOK: what was dismissed is no later than what is known.         *)
(* AfterReset and Forward: the page goes back only after a reset, and      *)
(* until then the stored intent, the feedback and the dismissal are where  *)
(* the server's receipts want them.                                        *)
(*                                                                         *)
(* A step is of one of three kinds: of the server (ServerStep), of the     *)
(* machine (MachineStep, with what it does to the page), or a new page     *)
(* (Arrives); each part of the invariant is shown for the three in turn.   *)
(***************************************************************************)
EXTENDS QuizMachine, FiniteSetTheorems, TLAPS

(***************************************************************************)
(* What the machine, the server and the requests are made of.              *)
(***************************************************************************)
Fields ==
  {"state", "connection", "submission", "busy", "pending", "selected", "feedback", "clock", "clockMessage",
   "starting", "requestSequence", "appliedSequence", "ws", "timer", "resolving", "privateVersion",
   "dismissedVersion", "sending", "publicSync", "saved", "dismissal", "uuids"}

IsState(s) ==
  /\ DOMAIN s = {"epoch", "version", "shown", "receipts"}
  /\ s.epoch \in Nat \ {0} /\ s.version \in Nat /\ s.shown \in 0..Questions
  /\ s.receipts \in Seq(Nat) /\ Len(s.receipts) <= Questions

IsKey(k) == k.epoch \in Nat \ {0} /\ k.q \in 1..Questions
IsIntent(p) == IsKey(p) /\ p.id \in Nat \ {0}
IsReceipt(r) == IsKey(r) /\ r.version \in Nat
IsSnapshot(s) == s.epoch \in Nat \ {0} /\ s.version \in Nat /\ s.shown \in 0..Questions
IsSocket(w) ==
  \/ w = NoSocket
  \/ /\ DOMAIN w = {"epoch", "message"}
     /\ w.message = None \/ w.message = ResetRequired \/ IsSnapshot(w.message)

\* The fields no other part of the invariant speaks of.
Running(x) ==
  /\ DOMAIN x = Fields
  /\ x.connection \in {"ok", "unavailable", "reset"}
  /\ x.submission \in {"idle", "checking", "unconfirmed"}
  /\ IsSocket(x.ws)
  /\ x.state = None => x.ws = NoSocket /\ x.timer = FALSE

Typed(x) ==
  /\ x.state = None \/ IsState(x.state)
  /\ x.pending = None \/ IsIntent(x.pending)
  /\ x.saved = None \/ IsIntent(x.saved)
  /\ x.feedback = None \/ IsReceipt(x.feedback)
  /\ x.dismissal = None \/ (x.dismissal.epoch \in Nat \ {0} /\ x.dismissal.version \in Nat)
  /\ x.privateVersion \in Nat /\ x.dismissedVersion \in Nat /\ x.uuids \in Nat

\* What the page shows belongs to its state, and to one question of it.
Shown(x) ==
  /\ x.state = None => x.pending = None /\ x.feedback = None
  /\ x.state # None =>
       /\ x.pending # None =>
            /\ x.pending.epoch = x.state.epoch /\ x.pending.q = Len(x.state.receipts) + 1
            /\ x.selected = Key(x.pending.epoch, x.pending.q) /\ x.feedback = None
       /\ x.feedback # None => x.feedback.epoch = x.state.epoch
       /\ x.pending = None /\ x.feedback = None =>
            x.selected \in {None, Key(x.state.epoch, Len(x.state.receipts) + 1)}

Page(x) == Typed(x) /\ Shown(x) /\ (x.state # None => x.saved = x.pending)

IsServer(s) ==
  /\ DOMAIN s = {"epoch", "joined", "version", "receipts", "clocks", "refused"}
  /\ s.epoch \in Nat \ {0} /\ s.version \in Nat
  /\ s.receipts \in Seq([version : Nat, id : Nat]) /\ Len(s.receipts) <= Questions
  /\ \A i \in 1..Len(s.receipts) : s.receipts[i].version <= s.version

HasState(c) == c # NoCall /\ c.on \in {"state", "join", "resync"} /\ c.reply.ok
HasReceipt(c) == c # NoCall /\ c.on = "answer" /\ c.reply.ok

IsCall(c) ==
  /\ DOMAIN c = {"on", "key", "id", "sequence", "then", "reply", "alive"}
  /\ c.on \in {"state", "join", "resync", "answer", "start"}
  /\ c.on \in {"answer", "start", "resync"} => IsKey(c.key)
  /\ c.on \in {"state", "join"} => c.key = None
  /\ c.on = "answer" => c.id \in Nat \ {0}
  /\ c.reply.ok \in BOOLEAN /\ c.alive \in BOOLEAN
  /\ HasState(c) => IsState(c.reply.state)
  /\ HasReceipt(c) =>
       IsReceipt(c.reply.receipt) /\ c.reply.receipt.epoch = c.key.epoch /\ c.reply.receipt.q = c.key.q

(***************************************************************************)
(* A copy of the learner's receipts, at a version of an epoch.  Every copy *)
(* is behind the server, and two of one epoch agree: the later one has     *)
(* what the earlier one has, and what it has besides was accepted later.   *)
(***************************************************************************)
Copied(s) == [epoch |-> s.epoch, version |-> s.version, receipts |-> s.receipts]
Mine(x) == [epoch |-> x.state.epoch, version |-> x.privateVersion, receipts |-> x.state.receipts]
IsCopy(a) == a.epoch \in Nat \ {0} /\ a.version \in Nat /\ a.receipts \in Seq(Nat)

OfPage(x) == IF x.state = None THEN {} ELSE {Mine(x)}
Replied == {Copied(calls[t].reply.state) : t \in {u \in Threads : HasState(calls[u])}}
Held == Replied \cup OfPage(m)

Agree(a, b) ==
  a.epoch = b.epoch /\ a.version <= b.version =>
    /\ Len(a.receipts) <= Len(b.receipts)
    /\ \A i \in (Len(a.receipts) + 1)..Len(b.receipts) : b.receipts[i] > a.version

Behind(a, s) ==
  /\ a.epoch <= s.epoch
  /\ a.epoch = s.epoch =>
       /\ a.version <= s.version /\ Len(a.receipts) <= Len(s.receipts)
       /\ \A i \in (Len(a.receipts) + 1)..Len(s.receipts) : s.receipts[i].version > a.version

Later(r, a) == r.epoch = a.epoch /\ r.q > Len(a.receipts) => r.version > a.version
Given(r, s) == r.epoch <= s.epoch /\ (r.epoch = s.epoch => r.q <= Len(s.receipts))

CopiesOK ==
  /\ \A a \in Held : IsCopy(a) /\ Behind(a, server)
  /\ \A a, b \in Held : Agree(a, b)
  /\ \A t \in Threads : HasReceipt(calls[t]) => Given(calls[t].reply.receipt, server)
  /\ \A t \in Threads : \A a \in Held : HasReceipt(calls[t]) => Later(calls[t].reply.receipt, a)

(***************************************************************************)
(* The requests of this generation: a join is alone and the page has no    *)
(* state yet.  What an intent is for is the first question its epoch has   *)
(* not settled, or an earlier one.                                         *)
(***************************************************************************)
Within(p, e, n) == p.epoch <= e /\ (p.epoch = e => p.q <= n + 1)
Joining(t) == ~Free(t) /\ calls[t].alive /\ calls[t].on = "join"
Welcome(t) == Joining(t) /\ calls[t].reply.ok

CallsOK ==
  /\ m.appliedSequence = 0 /\ m.requestSequence \in Nat
  /\ DOMAIN calls = Threads
  /\ \A t \in Threads : Free(t) \/ IsCall(calls[t])
  /\ \A t, u \in Threads : Joining(t) /\ Joining(u) => t = u
  /\ \A t \in Threads : ~Free(t) /\ calls[t].alive => (calls[t].on = "join" <=> m.state = None)
  /\ \A t \in Threads : ~Free(t) /\ calls[t].on = "answer" =>
       Within(calls[t].key, server.epoch, Len(server.receipts))

SavedOK ==
  m.saved # None =>
    /\ Within(m.saved, server.epoch, Len(server.receipts))
    /\ \A t \in Threads : Welcome(t) =>
         Within(m.saved, calls[t].reply.state.epoch, Len(calls[t].reply.state.receipts))

Base == /\ IsServer(server) /\ Running(m) /\ Page(m) /\ CallsOK /\ CopiesOK /\ SavedOK

(***************************************************************************)
(* The identifiers of the intents, and what is refused.                    *)
(***************************************************************************)
NamesOK ==
  /\ m.saved # None => m.saved.id <= m.uuids
  /\ \A t \in Threads : ~Free(t) /\ calls[t].on = "answer" =>
       /\ calls[t].id <= m.uuids
       /\ m.saved # None /\ calls[t].id = m.saved.id => calls[t].key = Key(m.saved.epoch, m.saved.q)
       /\ ~calls[t].reply.ok /\ calls[t].reply.code = "refused" /\ calls[t].key.epoch = server.epoch =>
            calls[t].id \in server.refused
  /\ \A i \in DOMAIN server.receipts : server.receipts[i].id # 0 => server.receipts[i].id \notin server.refused

(***************************************************************************)
(* What was dismissed: it is no later than what the server, the page and   *)
(* the answer to a join are at, and the stored intent is for a question    *)
(* answered after it.                                                      *)
(***************************************************************************)
NoLater(d, e, v) == d.epoch <= e /\ (d.epoch = e => d.version <= v)
DismissalOK ==
  /\ NoLater(m.dismissal, server.epoch, server.version)
  /\ m.state # None /\ m.dismissal.epoch = m.state.epoch => m.dismissedVersion = m.dismissal.version
  /\ \A t \in Threads : Welcome(t) =>
       NoLater(m.dismissal, calls[t].reply.state.epoch, calls[t].reply.state.version)

DismissalForward ==
  /\ m.state # None => NoLater(m.dismissal, m.state.epoch, m.privateVersion)
  /\ m.saved # None /\ m.saved.epoch = m.dismissal.epoch =>
       /\ m.saved.epoch = server.epoch /\ m.saved.q \in DOMAIN server.receipts =>
            server.receipts[m.saved.q].version > m.dismissal.version
       /\ \A t \in Threads :
            Welcome(t) /\ calls[t].reply.state.epoch = m.saved.epoch
              /\ m.saved.q \in DOMAIN calls[t].reply.state.receipts =>
            calls[t].reply.state.receipts[m.saved.q] > m.dismissal.version
  /\ m.feedback # None /\ m.dismissal.epoch = m.feedback.epoch => m.feedback.version > m.dismissal.version

(***************************************************************************)
(* An answer of this tab that the server could still accept is the stored  *)
(* intent; one it has accepted is known to the page, or still to be found. *)
(***************************************************************************)
Open(t) ==
  /\ Waiting(t) /\ calls[t].on = "answer" /\ calls[t].key.epoch = server.epoch
  /\ calls[t].key.q > Len(server.receipts) /\ calls[t].id \notin server.refused

Stored(e, q, id) == m.saved # None /\ m.saved.epoch = e /\ m.saved.q = q /\ m.saved.id = id

Settled(i) ==
  /\ m.state # None =>
       /\ m.state.epoch = server.epoch
       /\ \/ i <= Len(m.state.receipts)
          \/ Stored(server.epoch, i, server.receipts[i].id)
          \/ m.feedback # None /\ m.feedback.q = i
  /\ \A t \in Threads : Welcome(t) =>
       /\ calls[t].reply.state.epoch = server.epoch
       /\ i <= Len(calls[t].reply.state.receipts) \/ Stored(server.epoch, i, server.receipts[i].id)

OwnForward ==
  /\ \A t \in Threads : Open(t) => Stored(calls[t].key.epoch, calls[t].key.q, calls[t].id)
  /\ \A i \in DOMAIN server.receipts : server.receipts[i].id # 0 => Settled(i)

Forward == DismissalForward /\ OwnForward
AfterReset == rolledBack => server.epoch > 1
QuizMachineOK == Base /\ NamesOK /\ DismissalOK /\ AfterReset /\ (~rolledBack => Forward)

\* The same request, at most dead by now; its number is no concern of the invariant.
Alike(c, d) ==
  \/ c = NoCall /\ d = NoCall
  \/ /\ c # NoCall /\ d # NoCall /\ IsCall(d)
     /\ d.on = c.on /\ d.key = c.key /\ d.id = c.id /\ d.reply = c.reply /\ (d.alive => c.alive)

(***************************************************************************)
(* What a run of the machine does that concerns none of the above.         *)
(***************************************************************************)
Same(x, y) ==
  /\ x.state = None <=> y.state = None
  /\ y.state # None =>
       IsState(y.state) /\ y.state.epoch = x.state.epoch /\ y.state.receipts = x.state.receipts
  /\ y.pending = x.pending /\ y.saved = x.saved /\ y.feedback = x.feedback
  /\ y.dismissal = x.dismissal /\ y.dismissedVersion = x.dismissedVersion
  /\ y.privateVersion = x.privateVersion /\ y.uuids = x.uuids

Keeps(x, y) == Running(y) /\ Same(x, y) /\ y.selected = x.selected

\* The request a run of the machine stops at, if any.
Fresh(x, c) ==
  \/ c = NoCall
  \/ /\ c # NoCall /\ IsCall(c) /\ c.reply = NoReply /\ ~c.reply.ok /\ c.on # "join"
     /\ c.on = "answer" =>
          x.pending # None /\ c.key = Key(x.pending.epoch, x.pending.q) /\ c.id = x.pending.id

LEMMA NoneIs ==
  /\ None.epoch = 0 /\ NoSocket = None /\ NoReply.ok = FALSE /\ NoCall.on = "none"
  /\ \A s : IsState(s) => s # None
  /\ \A k : IsKey(k) => k # None
  /\ \A e, q : Key(e, q).epoch = e /\ Key(e, q).q = q
  BY DEF None, NoSocket, NoReply, NoCall, IsState, IsKey, Key

LEMMA QuestionsIs == Questions \in Nat \ {0}
  BY QuizMachineAssumption

LEMMA LenIs == ASSUME NEW s, IsState(s) PROVE Len(s.receipts) \in 0..Questions /\ DOMAIN s.receipts = 1..Len(s.receipts)
  BY QuestionsIs DEF IsState

LEMMA SamePage == ASSUME NEW x, NEW y, Page(x), Same(x, y), y.selected = x.selected PROVE Page(y)
  BY DEF Page, Typed, Shown, Same

LEMMA KeepsPage == ASSUME NEW x, NEW y, Page(x), Keeps(x, y) PROVE Page(y)
  BY SamePage DEF Keeps

LEMMA SameTwice == ASSUME NEW x, NEW y, NEW z, Same(x, y), Same(y, z) PROVE Same(x, z)
  BY DEF Same

LEMMA KeepsTwice == ASSUME NEW x, NEW y, NEW z, Keeps(x, y), Keeps(y, z) PROVE Keeps(x, z)
  BY SameTwice DEF Keeps

LEMMA SameSelf == ASSUME NEW x, Page(x) PROVE Same(x, x)
  BY DEF Same, Page, Typed, Shown

LEMMA FailIs == ASSUME NEW x, NEW code, Running(x), Page(x) PROVE Keeps(x, Fail(x, code))
  BY SameSelf DEF Running, Page, Typed, Shown, Keeps, Same, Fail, Fields, IsSocket

LEMMA ConnectIs == ASSUME NEW x, Running(x), Page(x), x.state # None PROVE Keeps(x, Connect(x))
<1>1. IsSocket(Opening)
  BY DEF IsSocket, Opening
<1>2. QED
  BY <1>1, SameSelf DEF Running, Page, Typed, Shown, Keeps, Same, Connect, Fields

LEMMA FinishedIs ==
  ASSUME NEW x, NEW then, Running(x), Page(x), x.state # None PROVE Keeps(x, Finished(x, then))
<1> DEFINE y == [x EXCEPT !.sending = IF \E i \in DOMAIN then : then[i] = Sent(@) THEN 0 ELSE @,
                          !.busy = @ /\ ~Occurs(then, "joined"),
                          !.publicSync = @ /\ ~Occurs(then, "public"),
                          !.resolving = @ /\ ~Occurs(then, "retried")]
<1>1. Keeps(x, y)
  BY DEF Running, Page, Typed, Shown, Keeps, Same, Fields
<1>2. Finished(x, then) = y \/ Finished(x, then) = Connect(y)
  BY DEF Finished
<1> HIDE DEF y
<1>3. Keeps(y, Connect(y))
  BY <1>1, KeepsPage, ConnectIs DEF Keeps, Same
<1>4. QED
  BY <1>1, <1>2, <1>3, KeepsTwice

LEMMA CallIsFresh ==
  ASSUME NEW x, NEW on \in {"state", "resync", "answer", "start"}, NEW key, NEW id, NEW sequence, NEW then,
         on = "state" => key = None,
         on \in {"answer", "start", "resync"} => IsKey(key),
         on = "answer" => /\ x.pending # None /\ IsIntent(x.pending)
                          /\ key = Key(x.pending.epoch, x.pending.q) /\ id = x.pending.id
  PROVE  Fresh(x, Call(on, key, id, sequence, then))
<1> DEFINE c == Call(on, key, id, sequence, then)
<1>1. /\ DOMAIN c = {"on", "key", "id", "sequence", "then", "reply", "alive"}
      /\ c.on = on /\ c.key = key /\ c.id = id /\ c.reply = NoReply /\ c.reply.ok = FALSE /\ c.alive = TRUE
  BY DEF Call, NoReply
<1> HIDE DEF c
<1>2. c # NoCall
  BY <1>1, NoneIs
<1>3. IsCall(c)
  BY <1>1 DEF IsCall, HasState, HasReceipt, IsIntent
<1>4. QED
  BY <1>1, <1>2, <1>3 DEF Fresh, c

LEMMA FreshSame == ASSUME NEW x, NEW y, NEW c, Fresh(x, c), y.pending = x.pending PROVE Fresh(y, c)
  BY DEF Fresh

\* A run that keeps what is shown, and the request it stops at.
Run(x, r) == Keeps(x, r.machine) /\ Fresh(x, r.call)

LEMMA RunsIs == ASSUME NEW x, NEW c PROVE Runs(x, c).machine = x /\ Runs(x, c).call = c
  BY DEF Runs

LEMMA ResumeIs ==
  ASSUME NEW x, NEW then, Running(x), Page(x), x.state # None PROVE Run(x, Resume(x, then))
<1> DEFINE starts == {i \in DOMAIN then : then[i].at = "startQuestion"}
           first == CHOOSE i \in starts : \A j \in starts : i <= j
           key == Key(x.state.epoch, CurrentQuestion(x.state))
           before == SubSeq(then, 1, first - 1)
           after == SubSeq(then, first + 1, Len(then))
<1>1. CASE starts # {} /\ WantsClock(x)
  <2>1. Resume(x, then) = Runs([Finished(x, before) EXCEPT !.starting = key], Call("start", key, 0, 0, after))
    BY <1>1 DEF Resume
  <2>2. Keeps(x, Finished(x, before))
    BY FinishedIs
  <2>3. IsKey(key)
    <3>1. CurrentQuestion(x.state) # 0
      BY <1>1 DEF WantsClock
    <3>2. Len(x.state.receipts) \in Nat /\ IsState(x.state)
      BY LenIs, QuestionsIs DEF Page, Typed, Shown
    <3>3. CurrentQuestion(x.state) \in 1..Questions
      BY <3>1, <3>2, QuestionsIs DEF CurrentQuestion
    <3>4. QED
      BY <3>2, <3>3 DEF IsKey, IsState, Key
  <2>4. Fresh(x, Call("start", key, 0, 0, after))
    BY <2>3, CallIsFresh
  <2>5. Keeps(x, [Finished(x, before) EXCEPT !.starting = key])
    <3> DEFINE f == Finished(x, before)
    <3> HIDE DEF f, key
    <3>1. Keeps(x, f)
      BY <2>2 DEF f
    <3>2. Keeps(x, [f EXCEPT !.starting = key])
      BY <3>1 DEF Keeps, Running, Same, Fields
    <3>3. QED
      BY <3>2 DEF f
  <2>6. QED
    BY <2>1, <2>4, <2>5, RunsIs DEF Run
<1>2. CASE ~(starts # {} /\ WantsClock(x))
  <2>1. Resume(x, then) = Runs(Finished(x, then), NoCall)
    BY <1>2 DEF Resume
  <2>2. QED
    BY <2>1, FinishedIs, RunsIs DEF Run, Fresh
<1>3. QED
  BY <1>1, <1>2

LEMMA SynchronizeIs == ASSUME NEW x, NEW then, Running(x), Page(x) PROVE Run(x, Synchronize(x, then))
<1>1. Fresh(x, Call("state", None, 0, x.requestSequence + 1, then))
  BY CallIsFresh
<1>2. Keeps(x, [x EXCEPT !.requestSequence = @ + 1])
  BY SameSelf DEF Keeps, Running, Page, Typed, Shown, Same, Fields
<1>3. QED
  BY <1>1, <1>2, RunsIs DEF Synchronize, Run

LEMMA SendPendingIs ==
  ASSUME NEW x, NEW then, Running(x), Page(x), x.state # None PROVE Run(x, SendPending(x, then))
<1>1. CASE CanSend(x)
  <2> DEFINE key == Key(x.pending.epoch, x.pending.q)
  <2>1. x.pending # None /\ IsIntent(x.pending) /\ IsKey(key)
    BY <1>1 DEF CanSend, Page, Typed, Shown, IsIntent, IsKey, Key
  <2>2. Fresh(x, Call("answer", key, x.pending.id, 0, <<Sent(x.pending.id)>> \o then))
    BY <2>1, CallIsFresh
  <2>3. Keeps(x, [x EXCEPT !.sending = x.pending.id, !.submission = "checking"])
    BY SameSelf DEF Keeps, Running, Page, Typed, Shown, Same, Fields
  <2>4. QED
    BY <1>1, <2>2, <2>3, RunsIs DEF SendPending, Run
<1>2. CASE ~CanSend(x)
  BY <1>2, ResumeIs DEF SendPending
<1>3. QED
  BY <1>1, <1>2

\* A run that starts from what keeps x keeps x.
LEMMA RunAfter == ASSUME NEW x, NEW y, NEW r, Keeps(x, y), Run(y, r) PROVE Run(x, r)
  BY KeepsTwice, FreshSame DEF Run, Keeps, Same

(***************************************************************************)
(* The private methods that change what is shown.                          *)
(***************************************************************************)
Set(x, y, pending, saved, feedback, selected) ==
  /\ Running(y) /\ y.state = x.state /\ y.dismissal = x.dismissal /\ y.dismissedVersion = x.dismissedVersion
  /\ y.privateVersion = x.privateVersion /\ y.uuids = x.uuids
  /\ y.pending = pending /\ y.saved = saved /\ y.feedback = feedback /\ y.selected = selected

LEMMA ClearIs ==
  ASSUME NEW x, Running(x) PROVE Set(x, ClearPending(x), None, None, x.feedback, x.selected)
  BY DEF Running, Set, ClearPending, Fields

LEMMA ShowIs ==
  ASSUME NEW x, NEW q, Running(x)
  PROVE  Set(x, ShowFeedback(x, q), x.pending, x.saved, ReceiptOf(x.state, q), Key(x.state.epoch, q))
  BY DEF Running, Set, ShowFeedback, Fields, ReceiptOf

LEMMA AcceptIs ==
  ASSUME NEW x, NEW r, Running(x), x.pending # None, r.epoch = x.state.epoch, r.q = x.pending.q
  PROVE  Set(x, Accept(x, r), None, None, r, Key(r.epoch, r.q))
<1> DEFINE y == [x EXCEPT !.feedback = r, !.selected = Key(r.epoch, r.q), !.submission = "idle"]
<1>1. Accept(x, r) = ClearPending(y)
  BY DEF Accept
<1>2. Set(x, y, x.pending, x.saved, r, Key(r.epoch, r.q))
  BY DEF Running, Set, Fields
<1> HIDE DEF y
<1>3. Set(y, ClearPending(y), None, None, y.feedback, y.selected)
  BY <1>2, ClearIs DEF Set
<1>4. QED
  BY <1>1, <1>2, <1>3 DEF Set

LEMMA ReceiptOfIs ==
  ASSUME NEW s, IsState(s), NEW q \in 1..Len(s.receipts)
  PROVE  /\ IsReceipt(ReceiptOf(s, q)) /\ ReceiptOf(s, q) # None
         /\ ReceiptOf(s, q).epoch = s.epoch /\ ReceiptOf(s, q).q = q
         /\ ReceiptOf(s, q).version = s.receipts[q]
<1>1. s.receipts[q] \in Nat /\ q \in 1..Questions /\ s.epoch \in Nat \ {0}
  BY LenIs, QuestionsIs DEF IsState
<1>2. QED
  BY <1>1, NoneIs DEF ReceiptOf, IsReceipt, IsKey

\* The end of applyPrivate: the latest receipt is shown unless it was dismissed.
Latest(x, previousQuestion) ==
  LET latest == Len(x.state.receipts)
  IN IF x.feedback # None \/ x.pending # None THEN x
     ELSE IF latest > 0 /\ x.state.receipts[latest] > x.dismissedVersion THEN ShowFeedback(x, latest)
     ELSE IF previousQuestion # Question(x) THEN [x EXCEPT !.selected = None]
     ELSE x

LEMMA LatestIs ==
  ASSUME NEW x, NEW p, NEW y, NEW n, Running(x), IsState(x.state), y = Latest(x, p), n = Len(x.state.receipts)
  PROVE  /\ Set(x, y, x.pending, x.saved, y.feedback, y.selected)
         /\ \/ (x.feedback # None \/ x.pending # None) /\ y.feedback = x.feedback /\ y.selected = x.selected
            \/ /\ x.feedback = None /\ x.pending = None
               /\ n > 0 /\ x.state.receipts[n] > x.dismissedVersion
               /\ y.feedback = ReceiptOf(x.state, n) /\ y.selected = Key(x.state.epoch, n)
            \/ /\ x.feedback = None /\ x.pending = None
               /\ y.feedback = None
               /\ y.selected = None \/ (y.selected = x.selected /\ p = Question(x))
<1>1. CASE x.feedback # None \/ x.pending # None
  <2>1. Latest(x, p) = x
    BY <1>1 DEF Latest
  <2>2. QED
    BY <1>1, <2>1 DEF Set
<1>2. CASE /\ x.feedback = None /\ x.pending = None
           /\ n > 0 /\ x.state.receipts[n] > x.dismissedVersion
  <2>1. Latest(x, p) = ShowFeedback(x, n)
    BY <1>2 DEF Latest
  <2>2. Set(x, ShowFeedback(x, n), x.pending, x.saved, ReceiptOf(x.state, n), Key(x.state.epoch, n))
    BY ShowIs
  <2>3. QED
    BY <1>2, <2>1, <2>2 DEF Set
<1>3. CASE /\ x.feedback = None /\ x.pending = None
           /\ ~(n > 0 /\ x.state.receipts[n] > x.dismissedVersion)
           /\ p # Question(x)
  <2>1. Latest(x, p) = [x EXCEPT !.selected = None]
    BY <1>3 DEF Latest
  <2>2. Set(x, [x EXCEPT !.selected = None], x.pending, x.saved, x.feedback, None)
    BY DEF Running, Set, Fields
  <2>3. QED
    BY <1>3, <2>1, <2>2 DEF Set
<1>4. CASE /\ x.feedback = None /\ x.pending = None
           /\ ~(n > 0 /\ x.state.receipts[n] > x.dismissedVersion)
           /\ p = Question(x)
  <2>1. Latest(x, p) = x
    BY <1>4 DEF Latest
  <2>2. QED
    BY <1>4, <2>1 DEF Set
<1>5. QED
  BY <1>1, <1>2, <1>3, <1>4

\* The first steps of Adopt.
Dropped(x) == IF x.pending # None /\ x.pending.epoch # x.state.epoch THEN ClearPending(x) ELSE x
Renewed(x) == [x EXCEPT !.feedback = None, !.selected = None, !.dismissedVersion = ReadDismissed(x, x.state.epoch)]
Resolved(x) ==
  IF x.pending # None /\ x.pending.q \in DOMAIN x.state.receipts
  THEN Accept(x, ReceiptOf(x.state, x.pending.q)) ELSE x

LEMMA AdoptIs ==
  ASSUME NEW x, NEW p
  PROVE  /\ Adopt(x, p, TRUE) = Latest(Resolved(Renewed(Dropped(x))), p)
         /\ Adopt(x, p, FALSE) = Latest(Resolved(Dropped(x)), p)
<1>1. Adopt(x, p, TRUE) = Latest(Resolved(Renewed(Dropped(x))), p)
  BY SMTT(30) DEF Adopt, Latest, Resolved, Renewed, Dropped
<1>2. Adopt(x, p, FALSE) = Latest(Resolved(Dropped(x)), p)
  BY Zenon DEF Adopt, Latest, Resolved, Dropped
<1>3. QED
  BY <1>1, <1>2

\* A receipt that is shown because it was not dismissed yet.
Unseen(y, st) ==
  /\ y.feedback # None /\ y.feedback.epoch = st.epoch
  /\ y.feedback.version > y.dismissedVersion /\ y.feedback.q = Len(st.receipts)

\* applyPrivate of a state that is not late.
Adopts(y, st) ==
  /\ Running(y) /\ Typed(y) /\ Shown(y)
  /\ y.state # None /\ y.state.epoch = st.epoch /\ y.state.receipts = st.receipts
  /\ y.privateVersion = st.version

AdoptsSame(x, y, st) ==
  /\ Adopts(y, st) /\ y.dismissal = x.dismissal /\ y.uuids = x.uuids
  /\ x.state # None /\ x.state.epoch = st.epoch
  /\ x.privateVersion <= st.version /\ Len(x.state.receipts) <= Len(st.receipts)
  /\ y.dismissedVersion = x.dismissedVersion
  /\ \/ /\ y.pending = x.pending /\ y.saved = x.saved
        /\ y.feedback = x.feedback \/ (x.feedback = None /\ Unseen(y, st))
     \/ /\ x.pending # None /\ x.pending.q = Len(x.state.receipts) + 1 /\ x.pending.q <= Len(st.receipts)
        /\ y.pending = None /\ y.saved = None
        /\ y.feedback # None /\ y.feedback.epoch = st.epoch /\ y.feedback.q = x.pending.q
        /\ y.feedback.version = st.receipts[x.pending.q]

AdoptsNew(x, y, st) ==
  /\ Adopts(y, st) /\ y.dismissal = x.dismissal /\ y.uuids = x.uuids
  /\ x.state = None \/ x.state.epoch # st.epoch
  /\ y.pending = None /\ y.saved = (IF x.pending = None THEN x.saved ELSE None)
  /\ y.dismissedVersion = ReadDismissed(x, st.epoch)
  /\ y.feedback = None \/ Unseen(y, st)

\* What Adopt works on: the state is in, and nothing else has changed.
Taken(x, z, st) ==
  /\ Running(z) /\ IsState(z.state) /\ z.state.epoch = st.epoch /\ z.state.receipts = st.receipts
  /\ z.privateVersion = st.version
  /\ z.pending = x.pending /\ z.saved = x.saved /\ z.feedback = x.feedback /\ z.selected = x.selected
  /\ z.dismissal = x.dismissal /\ z.dismissedVersion = x.dismissedVersion /\ z.uuids = x.uuids

LEMMA TakenIs ==
  ASSUME NEW x, NEW st, NEW n, NEW s, Running(x), IsState(st),
         s = st \/ (IsState(x.state) /\ s = [st EXCEPT !.version = x.state.version, !.shown = x.state.shown])
  PROVE  Taken(x, [x EXCEPT !.appliedSequence = n, !.privateVersion = st.version, !.state = s], st)
<1>1. IsState(s) /\ s.epoch = st.epoch /\ s.receipts = st.receipts
  BY DEF IsState
<1>2. s # None
  BY <1>1, NoneIs
<1> DEFINE z == [x EXCEPT !.appliedSequence = n, !.privateVersion = st.version, !.state = s]
<1>3. /\ DOMAIN z = Fields /\ z.state = s /\ z.privateVersion = st.version
      /\ z.connection = x.connection /\ z.submission = x.submission /\ z.ws = x.ws
      /\ z.pending = x.pending /\ z.saved = x.saved /\ z.feedback = x.feedback /\ z.selected = x.selected
      /\ z.dismissal = x.dismissal /\ z.dismissedVersion = x.dismissedVersion /\ z.uuids = x.uuids
  BY DEF Running, Fields
<1> HIDE DEF z
<1>4. Running(z)
  BY <1>2, <1>3 DEF Running
<1>5. Taken(x, z, st)
  BY <1>1, <1>3, <1>4 DEF Taken
<1>6. QED
  BY <1>5 DEF z

\* A state of the epoch the page is in.
LEMMA AdoptSameEpoch ==
  ASSUME NEW x, NEW z, NEW st, Running(x), Page(x), x.state # None, IsState(st), Taken(x, z, st),
         x.state.epoch = st.epoch, x.privateVersion <= st.version, Agree(Mine(x), st)
  PROVE  AdoptsSame(x, Adopt(z, Question(x), FALSE), st)
<1> DEFINE c == Resolved(z)
           p == Question(x)
           y == Adopt(z, p, FALSE)
           n == Len(st.receipts)
           k == Len(x.state.receipts)
<1>1. IsState(x.state) /\ Typed(x) /\ Shown(x) /\ x.saved = x.pending
  BY DEF Page, Typed, Shown
<1>2. k \in 0..Questions /\ n \in 0..Questions /\ k <= n /\ DOMAIN st.receipts = 1..n
  BY <1>1, LenIs DEF Agree, Mine
<1>3. ~(z.pending # None /\ z.pending.epoch # z.state.epoch)
  BY <1>1 DEF Shown, Taken
<1>4. y = Latest(c, p)
  <2>1. Dropped(z) = z
    BY <1>3 DEF Dropped
  <2>2. QED
    BY <2>1, AdoptIs
<1>5. CASE x.pending # None /\ x.pending.q \in DOMAIN st.receipts
  <2> DEFINE r == ReceiptOf(z.state, z.pending.q)
  <2>1. z.pending = x.pending /\ z.state.receipts = st.receipts /\ IsState(z.state) /\ z.state.epoch = st.epoch
    BY DEF Taken
  <2>2. /\ IsReceipt(r) /\ r # None /\ r.epoch = st.epoch /\ r.q = x.pending.q
        /\ r.version = st.receipts[x.pending.q]
    BY <1>2, <1>5, <2>1, ReceiptOfIs
  <2>3. c = Accept(z, r)
    BY <1>5, <2>1 DEF Resolved
  <2> HIDE DEF r
  <2>4. Set(z, c, None, None, r, Key(r.epoch, r.q))
    BY <1>5, <2>1, <2>2, <2>3, AcceptIs DEF Taken
  <2> HIDE DEF c
  <2>5. y = c
    BY <1>4, <2>2, <2>4 DEF Latest, Set
  <2>6. x.pending.q = k + 1 /\ x.pending.q <= n
    BY <1>1, <1>2, <1>5 DEF Shown
  <2> HIDE DEF y
  <2>7. /\ Running(y) /\ y.state = z.state /\ y.pending = None /\ y.saved = None /\ y.feedback = r
        /\ y.dismissal = x.dismissal /\ y.dismissedVersion = x.dismissedVersion
        /\ y.privateVersion = st.version /\ y.uuids = x.uuids
    BY <2>4, <2>5 DEF Set, Taken
  <2>8. Typed(y) /\ Shown(y)
    <3> HIDE DEF n, k
    <3>1. y.state # None /\ y.feedback # None
      BY <2>1, <2>2, <2>7, NoneIs
    <3>2. Typed(y)
      BY <1>1, <2>1, <2>2, <2>7 DEF Typed, IsState
    <3>3. QED
      BY <2>1, <2>2, <2>7, <3>1, <3>2 DEF Shown
  <2>9. QED
    BY <1>2, <1>5, <2>1, <2>2, <2>6, <2>7, <2>8, NoneIs DEF AdoptsSame, Adopts, y
<1>6. CASE ~(x.pending # None /\ x.pending.q \in DOMAIN st.receipts)
  <2>1. c = z
    BY <1>6 DEF Taken, Resolved
  <2> HIDE DEF c
  <2>2. /\ Running(z) /\ IsState(z.state) /\ Len(z.state.receipts) = n
        /\ z.pending = x.pending /\ z.feedback = x.feedback /\ z.selected = x.selected /\ z.saved = x.saved
        /\ z.state.epoch = st.epoch /\ z.state.receipts = st.receipts
    BY DEF Taken
  <2>3. /\ Set(z, y, z.pending, z.saved, y.feedback, y.selected)
        /\ \/ (z.feedback # None \/ z.pending # None) /\ y.feedback = z.feedback /\ y.selected = z.selected
           \/ /\ z.feedback = None /\ z.pending = None
              /\ n > 0 /\ z.state.receipts[n] > z.dismissedVersion
              /\ y.feedback = ReceiptOf(z.state, n) /\ y.selected = Key(z.state.epoch, n)
           \/ /\ z.feedback = None /\ z.pending = None
              /\ y.feedback = None
              /\ y.selected = None \/ (y.selected = z.selected /\ p = Question(z))
    <3>1. y = Latest(z, p) /\ n = Len(z.state.receipts) /\ Running(z) /\ IsState(z.state)
      BY <1>4, <2>1, <2>2
    <3> HIDE DEF y, n, p
    <3>2. QED
      BY <3>1, LatestIs
  <2> HIDE DEF y
  <2>4. /\ Running(y) /\ y.state = z.state /\ y.pending = x.pending /\ y.saved = x.saved
        /\ y.dismissal = x.dismissal /\ y.dismissedVersion = x.dismissedVersion
        /\ y.privateVersion = st.version /\ y.uuids = x.uuids
    BY <2>2, <2>3 DEF Set, Taken
  <2>5. y.feedback = x.feedback \/ (x.feedback = None /\ x.pending = None /\ Unseen(y, st) /\ IsReceipt(y.feedback))
    <3>1. n > 0 => LET r == ReceiptOf(z.state, n) IN
                   IsReceipt(r) /\ r # None /\ r.epoch = st.epoch /\ r.q = n /\ r.version = z.state.receipts[n]
      BY <1>2, <2>2, ReceiptOfIs
    <3>2. QED
      BY <2>2, <2>3, <2>4, <3>1 DEF Unseen, Taken
  <2>6. x.pending # None => k = n
    BY <1>1, <1>2, <1>6 DEF Shown
  <2>7. x.pending = None /\ x.feedback = None /\ y.feedback = None => y.selected \in {None, Key(st.epoch, n + 1)}
    <3>1. SUFFICES ASSUME x.pending = None, x.feedback = None, y.feedback = None
                   PROVE  y.selected \in {None, Key(st.epoch, n + 1)}
      OBVIOUS
    <3>2. y.selected = None \/ (y.selected = x.selected /\ p = Question(z))
      <4>1. n > 0 => ReceiptOf(z.state, n) # None
        BY <1>2, <2>2, ReceiptOfIs
      <4>2. QED
        BY <2>2, <2>3, <3>1, <4>1
    <3>3. Question(z) = CurrentQuestion(z.state) /\ p = CurrentQuestion(x.state)
      BY <1>1, <2>2, <3>1, NoneIs DEF Question
    <3>4. x.selected \in {None, Key(st.epoch, k + 1)}
      BY <1>1, <3>1 DEF Shown
    <3>5. CASE y.selected = x.selected /\ p = Question(z)
      <4>1. k = n
        BY <1>2, <2>2, <3>3, <3>5, QuestionsIs DEF CurrentQuestion
      <4>2. QED
        BY <3>4, <3>5, <4>1
    <3>6. QED
      BY <3>2, <3>5
  <2>8. Typed(y)
    BY <1>1, <2>2, <2>4, <2>5 DEF Typed, IsState
  <2>9. Shown(y)
    <3>1. y.state # None
      BY <2>2, <2>4, NoneIs
    <3>2. y.pending # None =>
            /\ y.pending.epoch = y.state.epoch /\ y.pending.q = Len(y.state.receipts) + 1
            /\ y.selected = Key(y.pending.epoch, y.pending.q) /\ y.feedback = None
      BY <1>1, <2>2, <2>3, <2>4, <2>5, <2>6 DEF Shown
    <3>3. y.feedback # None => y.feedback.epoch = y.state.epoch
      BY <1>1, <2>2, <2>4, <2>5 DEF Shown, Unseen
    <3>4. y.pending = None /\ y.feedback = None => y.selected \in {None, Key(y.state.epoch, Len(y.state.receipts) + 1)}
      BY <2>2, <2>4, <2>5, <2>7 DEF Unseen
    <3>5. QED
      BY <3>1, <3>2, <3>3, <3>4 DEF Shown
  <2>10. QED
    BY <1>2, <2>2, <2>4, <2>5, <2>8, <2>9, NoneIs DEF AdoptsSame, Adopts, y
<1>7. QED
  BY <1>5, <1>6

\* A state of another epoch, or the first one.
LEMMA AdoptNewEpoch ==
  ASSUME NEW x, NEW z, NEW st, NEW p, Running(x), Typed(x), Shown(x), IsState(st), Taken(x, z, st),
         x.state = None \/ x.state.epoch # st.epoch
  PROVE  AdoptsNew(x, Adopt(z, p, TRUE), st)
<1> DEFINE a == Dropped(z)
           b == Renewed(a)
           y == Adopt(z, p, TRUE)
           n == Len(st.receipts)
<1>1. /\ Running(a) /\ a.state = z.state /\ a.pending = None
      /\ a.saved = (IF x.pending = None THEN x.saved ELSE None)
      /\ a.dismissal = x.dismissal /\ a.privateVersion = st.version /\ a.uuids = x.uuids
  <2>1. CASE x.pending = None
    BY <2>1 DEF Taken, Dropped
  <2>2. CASE x.pending # None
    <3>1. x.pending.epoch # z.state.epoch
      BY <2>2, NoneIs DEF Shown, Taken
    <3>2. a = ClearPending(z)
      BY <2>2, <3>1 DEF Taken, Dropped
    <3>3. QED
      BY <2>2, <3>2, ClearIs DEF Taken, Set
  <2>3. QED
    BY <2>1, <2>2
<1> HIDE DEF a
<1>2. /\ Running(b) /\ b.state = z.state /\ b.pending = None /\ b.saved = a.saved /\ b.feedback = None
      /\ b.selected = None /\ b.dismissal = x.dismissal /\ b.privateVersion = st.version /\ b.uuids = x.uuids
      /\ b.dismissedVersion = ReadDismissed(x, st.epoch)
  BY <1>1 DEF Running, Fields, ReadDismissed, Taken, Renewed
<1>3. y = Latest(b, p)
  <2>1. Resolved(b) = b
    BY <1>2 DEF Resolved
  <2>2. QED
    BY <2>1, AdoptIs DEF a
<1> HIDE DEF b
<1>4. IsState(z.state) /\ z.state.epoch = st.epoch /\ z.state.receipts = st.receipts
  BY DEF Taken
<1>5. n \in 0..Questions
  BY LenIs
<1>6. /\ Set(b, y, b.pending, b.saved, y.feedback, y.selected)
      /\ \/ (b.feedback # None \/ b.pending # None) /\ y.feedback = b.feedback /\ y.selected = b.selected
         \/ /\ b.feedback = None /\ b.pending = None
            /\ n > 0 /\ b.state.receipts[n] > b.dismissedVersion
            /\ y.feedback = ReceiptOf(b.state, n) /\ y.selected = Key(b.state.epoch, n)
         \/ /\ b.feedback = None /\ b.pending = None
            /\ y.feedback = None
            /\ y.selected = None \/ (y.selected = b.selected /\ p = Question(b))
  <2>1. n = Len(b.state.receipts) /\ Running(b) /\ IsState(b.state)
    BY <1>2, <1>4
  <2> HIDE DEF y, n
  <2>2. QED
    BY <1>3, <2>1, LatestIs
<1> HIDE DEF y
<1>7. /\ Running(y) /\ y.state = z.state /\ y.pending = None /\ y.saved = (IF x.pending = None THEN x.saved ELSE None)
      /\ y.dismissal = x.dismissal /\ y.uuids = x.uuids /\ y.privateVersion = st.version
      /\ y.dismissedVersion = ReadDismissed(x, st.epoch)
  BY <1>1, <1>2, <1>6 DEF Set
<1>8. (y.feedback = None /\ y.selected = None) \/ (Unseen(y, st) /\ IsReceipt(y.feedback))
  <2>1. n > 0 => LET r == ReceiptOf(z.state, n) IN
                 IsReceipt(r) /\ r # None /\ r.epoch = st.epoch /\ r.q = n /\ r.version = z.state.receipts[n]
    BY <1>4, <1>5, ReceiptOfIs
  <2>2. QED
    BY <1>2, <1>4, <1>6, <1>7, <2>1 DEF Unseen, Set
<1>9. Typed(y)
  <2>1. y.dismissedVersion \in Nat
    BY <1>7, NoneIs DEF Typed, ReadDismissed, IsState
  <2>2. QED
    BY <1>4, <1>7, <1>8, <2>1 DEF Typed, IsState
<1>10. Shown(y)
  BY <1>4, <1>7, <1>8, NoneIs DEF Shown, Unseen
<1>11. QED
  BY <1>4, <1>7, <1>8, <1>9, <1>10, NoneIs DEF AdoptsNew, Adopts, y

\* applyPrivate
LEMMA ApplyIs ==
  ASSUME NEW x, NEW st, NEW sequence, Running(x), Typed(x), Shown(x), IsState(st),
         x.state # None => x.saved = x.pending /\ Agree(Mine(x), st)
  PROVE  LET y == ApplyPrivate(x, st, sequence) IN
         \/ y = x /\ (sequence <= x.appliedSequence \/ (x.state # None /\ x.state.epoch = st.epoch))
         \/ AdoptsSame(x, y, st)
         \/ AdoptsNew(x, y, st)
<1> DEFINE same == x.state # None /\ x.state.epoch = st.epoch
           s == IF same /\ x.state.version > st.version
                THEN [st EXCEPT !.version = x.state.version, !.shown = x.state.shown] ELSE st
           z == [x EXCEPT !.appliedSequence = sequence, !.privateVersion = st.version, !.state = s]
           y == ApplyPrivate(x, st, sequence)
<1>1. \/ y = x /\ (sequence <= x.appliedSequence \/ (x.state # None /\ x.state.epoch = st.epoch))
      \/ y = Adopt(z, Question(x), ~same) /\ ~(same /\ st.version < x.privateVersion)
  BY DEF ApplyPrivate
<1>2. s = st \/ (IsState(x.state) /\ s = [st EXCEPT !.version = x.state.version, !.shown = x.state.shown])
  BY DEF Typed
<1>3. Taken(x, z, st)
  <2> HIDE DEF s
  <2>1. QED
    BY <1>2, TakenIs
<1> HIDE DEF z, s, y
<1>4. CASE same /\ y = Adopt(z, Question(x), ~same) /\ ~(st.version < x.privateVersion)
  <2>1. Page(x) /\ x.privateVersion <= st.version /\ ~same = FALSE
    BY <1>4 DEF Page, Typed, IsState
  <2>2. AdoptsSame(x, Adopt(z, Question(x), FALSE), st)
    BY <1>3, <1>4, <2>1, AdoptSameEpoch
  <2>3. QED
    BY <1>4, <2>1, <2>2 DEF y
<1>5. CASE ~same /\ y = Adopt(z, Question(x), ~same)
  <2>1. ~same = TRUE
    BY <1>5
  <2>2. AdoptsNew(x, Adopt(z, Question(x), TRUE), st)
    BY <1>3, <1>5, AdoptNewEpoch
  <2>3. QED
    BY <1>5, <2>1, <2>2 DEF y
<1>6. QED
  BY <1>1, <1>4, <1>5 DEF y

(***************************************************************************)
(* What the machine does when a response has arrived.                      *)
(***************************************************************************)
AppliedTo(x, y, st) == Page(y) /\ (AdoptsSame(x, y, st) \/ AdoptsNew(x, y, st))
Applied(x, r, st) == AppliedTo(x, r.machine, st) /\ Fresh(r.machine, r.call)

LEMMA AppliedAfter ==
  ASSUME NEW x, NEW y, NEW z, NEW st, AppliedTo(x, y, st), Keeps(y, z) PROVE AppliedTo(x, z, st)
<1>1. Page(z)
  BY KeepsPage DEF AppliedTo
<1>2. CASE AdoptsSame(x, y, st)
  <2>1. Adopts(z, st)
    BY <1>1, <1>2 DEF AdoptsSame, Adopts, Keeps, Same, Page
  <2>2. AdoptsSame(x, z, st)
    BY <1>2, <2>1 DEF AdoptsSame, Keeps, Same, Unseen
  <2>3. QED
    BY <1>1, <2>2 DEF AppliedTo
<1>3. CASE AdoptsNew(x, y, st)
  <2>1. Adopts(z, st)
    BY <1>1, <1>3 DEF AdoptsNew, Adopts, Keeps, Same, Page
  <2>2. AdoptsNew(x, z, st)
    BY <1>3, <2>1 DEF AdoptsNew, Keeps, Same, Unseen
  <2>3. QED
    BY <1>1, <2>2 DEF AppliedTo
<1>4. QED
  BY <1>2, <1>3 DEF AppliedTo

LEMMA ApplyThen ==
  ASSUME NEW x, NEW st, NEW sequence, NEW y, y = ApplyPrivate(x, st, sequence),
         Running(x), Page(x), x.state # None, IsState(st), Agree(Mine(x), st)
  PROVE  /\ Running(y) /\ Page(y) /\ y.state # None
         /\ \A r : Run(y, r) => Run(x, r) \/ Applied(x, r, st)
<1>1. x.saved = x.pending /\ Typed(x) /\ Shown(x)
  BY DEF Page
<1>2. \/ y = x
      \/ AdoptsSame(x, y, st) \/ AdoptsNew(x, y, st)
  BY <1>1, ApplyIs
<1>3. CASE y = x
  BY <1>3
<1>4. CASE AdoptsSame(x, y, st) \/ AdoptsNew(x, y, st)
  <2>1. Running(y) /\ Page(y) /\ y.state # None
    BY <1>1, <1>4 DEF AdoptsSame, AdoptsNew, Adopts, Page
  <2>2. ASSUME NEW r, Run(y, r) PROVE Applied(x, r, st)
    <3>1. Keeps(y, r.machine) /\ Fresh(r.machine, r.call)
      BY <2>2, FreshSame DEF Run, Keeps, Same
    <3>2. AppliedTo(x, y, st)
      BY <1>4, <2>1 DEF AppliedTo
    <3>3. QED
      BY <3>1, <3>2, AppliedAfter DEF Applied
  <2>3. QED
    BY <2>1, <2>2
<1>5. QED
  BY <1>2, <1>3, <1>4

\* A pending question has no receipt in the state it belongs to: it is sent again.
LEMMA ResolveIs ==
  ASSUME NEW x, NEW then, Running(x), Page(x), x.state # None PROVE Run(x, ResolvePending(x, then))
<1>1. ~(x.pending # None /\ x.pending.q \in DOMAIN x.state.receipts)
  <2>1. IsState(x.state)
    BY DEF Page, Typed
  <2>2. Len(x.state.receipts) \in Nat /\ DOMAIN x.state.receipts = 1..Len(x.state.receipts)
    BY <2>1, LenIs, QuestionsIs
  <2>3. QED
    BY <2>2 DEF Page, Shown
<1>2. ResolvePending(x, then) = SendPending(x, then)
  BY <1>1 DEF ResolvePending
<1>3. QED
  BY <1>2, SendPendingIs

LEMMA AfterStateIs ==
  ASSUME NEW x, NEW c, Running(x), Page(x), x.state # None, IsCall(c),
         c.reply.ok => IsState(c.reply.state) /\ Agree(Mine(x), c.reply.state)
  PROVE  Run(x, AfterState(x, c)) \/ (c.reply.ok /\ Applied(x, AfterState(x, c), c.reply.state))
<1>1. CASE c.reply.ok
  <2> DEFINE y == ApplyPrivate(x, c.reply.state, c.sequence)
             then == <<At("startQuestion")>> \o c.then
  <2>1. AfterState(x, c) = ResolvePending(y, then)
    BY <1>1 DEF AfterState
  <2> HIDE DEF then
  <2>2. /\ Running(y) /\ Page(y) /\ y.state # None
        /\ \A r : Run(y, r) => Run(x, r) \/ Applied(x, r, c.reply.state)
    BY <1>1, ApplyThen
  <2> HIDE DEF y
  <2>3. Run(y, ResolvePending(y, then))
    BY <2>2, ResolveIs
  <2>4. QED
    BY <1>1, <2>1, <2>2, <2>3
<1>2. CASE ~c.reply.ok
  <2>1. Keeps(x, Fail(x, c.reply.code)) /\ Page(Fail(x, c.reply.code))
    BY FailIs, KeepsPage
  <2>2. Run(Fail(x, c.reply.code), Resume(Fail(x, c.reply.code), c.then))
    BY <2>1, ResumeIs DEF Keeps, Same
  <2>3. QED
    BY <1>2, <2>1, <2>2, RunAfter DEF AfterState
<1>3. QED
  BY <1>1, <1>2

LEMMA StartedIs == ASSUME NEW x, NEW key, Running(x), Page(x) PROVE Keeps(x, Started(x, key))
  BY SameSelf DEF Keeps, Running, Page, Typed, Shown, Same, Fields, Started

LEMMA DrawnIs ==
  ASSUME NEW x, Running(x), Page(x)
  PROVE  LET y == [x EXCEPT !.requestSequence = @ + 1] IN
         Keeps(x, y) /\ y.appliedSequence = x.appliedSequence
  BY SameSelf DEF Keeps, Running, Page, Typed, Shown, Same, Fields

LEMMA StartedThen ==
  ASSUME NEW x, NEW key, NEW then, Running(x), Page(x), x.state # None
  PROVE  Run(x, Resume(Started(x, key), then))
<1>1. Keeps(x, Started(x, key)) /\ Page(Started(x, key))
  BY StartedIs, KeepsPage
<1>2. Run(Started(x, key), Resume(Started(x, key), then))
  BY <1>1, ResumeIs DEF Keeps, Same
<1>3. QED
  BY <1>1, <1>2, RunAfter

LEMMA AppliedBefore ==
  ASSUME NEW x, NEW y, NEW r, NEW st, Keeps(x, y), Applied(y, r, st), Page(x) PROVE Applied(x, r, st)
<1>1. CASE AdoptsSame(y, r.machine, st)
  <2>1. AdoptsSame(x, r.machine, st)
    BY <1>1 DEF AdoptsSame, Keeps, Same
  <2>2. QED
    BY <2>1 DEF Applied, AppliedTo
<1>2. CASE AdoptsNew(y, r.machine, st)
  <2>1. AdoptsNew(x, r.machine, st)
    BY <1>2 DEF AdoptsNew, Keeps, Same, ReadDismissed
  <2>2. QED
    BY <2>1 DEF Applied, AppliedTo
<1>3. QED
  BY <1>1, <1>2 DEF Applied, AppliedTo

LEMMA AfterResyncIs ==
  ASSUME NEW x, NEW c, Running(x), Page(x), x.state # None, IsCall(c),
         c.reply.ok => IsState(c.reply.state) /\ Agree(Mine(x), c.reply.state)
  PROVE  Run(x, AfterResync(x, c)) \/ (c.reply.ok /\ Applied(x, AfterResync(x, c), c.reply.state))
<1>1. CASE c.reply.ok
  <2> DEFINE z == [x EXCEPT !.requestSequence = @ + 1]
             n == x.requestSequence + 1
             y == ApplyPrivate(z, c.reply.state, n)
             r == Resume(Started(y, c.key), c.then)
  <2>1. AfterResync(x, c) = r
    BY <1>1 DEF AfterResync
  <2>2. Keeps(x, z)
    BY DrawnIs
  <2> HIDE DEF z, n
  <2>3. Running(z) /\ Page(z) /\ z.state # None /\ Agree(Mine(z), c.reply.state) /\ IsState(c.reply.state)
    BY <1>1, <2>2, KeepsPage DEF Keeps, Same, Agree, Mine
  <2>4. /\ Running(y) /\ Page(y) /\ y.state # None
        /\ \A s : Run(y, s) => Run(z, s) \/ Applied(z, s, c.reply.state)
    BY <2>3, ApplyThen
  <2> HIDE DEF y
  <2>5. Run(y, r)
    BY <2>4, StartedThen
  <2> HIDE DEF r
  <2>6. Run(z, r) \/ Applied(z, r, c.reply.state)
    BY <2>4, <2>5
  <2>7. QED
    BY <1>1, <2>1, <2>2, <2>6, RunAfter, AppliedBefore
<1>2. CASE ~c.reply.ok
  <2>1. Keeps(x, Fail(x, c.reply.code)) /\ Page(Fail(x, c.reply.code))
    BY FailIs, KeepsPage
  <2>2. Run(Fail(x, c.reply.code), Resume(Started(Fail(x, c.reply.code), c.key), c.then))
    BY <2>1, StartedThen DEF Keeps, Same
  <2>3. QED
    BY <1>2, <2>1, <2>2, RunAfter DEF AfterResync
<1>3. QED
  BY <1>1, <1>2

LEMMA AfterStartIs ==
  ASSUME NEW x, NEW c, Running(x), Page(x), x.state # None, IsCall(c), c.on = "start"
  PROVE  Run(x, AfterStart(x, c))
<1> DEFINE y == [x EXCEPT !.clockMessage = TRUE]
           z == [x EXCEPT !.clock = c.key, !.clockMessage = FALSE]
<1>1. /\ Keeps(x, y) /\ Page(y) /\ Running(y) /\ y.state # None
      /\ Keeps(x, z) /\ Page(z) /\ Running(z) /\ z.state # None
  <2>1. Keeps(x, y) /\ Keeps(x, z)
    BY SameSelf DEF Keeps, Running, Page, Typed, Shown, Same, Fields
  <2>2. QED
    BY <2>1, KeepsPage DEF Keeps, Same
<1>2. \/ AfterStart(x, c) = Resume(Started(x, c.key), c.then)
      \/ AfterStart(x, c) = Resume(Started(z, c.key), c.then)
      \/ AfterStart(x, c) = Runs(y, Call("resync", c.key, 0, 0, c.then))
      \/ AfterStart(x, c) = Resume(Started(Fail(y, c.reply.code), c.key), c.then)
  BY Zenon DEF AfterStart
<1> HIDE DEF y, z
<1>3. Run(x, Resume(Started(x, c.key), c.then))
  BY StartedThen
<1>4. Run(x, Resume(Started(z, c.key), c.then))
  BY <1>1, StartedThen, RunAfter
<1>5. Run(x, Runs(y, Call("resync", c.key, 0, 0, c.then)))
  <2>1. IsKey(c.key)
    BY DEF IsCall
  <2>2. Fresh(y, Call("resync", c.key, 0, 0, c.then)) /\ Fresh(x, Call("resync", c.key, 0, 0, c.then))
    BY <2>1, CallIsFresh
  <2>3. QED
    BY <1>1, <2>2, RunsIs DEF Run
<1>6. Run(x, Resume(Started(Fail(y, c.reply.code), c.key), c.then))
  <2> DEFINE f == Fail(y, c.reply.code)
  <2>1. Keeps(y, f) /\ Page(f) /\ Running(f) /\ f.state # None
    BY <1>1, FailIs, KeepsPage DEF Keeps, Same
  <2> HIDE DEF f
  <2>2. Run(f, Resume(Started(f, c.key), c.then)) /\ Keeps(x, f)
    BY <1>1, <2>1, StartedThen, KeepsTwice
  <2>3. Run(x, Resume(Started(f, c.key), c.then))
    BY <2>2, RunAfter
  <2>4. QED
    BY <2>3 DEF f
<1>7. QED
  BY <1>2, <1>3, <1>4, <1>5, <1>6

LEMMA AfterDeathIs == ASSUME NEW x, NEW c, Running(x), Page(x) PROVE Run(x, AfterDeath(x, c))
<1>1. Keeps(x, [x EXCEPT !.resolving = FALSE]) /\ Keeps(x, x)
  BY SameSelf DEF Keeps, Running, Page, Typed, Shown, Same, Fields
<1>2. QED
  BY <1>1, RunsIs DEF Run, Fresh, AfterDeath

\* The page as it was, but for what it shows of the question in hand.
Core(x, y) ==
  /\ Running(y) /\ Page(y) /\ x.state # None /\ y.state # None
  /\ y.state.epoch = x.state.epoch /\ y.state.receipts = x.state.receipts
  /\ y.privateVersion = x.privateVersion

Accepted(x, y, receipt) ==
  /\ Core(x, y) /\ y.dismissal = x.dismissal /\ y.dismissedVersion = x.dismissedVersion /\ y.uuids = x.uuids
  /\ x.pending # None /\ receipt.epoch = x.state.epoch /\ receipt.q = x.pending.q
  /\ y.pending = None /\ y.feedback = receipt

GivenUp(x, y, id) ==
  /\ Core(x, y) /\ y.dismissal = x.dismissal /\ y.dismissedVersion = x.dismissedVersion /\ y.uuids = x.uuids
  /\ x.pending # None /\ x.pending.id = id
  /\ y.pending = None /\ y.feedback = x.feedback

LEMMA AcceptedIs ==
  ASSUME NEW x, NEW r, Running(x), Page(x), x.state # None, x.pending # None, IsReceipt(r),
         r.epoch = x.state.epoch, r.q = x.pending.q
  PROVE  Accepted(x, Accept(x, r), r)
<1> DEFINE y == Accept(x, r)
<1>1. Set(x, y, None, None, r, Key(r.epoch, r.q))
  BY AcceptIs
<1> HIDE DEF y
<1>2. r # None
  BY NoneIs DEF IsReceipt
<1>3. Typed(y)
  BY <1>1 DEF Set, Page, Typed
<1>4. Page(y)
  BY <1>1, <1>2, <1>3 DEF Set, Page, Shown
<1>5. Accepted(x, y, r)
  BY <1>1, <1>4 DEF Accepted, Core, Set
<1>6. QED
  BY <1>5 DEF y

LEMMA AcceptedAfter ==
  ASSUME NEW x, NEW y, NEW z, NEW r, Accepted(x, y, r), Keeps(y, z) PROVE Accepted(x, z, r)
  BY KeepsPage DEF Accepted, Core, Keeps, Same

LEMMA GivenUpAfter ==
  ASSUME NEW x, NEW y, NEW z, NEW id, GivenUp(x, y, id), Keeps(y, z) PROVE GivenUp(x, z, id)
  BY KeepsPage DEF GivenUp, Core, Keeps, Same

LEMMA UnconfirmedIs == ASSUME NEW x, Running(x), Page(x) PROVE Keeps(x, Unconfirmed(x))
  BY SameSelf DEF Keeps, Running, Page, Typed, Shown, Same, Fields, Unconfirmed

LEMMA GivenUpIs ==
  ASSUME NEW x, Running(x), Page(x), x.state # None, x.pending # None
  PROVE  GivenUp(x, [ClearPending(x) EXCEPT !.submission = "idle"], x.pending.id)
<1> DEFINE y == ClearPending(x)
           z == [y EXCEPT !.submission = "idle"]
<1>1. Set(x, y, None, None, x.feedback, x.selected)
  BY ClearIs
<1> HIDE DEF y
<1>2. Set(x, z, None, None, x.feedback, x.selected)
  BY <1>1 DEF Set, Running, Fields
<1> HIDE DEF z
<1>3. Typed(z)
  BY <1>2 DEF Set, Page, Typed
<1>4. Page(z)
  BY <1>2, <1>3 DEF Set, Page, Shown
<1>5. GivenUp(x, z, x.pending.id)
  BY <1>2, <1>4 DEF GivenUp, Core, Set
<1>6. QED
  BY <1>5 DEF z, y

LEMMA AfterAnswerIs ==
  ASSUME NEW x, NEW c, Running(x), Page(x), x.state # None, IsCall(c), c.on = "answer", c # NoCall
  PROVE  LET r == AfterAnswer(x, c) IN
         \/ Run(x, r)
         \/ c.reply.ok /\ Accepted(x, r.machine, c.reply.receipt) /\ Fresh(r.machine, r.call)
         \/ /\ ~c.reply.ok /\ c.reply.code = "refused"
            /\ GivenUp(x, r.machine, c.id) /\ Fresh(r.machine, r.call)
<1> DEFINE r == AfterAnswer(x, c)
<1>1. CASE x.pending = None \/ x.pending.id # c.id
  <2>1. r = Resume(x, c.then)
    BY <1>1 DEF AfterAnswer
  <2>2. QED
    BY <2>1, ResumeIs
<1>2. CASE x.pending # None /\ x.pending.id = c.id /\ c.reply.ok
  <2> DEFINE receipt == c.reply.receipt
             y == Accept(x, receipt)
  <2>1. r = (IF y.pending = None THEN Synchronize(y, c.then) ELSE Resume(Unconfirmed(y), c.then))
    BY <1>2 DEF AfterAnswer
  <2>2. IsReceipt(receipt)
    BY <1>2 DEF IsCall, HasReceipt
  <2>3. CASE receipt.epoch # x.state.epoch \/ receipt.q # x.pending.q
    <3>1. y = x
      BY <2>3 DEF Accept
    <3>2. r = Resume(Unconfirmed(x), c.then)
      BY <1>2, <2>1, <3>1
    <3>3. Keeps(x, Unconfirmed(x)) /\ Page(Unconfirmed(x))
      BY UnconfirmedIs, KeepsPage
    <3>4. Run(Unconfirmed(x), Resume(Unconfirmed(x), c.then))
      BY <3>3, ResumeIs DEF Keeps, Same
    <3>5. QED
      BY <3>2, <3>3, <3>4, RunAfter
  <2>4. CASE receipt.epoch = x.state.epoch /\ receipt.q = x.pending.q
    <3>1. Accepted(x, y, receipt)
      BY <1>2, <2>2, <2>4, AcceptedIs
    <3> HIDE DEF y, receipt
    <3>2. r = Synchronize(y, c.then)
      BY <2>1, <3>1 DEF Accepted
    <3> HIDE DEF r
    <3>3. Run(y, Synchronize(y, c.then))
      BY <3>1, SynchronizeIs DEF Accepted, Core
    <3>4. Accepted(x, r.machine, receipt)
      BY <3>1, <3>2, <3>3, AcceptedAfter DEF Run
    <3>5. Fresh(r.machine, r.call)
      BY <3>2, <3>3, FreshSame DEF Run, Keeps, Same
    <3>6. QED
      BY <1>2, <3>4, <3>5 DEF r, receipt
  <2>5. QED
    BY <2>3, <2>4
<1>3. CASE x.pending # None /\ x.pending.id = c.id /\ ~c.reply.ok /\ c.reply.code = "refused"
  <2> DEFINE y == [ClearPending(x) EXCEPT !.submission = "idle"]
  <2>1. r = Resume(y, c.then)
    BY <1>3 DEF AfterAnswer
  <2>2. GivenUp(x, y, c.id)
    BY <1>3, GivenUpIs
  <2> HIDE DEF y, r
  <2>3. Run(y, Resume(y, c.then))
    BY <2>2, ResumeIs DEF GivenUp, Core
  <2>4. GivenUp(x, r.machine, c.id)
    BY <2>1, <2>2, <2>3, GivenUpAfter DEF Run
  <2>5. Fresh(r.machine, r.call)
    BY <2>1, <2>3, FreshSame DEF Run, Keeps, Same
  <2>6. QED
    BY <1>3, <2>4, <2>5 DEF r
<1>4. CASE x.pending # None /\ x.pending.id = c.id /\ ~c.reply.ok /\ c.reply.code # "refused"
  <2> DEFINE y == Unconfirmed(x)
             z == Fail(y, c.reply.code)
  <2>1. r = Resume(y, c.then) \/ r = Resume(z, c.then)
    BY <1>4 DEF AfterAnswer
  <2>2. Keeps(x, y) /\ Page(y)
    BY UnconfirmedIs, KeepsPage
  <2> HIDE DEF y
  <2>3. Keeps(y, z) /\ Page(z)
    BY <2>2, FailIs, KeepsPage DEF Keeps
  <2> HIDE DEF z
  <2>4. Keeps(x, z)
    BY <2>2, <2>3, KeepsTwice
  <2>5. Run(x, Resume(y, c.then)) /\ Run(x, Resume(z, c.then))
    BY <2>2, <2>3, <2>4, ResumeIs, RunAfter DEF Keeps, Same
  <2>6. QED
    BY <2>1, <2>5
<1>5. QED
  BY <1>1, <1>2, <1>3, <1>4

\* The first state of a page, and the intent that was stored before.
Welcomed(x, y, st) ==
  /\ Running(y) /\ Page(y) /\ y.state # None
  /\ y.state.epoch = st.epoch /\ y.state.receipts = st.receipts /\ y.privateVersion = st.version
  /\ y.dismissal = x.dismissal /\ y.uuids = x.uuids /\ y.dismissedVersion = ReadDismissed(x, st.epoch)
  /\ \/ /\ x.saved = None \/ x.saved.epoch # st.epoch
        /\ y.saved = None /\ (y.feedback = None \/ Unseen(y, st))
     \/ /\ x.saved # None /\ x.saved.epoch = st.epoch /\ x.saved.q = Len(st.receipts) + 1
        /\ y.saved = x.saved /\ y.feedback = None
     \/ /\ x.saved # None /\ x.saved.epoch = st.epoch /\ x.saved.q \in 1..Len(st.receipts)
        /\ y.saved = None /\ y.feedback # None /\ y.feedback.epoch = st.epoch /\ y.feedback.q = x.saved.q
        /\ y.feedback.version = st.receipts[x.saved.q]

LEMMA WelcomedAfter ==
  ASSUME NEW x, NEW y, NEW z, NEW st, Welcomed(x, y, st), Keeps(y, z) PROVE Welcomed(x, z, st)
<1>1. Page(z)
  BY KeepsPage DEF Welcomed
<1>2. QED
  BY <1>1 DEF Welcomed, Keeps, Same, Unseen

LEMMA LoadIs ==
  ASSUME NEW x, NEW y, NEW st, AdoptsNew(x, y, st), IsState(st), x.state = None, x.pending = None, Typed(x),
         x.saved # None => Within(x.saved, st.epoch, Len(st.receipts)), NEW then
  PROVE  LET r == ResolvePending(LoadPending(y), then) IN Welcomed(x, r.machine, st) /\ Fresh(r.machine, r.call)
<1> DEFINE z == LoadPending(y)
           r == ResolvePending(z, then)
<1>1. /\ Running(y) /\ Typed(y) /\ Shown(y) /\ y.state # None /\ IsState(y.state)
      /\ y.state.epoch = st.epoch /\ y.state.receipts = st.receipts /\ y.privateVersion = st.version
      /\ y.dismissal = x.dismissal /\ y.uuids = x.uuids /\ y.dismissedVersion = ReadDismissed(x, st.epoch)
      /\ y.pending = None /\ y.saved = x.saved /\ (y.feedback = None \/ Unseen(y, st))
  BY DEF AdoptsNew, Adopts, Typed
<1>2. Len(st.receipts) \in 0..Questions /\ DOMAIN st.receipts = 1..Len(st.receipts)
  BY LenIs
<1>3. SUFFICES \E w : Welcomed(x, w, st) /\ Run(w, r)
  <2>1. ASSUME NEW w, Welcomed(x, w, st), Run(w, r) PROVE Welcomed(x, r.machine, st) /\ Fresh(r.machine, r.call)
    <3> HIDE DEF r
    <3>1. QED
      BY <2>1, WelcomedAfter, FreshSame DEF Run, Keeps, Same
  <2>2. QED
    BY <2>1
<1>4. CASE x.saved = None \/ x.saved.epoch # st.epoch
  <2>1. z = y \/ z = ClearPending(y)
    BY <1>1, <1>4 DEF LoadPending
  <2>2. x.saved # None => z = ClearPending(y)
    BY <1>1, <1>4 DEF LoadPending
  <2>3. Set(y, ClearPending(y), None, None, y.feedback, y.selected)
    BY <1>1, ClearIs
  <2>4. Set(y, z, None, None, y.feedback, y.selected)
    BY <1>1, <2>1, <2>2, <2>3 DEF Set
  <2> HIDE DEF z
  <2>5. Typed(z) /\ Shown(z)
    BY <1>1, <2>4 DEF Set, Typed, Shown
  <2>6. Welcomed(x, z, st)
    BY <1>1, <1>4, <2>4, <2>5 DEF Set, Page, Welcomed, Unseen
  <2>7. Run(z, r)
    BY <2>6, ResolveIs DEF Welcomed
  <2>8. QED
    BY <2>6, <2>7
<1>5. CASE x.saved # None /\ x.saved.epoch = st.epoch
  <2>1. z = [y EXCEPT !.pending = y.saved, !.feedback = None, !.selected = Key(y.saved.epoch, y.saved.q),
                      !.submission = "unconfirmed"]
    BY <1>1, <1>5 DEF LoadPending
  <2>2. Set(y, z, x.saved, x.saved, None, Key(x.saved.epoch, x.saved.q))
    BY <1>1, <2>1 DEF Set, Running, Fields
  <2> HIDE DEF z
  <2>3. IsIntent(x.saved) /\ x.saved.q \in Nat /\ x.saved.q >= 1 /\ x.saved.q <= Len(st.receipts) + 1
    BY <1>2, <1>5, QuestionsIs DEF Typed, IsIntent, IsKey, Within
  <2>4. Typed(z)
    BY <1>1, <2>2, <2>3 DEF Set, Typed
  <2>5. CASE x.saved.q = Len(st.receipts) + 1
    <3>1. Shown(z)
      BY <1>1, <1>5, <2>2, <2>5 DEF Shown, Set
    <3>2. Welcomed(x, z, st)
      BY <1>1, <1>5, <2>2, <2>4, <2>5, <3>1 DEF Welcomed, Set, Page
    <3>3. Run(z, r)
      BY <3>2, ResolveIs DEF Welcomed
    <3>4. QED
      BY <3>2, <3>3
  <2>6. CASE x.saved.q \in 1..Len(st.receipts)
    <3> DEFINE a == ReceiptOf(z.state, z.pending.q)
               w == Accept(z, a)
    <3>1. z.pending = x.saved /\ z.state = y.state /\ z.pending # None
      BY <1>5, <2>2 DEF Set
    <3>2. r = Resume(w, then)
      BY <1>1, <1>2, <2>6, <3>1 DEF ResolvePending
    <3>3. /\ IsReceipt(a) /\ a # None /\ a.epoch = st.epoch /\ a.q = x.saved.q
          /\ a.version = st.receipts[x.saved.q]
      BY <1>1, <2>6, <3>1, ReceiptOfIs
    <3> HIDE DEF a
    <3>4. Set(z, w, None, None, a, Key(a.epoch, a.q))
      BY <1>1, <2>2, <3>1, <3>3, AcceptIs DEF Set
    <3> HIDE DEF w, r
    <3>5. Typed(w)
      BY <2>4, <3>3, <3>4 DEF Set, Typed
    <3>6. Shown(w)
      BY <1>1, <3>1, <3>3, <3>4 DEF Set, Shown
    <3>7. Welcomed(x, w, st)
      BY <1>1, <1>5, <2>2, <2>6, <3>1, <3>3, <3>4, <3>5, <3>6 DEF Welcomed, Set, Page
    <3>8. Run(w, r)
      BY <3>2, <3>7, ResumeIs DEF Welcomed
    <3>9. QED
      BY <3>7, <3>8 DEF r
  <2>7. QED
    BY <1>2, <2>3, <2>5, <2>6
<1>6. QED
  BY <1>4, <1>5

LEMMA AfterJoinIs ==
  ASSUME NEW x, NEW c, Running(x), Page(x), x.state = None, x.appliedSequence = 0, x.requestSequence \in Nat,
         c.reply.ok => /\ IsState(c.reply.state)
                       /\ x.saved # None => Within(x.saved, c.reply.state.epoch, Len(c.reply.state.receipts))
  PROVE  LET r == AfterJoin(x, c) IN
         \/ Run(x, r) /\ r.call = NoCall
         \/ c.reply.ok /\ Welcomed(x, r.machine, c.reply.state) /\ Fresh(r.machine, r.call)
<1> DEFINE r == AfterJoin(x, c)
<1>1. CASE c.reply.ok
  <2> DEFINE z == [x EXCEPT !.requestSequence = @ + 1]
             n == x.requestSequence + 1
             st == c.reply.state
             y == ApplyPrivate(z, st, n)
             then == <<At("startQuestion"), At("joined")>>
  <2>1. r = ResolvePending(LoadPending(y), then)
    BY <1>1 DEF AfterJoin
  <2>2. Keeps(x, z) /\ z.appliedSequence = x.appliedSequence
    BY DrawnIs
  <2> HIDE DEF z, then
  <2>3. ~(n <= z.appliedSequence)
    BY <2>2
  <2> HIDE DEF n
  <2>4. Running(z) /\ Page(z) /\ z.state = None /\ Typed(z) /\ Shown(z)
    BY <2>2, KeepsPage DEF Keeps, Same, Page
  <2>5. AdoptsNew(z, y, st)
    <3>1. \/ y = z /\ (n <= z.appliedSequence \/ (z.state # None /\ z.state.epoch = st.epoch))
          \/ AdoptsSame(z, y, st)
          \/ AdoptsNew(z, y, st)
      BY <1>1, <2>4, ApplyIs
    <3>2. QED
      BY <2>3, <2>4, <3>1 DEF AdoptsSame
  <2> HIDE DEF y, r
  <2>6. z.pending = None /\ z.saved = x.saved
    BY <2>2, <2>4 DEF Shown, Keeps, Same
  <2> HIDE DEF st
  <2>7. IsState(st) /\ (z.saved # None => Within(z.saved, st.epoch, Len(st.receipts)))
    BY <1>1, <2>6 DEF st
  <2>8. Welcomed(z, r.machine, st) /\ Fresh(r.machine, r.call)
    BY <2>1, <2>4, <2>5, <2>6, <2>7, LoadIs
  <2>9. Welcomed(x, r.machine, st)
    BY <2>2, <2>8 DEF Welcomed, Keeps, Same, ReadDismissed
  <2>10. QED
    BY <1>1, <2>8, <2>9 DEF r, st
<1>2. CASE ~c.reply.ok
  <2> DEFINE f == Fail(x, c.reply.code)
             g == [f EXCEPT !.busy = FALSE]
  <2>1. Keeps(x, f)
    BY FailIs
  <2> HIDE DEF f
  <2>2. Keeps(x, g)
    BY <2>1 DEF Keeps, Running, Same, Fields
  <2>3. r = Runs(g, NoCall)
    BY <1>2 DEF AfterJoin, f
  <2> HIDE DEF g, r
  <2>4. QED
    BY <2>2, <2>3, RunsIs DEF Run, Fresh, r
<1>3. QED
  BY <1>1, <1>2

(***************************************************************************)
(* A step of the machine leaves every other request alone, but for its     *)
(* number, and thread t with the request it stopped at.                    *)
(***************************************************************************)
Moved(T) ==
  /\ m'.appliedSequence = 0 /\ m'.requestSequence \in Nat
  /\ DOMAIN calls' = Threads
  /\ \A u \in Threads \ T : Alike(calls[u], calls'[u])
  /\ \A u \in T : Fresh(m', calls'[u]) /\ (calls'[u] # NoCall => m'.state # None)

LEMMA CallIsNot == ASSUME NEW c, IsCall(c) PROVE c # NoCall
  BY DEF IsCall, NoCall

LEMMA RenumberedIs ==
  ASSUME NEW x, NEW cs, Renumbered(x, cs), Running(x), Page(x),
         \A t \in Threads : cs[t] = NoCall \/ IsCall(cs[t])
  PROVE  /\ Keeps(x, m') /\ m'.appliedSequence = 0 /\ m'.requestSequence \in Nat
         /\ DOMAIN calls' = Threads /\ \A t \in Threads : Alike(cs[t], calls'[t])
<1> DEFINE waits == {u \in Threads : cs[u] # NoCall /\ cs[u].on = "state"}
           fresh == {cs[t].sequence : t \in waits} \ 0..x.appliedSequence
           rank(n) == IF n \in fresh THEN Cardinality({k \in fresh : k <= n}) ELSE 0
<1>1. /\ m' = [x EXCEPT !.appliedSequence = 0, !.requestSequence = Cardinality(fresh)]
      /\ calls' = [t \in Threads |-> IF cs[t] = NoCall THEN NoCall
                                     ELSE [cs[t] EXCEPT !.sequence = rank(@)]]
  BY DEF Renumbered
<1>2. Cardinality(fresh) \in Nat
  <2>1. IsFiniteSet(waits)
    BY FS_Subset, QuizMachineAssumption
  <2>2. IsFiniteSet({cs[t].sequence : t \in waits})
    <3> DEFINE numbers == {cs[t].sequence : t \in waits}
               f == [t \in waits |-> cs[t].sequence]
    <3> HIDE DEF waits
    <3>1. f \in Surjection(waits, numbers)
      BY DEF Surjection
    <3>2. QED
      BY <2>1, <3>1, FS_Surjection
  <2>3. IsFiniteSet(fresh)
    BY <2>2, FS_Subset
  <2>4. QED
    BY <2>3, FS_CardinalityType
<1> HIDE DEF fresh, rank
<1>3. Keeps(x, m') /\ m'.appliedSequence = 0 /\ m'.requestSequence \in Nat
  BY <1>1, <1>2, SameSelf DEF Keeps, Running, Page, Typed, Shown, Same, Fields
<1>4. ASSUME NEW t \in Threads PROVE Alike(cs[t], calls'[t])
  <2>1. CASE cs[t] = NoCall
    BY <1>1, <2>1 DEF Alike
  <2>2. CASE cs[t] # NoCall
    <3>1. PICK c : c = cs[t]
      OBVIOUS
    <3>2. IsCall(c) /\ calls'[t] = [c EXCEPT !.sequence = rank(@)]
      BY <1>1, <2>2, <3>1
    <3>3. PICK d : d = [c EXCEPT !.sequence = rank(@)]
      OBVIOUS
    <3>4. /\ DOMAIN d = {"on", "key", "id", "sequence", "then", "reply", "alive"}
          /\ d.on = c.on /\ d.key = c.key /\ d.id = c.id /\ d.reply = c.reply /\ d.alive = c.alive
      BY <3>2, <3>3 DEF IsCall
    <3>5. IsCall(d) /\ d # NoCall
      <4>1. d # NoCall /\ c # NoCall
        BY <3>2, <3>4, CallIsNot DEF IsCall, NoCall
      <4>2. IsCall(d)
        BY <3>2, <3>4, <4>1 DEF IsCall, HasState, HasReceipt
      <4>3. QED
        BY <4>1, <4>2
    <3>6. Alike(c, d)
      BY <2>2, <3>1, <3>4, <3>5 DEF Alike
    <3>7. QED
      BY <3>1, <3>2, <3>3, <3>6
  <2>3. QED
    BY <2>1, <2>2
<1>5. QED
  BY <1>1, <1>3, <1>4

LEMMA AlikeFresh ==
  ASSUME NEW x, NEW y, NEW c, NEW d, Fresh(x, c), Alike(c, d), y.pending = x.pending PROVE Fresh(y, d)
<1>1. CASE d = NoCall
  BY <1>1 DEF Fresh
<1>2. CASE d # NoCall
  <2>1. c # NoCall /\ IsCall(d) /\ d.on = c.on /\ d.key = c.key /\ d.id = c.id /\ d.reply = c.reply
    BY <1>2 DEF Alike
  <2>2. /\ c.reply = NoReply /\ c.on # "join"
        /\ c.on = "answer" =>
             x.pending # None /\ c.key = Key(x.pending.epoch, x.pending.q) /\ c.id = x.pending.id
    BY <2>1 DEF Fresh
  <2>3. ~d.reply.ok
    BY <2>1, <2>2, NoneIs
  <2>4. d.reply = NoReply /\ d.on # "join"
    BY <2>1, <2>2
  <2>5. d.on = "answer" =>
          y.pending # None /\ d.key = Key(y.pending.epoch, y.pending.q) /\ d.id = y.pending.id
    BY <2>1, <2>2
  <2>6. QED
    BY <1>2, <2>1, <2>3, <2>4, <2>5 DEF Fresh
<1>3. QED
  BY <1>1, <1>2

LEMMA StepsIs ==
  ASSUME NEW t \in Threads, NEW run, Steps(t, run), CallsOK, Running(run.machine), Page(run.machine),
         Fresh(run.machine, run.call), run.call # NoCall => run.machine.state # None
  PROVE  Keeps(run.machine, m') /\ Moved({t})
<1> DEFINE cs == [calls EXCEPT ![t] = run.call]
<1>1. /\ DOMAIN calls = Threads /\ \A u \in Threads : calls[u] = NoCall \/ IsCall(calls[u])
  BY DEF CallsOK, Free
<1>2. cs[t] = run.call /\ \A u \in Threads \ {t} : cs[u] = calls[u]
  BY <1>1
<1>3. Renumbered(run.machine, cs)
  BY DEF Steps
<1> HIDE DEF cs
<1>4. \A u \in Threads : cs[u] = NoCall \/ IsCall(cs[u])
  BY <1>1, <1>2 DEF Fresh
<1>5. /\ Keeps(run.machine, m') /\ m'.appliedSequence = 0 /\ m'.requestSequence \in Nat
      /\ DOMAIN calls' = Threads /\ \A u \in Threads : Alike(cs[u], calls'[u])
  BY <1>3, <1>4, RenumberedIs
<1>6. Fresh(m', calls'[t]) /\ (calls'[t] # NoCall => m'.state # None)
  <2>1. Alike(run.call, calls'[t]) /\ m'.pending = run.machine.pending
        /\ (m'.state = None <=> run.machine.state = None)
    BY <1>2, <1>5 DEF Keeps, Same
  <2>2. Fresh(m', calls'[t])
    BY <2>1, AlikeFresh
  <2>3. QED
    BY <2>1, <2>2 DEF Alike
<1>7. QED
  BY <1>2, <1>5, <1>6 DEF Moved

LEMMA AlikeSelf == ASSUME CallsOK, NEW u \in Threads PROVE Alike(calls[u], calls[u])
<1>1. calls[u] = NoCall \/ (IsCall(calls[u]) /\ calls[u] # NoCall)
  BY CallIsNot DEF CallsOK, Free
<1>2. QED
  BY <1>1 DEF Alike

\* A step of the machine that makes no request.
LEMMA StaysMoved ==
  ASSUME CallsOK, calls' = calls, m'.appliedSequence = m.appliedSequence, m'.requestSequence = m.requestSequence
  PROVE  Moved({})
  BY AlikeSelf DEF Moved, CallsOK

(***************************************************************************)
(* What the steps of the machine come to.                                  *)
(***************************************************************************)
Quiet == Same(m, m') /\ Running(m') /\ Page(m')

Asks ==
  /\ Core(m, m') /\ m'.dismissal = m.dismissal /\ m'.dismissedVersion = m.dismissedVersion
  /\ m.pending = None /\ m.feedback = None /\ m'.feedback = None
  /\ m'.uuids = m.uuids + 1 /\ m'.pending # None /\ m'.pending.id = m'.uuids

Leaves ==
  /\ Core(m, m') /\ m'.uuids = m.uuids /\ m.pending = None /\ m'.pending = None
  /\ m.feedback # None /\ m.privateVersion >= m.feedback.version
  /\ m.feedback.q \in 1..Len(m.state.receipts)
  /\ m'.dismissal = [epoch |-> m.state.epoch, version |-> m.feedback.version]
  /\ m'.dismissedVersion = m.feedback.version
  /\ m'.feedback # None => m'.feedback.version > m.feedback.version

LEMMA RunQuiet ==
  ASSUME NEW t \in Threads, NEW run, Steps(t, run), Base, Run(m, run), run.call # NoCall => m.state # None
  PROVE  Quiet /\ Moved({t})
<1>1. Page(m) /\ CallsOK
  BY DEF Base
<1>2. Running(run.machine) /\ Page(run.machine) /\ Fresh(run.machine, run.call) /\ Keeps(m, run.machine)
  BY <1>1, KeepsPage, FreshSame DEF Run, Keeps, Same
<1>3. run.call # NoCall => run.machine.state # None
  BY <1>2 DEF Keeps, Same
<1>4. Keeps(run.machine, m') /\ Moved({t})
  BY <1>1, <1>2, <1>3, StepsIs
<1>5. QED
  BY <1>1, <1>2, <1>4, KeepsTwice, KeepsPage DEF Quiet, Keeps

LEMMA HeldIs ==
  /\ m.state # None => Mine(m) \in Held
  /\ \A t \in Threads : HasState(calls[t]) => Copied(calls[t].reply.state) \in Held
  BY DEF Held, OfPage, Replied

LEMMA AfterIs ==
  ASSUME Base, NEW t \in Threads, ~Free(t), NEW c, c = calls[t]
  PROVE  LET r == After(m, c) IN
         \/ Run(m, r) /\ (r.call # NoCall => m.state # None)
         \/ m.state # None /\ HasState(c) /\ Applied(m, r, c.reply.state)
         \/ Welcome(t) /\ Welcomed(m, r.machine, c.reply.state) /\ Fresh(r.machine, r.call)
         \/ /\ m.state # None /\ HasReceipt(c)
            /\ Accepted(m, r.machine, c.reply.receipt) /\ Fresh(r.machine, r.call)
         \/ /\ m.state # None /\ c.on = "answer" /\ ~c.reply.ok /\ c.reply.code = "refused"
            /\ GivenUp(m, r.machine, c.id) /\ Fresh(r.machine, r.call)
<1> DEFINE r == After(m, c)
<1>1. Running(m) /\ Page(m) /\ IsCall(c) /\ c # NoCall /\ c.alive \in BOOLEAN
      /\ c.on \in {"state", "join", "resync", "answer", "start"}
  BY DEF Base, CallsOK, Free, IsCall
<1>2. CASE ~c.alive
  <2>1. r = AfterDeath(m, c)
    BY <1>2 DEF After
  <2>2. r.call = NoCall
    BY <2>1, RunsIs DEF AfterDeath
  <2>3. QED
    BY <1>1, <2>1, <2>2, AfterDeathIs
<1>3. CASE c.alive /\ c.on # "join"
  <2>1. m.state # None
    BY <1>3 DEF Base, CallsOK
  <2>2. c.on \in {"state", "resync"} /\ c.reply.ok => IsState(c.reply.state) /\ Agree(Mine(m), c.reply.state)
    <3>1. SUFFICES ASSUME c.on \in {"state", "resync"}, c.reply.ok
                   PROVE  IsState(c.reply.state) /\ Agree(Mine(m), c.reply.state)
      OBVIOUS
    <3>2. HasState(c)
      BY <1>1, <3>1 DEF HasState
    <3>3. Mine(m) \in Held /\ Copied(c.reply.state) \in Held
      BY <2>1, <3>2, HeldIs
    <3>4. Agree(Mine(m), Copied(c.reply.state))
      BY <3>3 DEF Base, CopiesOK
    <3>5. QED
      BY <1>1, <3>2, <3>4 DEF IsCall, Agree, Copied
  <2>3. CASE c.on = "state"
    <3>1. r = AfterState(m, c)
      BY <1>3, <2>3 DEF After
    <3>2. Run(m, r) \/ (c.reply.ok /\ Applied(m, r, c.reply.state))
      BY <1>1, <2>1, <2>2, <2>3, <3>1, AfterStateIs
    <3>3. QED
      BY <1>1, <2>1, <2>3, <3>2 DEF HasState
  <2>4. CASE c.on = "resync"
    <3>1. r = AfterResync(m, c)
      BY <1>3, <2>4 DEF After
    <3>2. Run(m, r) \/ (c.reply.ok /\ Applied(m, r, c.reply.state))
      BY <1>1, <2>1, <2>2, <2>4, <3>1, AfterResyncIs
    <3>3. QED
      BY <1>1, <2>1, <2>4, <3>2 DEF HasState
  <2>5. CASE c.on = "start"
    <3>1. r = AfterStart(m, c)
      BY <1>3, <2>5 DEF After
    <3>2. QED
      BY <1>1, <2>1, <2>5, <3>1, AfterStartIs
  <2>6. CASE c.on = "answer"
    <3>1. r = AfterAnswer(m, c)
      BY <1>3, <2>6 DEF After
    <3> HIDE DEF r
    <3>2. \/ Run(m, r)
          \/ c.reply.ok /\ Accepted(m, r.machine, c.reply.receipt) /\ Fresh(r.machine, r.call)
          \/ /\ ~c.reply.ok /\ c.reply.code = "refused"
             /\ GivenUp(m, r.machine, c.id) /\ Fresh(r.machine, r.call)
      BY <1>1, <2>1, <2>6, <3>1, AfterAnswerIs
    <3>3. QED
      BY <1>1, <2>1, <2>6, <3>2 DEF HasReceipt, r
  <2>7. QED
    BY <1>1, <1>3, <2>3, <2>4, <2>5, <2>6
<1>4. CASE c.alive /\ c.on = "join"
  <2>1. m.state = None /\ m.appliedSequence = 0 /\ m.requestSequence \in Nat
    BY <1>4 DEF Base, CallsOK
  <2>2. c.reply.ok => /\ Welcome(t) /\ IsState(c.reply.state)
                      /\ m.saved # None => Within(m.saved, c.reply.state.epoch, Len(c.reply.state.receipts))
    <3>1. c.reply.ok => Welcome(t)
      BY <1>4 DEF Welcome, Joining
    <3>2. QED
      BY <1>1, <1>4, <3>1 DEF Base, SavedOK, IsCall, HasState
  <2>3. r = AfterJoin(m, c)
    BY <1>4 DEF After
  <2> HIDE DEF r
  <2>4. \/ Run(m, r) /\ r.call = NoCall
        \/ c.reply.ok /\ Welcomed(m, r.machine, c.reply.state) /\ Fresh(r.machine, r.call)
    BY <1>1, <2>1, <2>2, <2>3, AfterJoinIs
  <2>5. QED
    BY <2>2, <2>4 DEF r
<1>5. QED
  BY <1>1, <1>2, <1>3, <1>4

LEMMA RespondIs ==
  ASSUME Base, NEW t \in Threads, Respond(t), NEW c, c = calls[t]
  PROVE  /\ Moved({t}) /\ server' = server /\ ~Free(t)
         /\ \/ Quiet
            \/ m.state # None /\ HasState(c) /\ AppliedTo(m, m', c.reply.state)
            \/ Welcome(t) /\ Welcomed(m, m', c.reply.state)
            \/ m.state # None /\ HasReceipt(c) /\ Accepted(m, m', c.reply.receipt)
            \/ m.state # None /\ c.on = "answer" /\ ~c.reply.ok /\ c.reply.code = "refused" /\ GivenUp(m, m', c.id)
<1>1. ~Free(t) /\ server' = server /\ Steps(t, After(m, c))
  BY DEF Respond
<1>2. PICK r : r = After(m, c)
  OBVIOUS
<1>3. Steps(t, r) /\ CallsOK
  BY <1>1, <1>2 DEF Base
<1>4. \/ Run(m, r) /\ (r.call # NoCall => m.state # None)
      \/ m.state # None /\ HasState(c) /\ Applied(m, r, c.reply.state)
      \/ Welcome(t) /\ Welcomed(m, r.machine, c.reply.state) /\ Fresh(r.machine, r.call)
      \/ /\ m.state # None /\ HasReceipt(c)
         /\ Accepted(m, r.machine, c.reply.receipt) /\ Fresh(r.machine, r.call)
      \/ /\ m.state # None /\ c.on = "answer" /\ ~c.reply.ok /\ c.reply.code = "refused"
         /\ GivenUp(m, r.machine, c.id) /\ Fresh(r.machine, r.call)
  BY <1>1, <1>2, AfterIs
<1>5. CASE Run(m, r) /\ (r.call # NoCall => m.state # None)
  BY <1>1, <1>3, <1>5, RunQuiet
<1>6. CASE m.state # None /\ HasState(c) /\ Applied(m, r, c.reply.state)
  <2>1. Running(r.machine) /\ Page(r.machine) /\ r.machine.state # None /\ Fresh(r.machine, r.call)
    BY <1>6 DEF Applied, AppliedTo, AdoptsSame, AdoptsNew, Adopts
  <2>2. Keeps(r.machine, m') /\ Moved({t})
    BY <1>3, <2>1, StepsIs
  <2>3. AppliedTo(m, m', c.reply.state)
    BY <1>6, <2>2, AppliedAfter DEF Applied
  <2>4. QED
    BY <1>1, <1>6, <2>2, <2>3
<1>7. CASE Welcome(t) /\ Welcomed(m, r.machine, c.reply.state) /\ Fresh(r.machine, r.call)
  <2>1. Running(r.machine) /\ Page(r.machine) /\ r.machine.state # None
    BY <1>7 DEF Welcomed
  <2>2. Keeps(r.machine, m') /\ Moved({t})
    BY <1>3, <1>7, <2>1, StepsIs
  <2>3. Welcomed(m, m', c.reply.state)
    BY <1>7, <2>2, WelcomedAfter
  <2>4. QED
    BY <1>1, <1>7, <2>2, <2>3
<1>8. CASE /\ m.state # None /\ HasReceipt(c)
           /\ Accepted(m, r.machine, c.reply.receipt) /\ Fresh(r.machine, r.call)
  <2>1. Running(r.machine) /\ Page(r.machine) /\ r.machine.state # None
    BY <1>8 DEF Accepted, Core
  <2>2. Keeps(r.machine, m') /\ Moved({t})
    BY <1>3, <1>8, <2>1, StepsIs
  <2>3. Accepted(m, m', c.reply.receipt)
    BY <1>8, <2>2, AcceptedAfter
  <2>4. QED
    BY <1>1, <1>8, <2>2, <2>3
<1>9. CASE /\ m.state # None /\ c.on = "answer" /\ ~c.reply.ok /\ c.reply.code = "refused"
           /\ GivenUp(m, r.machine, c.id) /\ Fresh(r.machine, r.call)
  <2>1. Running(r.machine) /\ Page(r.machine) /\ r.machine.state # None
    BY <1>9 DEF GivenUp, Core
  <2>2. Keeps(r.machine, m') /\ Moved({t})
    BY <1>3, <1>9, <2>1, StepsIs
  <2>3. GivenUp(m, m', c.id)
    BY <1>9, <2>2, GivenUpAfter
  <2>4. QED
    BY <1>1, <1>9, <2>2, <2>3
<1>10. QED
  BY <1>4, <1>5, <1>6, <1>7, <1>8, <1>9

LEMMA QuestionIs ==
  ASSUME NEW x, Page(x), x.state # None, x.feedback = None
  PROVE  /\ Question(x) = CurrentQuestion(x.state)
         /\ Question(x) # 0 => Question(x) = Len(x.state.receipts) + 1 /\ Question(x) \in 1..Questions
<1>1. Len(x.state.receipts) \in 0..Questions
  BY LenIs DEF Page, Typed
<1>2. QED
  BY <1>1, QuestionsIs DEF Question, CurrentQuestion

LEMMA SubmitIs ==
  ASSUME Base, NEW t \in Threads, Submit(t) PROVE Asks /\ Moved({t}) /\ server' = server
<1> DEFINE intent == [epoch |-> m.state.epoch, q |-> Question(m), id |-> m.uuids + 1]
           y == [m EXCEPT !.pending = intent, !.saved = intent, !.uuids = @ + 1]
<1>1. /\ Steps(t, SendPending(y, << >>)) /\ server' = server
      /\ m.state # None /\ CurrentQuestion(m.state) # 0 /\ m.pending = None /\ m.feedback = None
      /\ m.selected # None /\ Running(m) /\ Page(m) /\ CallsOK
  BY DEF Submit, CanSelect, Base
<1>2. Question(m) = Len(m.state.receipts) + 1 /\ Question(m) \in 1..Questions
  BY <1>1, QuestionIs
<1>3. IsState(m.state) /\ m.uuids \in Nat
  BY <1>1 DEF Page, Typed
<1>4. /\ intent.epoch = m.state.epoch /\ intent.q = Len(m.state.receipts) + 1 /\ intent.id = m.uuids + 1
      /\ IsIntent(intent) /\ intent # None
  BY <1>2, <1>3, NoneIs DEF IsIntent, IsKey, IsState
<1> HIDE DEF intent
<1>5. /\ DOMAIN y = Fields /\ y.pending = intent /\ y.saved = intent /\ y.uuids = m.uuids + 1
      /\ y.state = m.state /\ y.connection = m.connection /\ y.submission = m.submission /\ y.ws = m.ws
      /\ y.feedback = m.feedback /\ y.selected = m.selected /\ y.dismissal = m.dismissal
      /\ y.privateVersion = m.privateVersion /\ y.dismissedVersion = m.dismissedVersion
  BY <1>1 DEF Running, Fields
<1> HIDE DEF y
<1>6. Running(y)
  BY <1>1, <1>5 DEF Running
<1>7. m.selected = Key(m.state.epoch, Len(m.state.receipts) + 1)
  BY <1>1 DEF Page, Shown
<1>8. Page(y)
  <2>1. Typed(y)
    BY <1>1, <1>3, <1>4, <1>5 DEF Page, Typed
  <2>2. Shown(y)
    BY <1>1, <1>4, <1>5, <1>7 DEF Shown
  <2>3. QED
    BY <1>5, <2>1, <2>2 DEF Page
<1>9. PICK r : r = SendPending(y, << >>)
  OBVIOUS
<1>10. Run(y, r) /\ Steps(t, r) /\ y.state # None
  BY <1>1, <1>5, <1>6, <1>8, <1>9, SendPendingIs
<1>11. Running(r.machine) /\ Page(r.machine) /\ Fresh(r.machine, r.call) /\ r.machine.state # None
       /\ Keeps(y, r.machine)
  BY <1>8, <1>10, KeepsPage, FreshSame DEF Run, Keeps, Same
<1>12. Keeps(r.machine, m') /\ Moved({t})
  BY <1>1, <1>10, <1>11, StepsIs
<1>13. Keeps(y, m') /\ Page(m')
  BY <1>8, <1>11, <1>12, KeepsTwice, KeepsPage
<1>14. Asks
  BY <1>1, <1>3, <1>4, <1>5, <1>10, <1>13 DEF Asks, Core, Keeps, Same
<1>15. QED
  BY <1>1, <1>12, <1>14

LEMMA NextQuestionIs ==
  ASSUME Base, NEW t \in Threads, NextQuestion(t) PROVE Leaves /\ Moved({t}) /\ server' = server
<1> DEFINE seen == m.feedback.version
           y == [m EXCEPT !.dismissedVersion = seen, !.dismissal = [epoch |-> m.state.epoch, version |-> seen],
                          !.feedback = None, !.selected = None, !.submission = "idle"]
           n == Len(m.state.receipts)
           z == Dismissed(m)
           r == Resume(z, <<At("startQuestion")>>)
<1>1. /\ Steps(t, r) /\ server' = server /\ CanAdvance(m) /\ Running(m) /\ Page(m) /\ CallsOK
  BY DEF NextQuestion, Base
<1>2. /\ m.feedback # None /\ m.pending = None /\ m.privateVersion >= seen
      /\ m.feedback.q \in DOMAIN m.state.receipts /\ m.state # None
      /\ IsState(m.state) /\ m.saved = None /\ seen \in Nat
      /\ n \in 0..Questions /\ DOMAIN m.state.receipts = 1..n
  BY <1>1, LenIs DEF CanAdvance, Page, Typed, Shown, IsReceipt
<1>3. /\ DOMAIN y = Fields /\ y.dismissedVersion = seen
      /\ y.dismissal = [epoch |-> m.state.epoch, version |-> seen]
      /\ y.feedback = None /\ y.selected = None /\ y.submission = "idle"
      /\ y.state = m.state /\ y.connection = m.connection /\ y.ws = m.ws /\ y.pending = None /\ y.saved = None
      /\ y.privateVersion = m.privateVersion /\ y.uuids = m.uuids /\ y.timer = m.timer
  BY <1>1, <1>2 DEF Running, Fields
<1>4. z = (IF n > 0 /\ m.state.receipts[n] > seen THEN ShowFeedback(y, n) ELSE y)
  BY <1>3 DEF Dismissed
<1> HIDE DEF y, seen, z
<1>5. Running(y)
  BY <1>1, <1>3 DEF Running
<1>6. /\ Set(y, z, None, None, z.feedback, z.selected)
      /\ \/ z.feedback = None /\ z.selected = None
         \/ /\ n > 0 /\ z.feedback = ReceiptOf(m.state, n) /\ m.state.receipts[n] > seen
  <2>1. Set(y, ShowFeedback(y, n), y.pending, y.saved, ReceiptOf(y.state, n), Key(y.state.epoch, n))
    BY <1>5, ShowIs
  <2>2. QED
    BY <1>3, <1>4, <1>5, <2>1 DEF Set
<1>7. \/ z.feedback = None /\ z.selected = None
      \/ /\ IsReceipt(z.feedback) /\ z.feedback # None
         /\ z.feedback.epoch = m.state.epoch /\ z.feedback.version > seen
  BY <1>2, <1>6, ReceiptOfIs
<1>8. Page(z)
  <2>1. Typed(z)
    <3>1. z.dismissal.epoch \in Nat \ {0} /\ z.dismissal.version \in Nat
      BY <1>2, <1>3, <1>6 DEF Set, IsState
    <3>2. z.state = m.state /\ z.pending = None /\ z.saved = None /\ z.privateVersion = m.privateVersion
          /\ z.dismissedVersion = seen /\ z.uuids = m.uuids
      BY <1>3, <1>6 DEF Set
    <3>3. QED
      BY <1>1, <1>2, <1>7, <3>1, <3>2 DEF Page, Typed
  <2>2. Shown(z)
    BY <1>2, <1>3, <1>6, <1>7 DEF Shown, Set
  <2>3. QED
    BY <1>3, <1>6, <2>1, <2>2 DEF Page, Set
<1>9. Running(z) /\ z.state # None
  BY <1>2, <1>3, <1>6 DEF Set
<1>10. Run(z, r)
  BY <1>8, <1>9, ResumeIs
<1> HIDE DEF r
<1>11. Running(r.machine) /\ Page(r.machine) /\ Fresh(r.machine, r.call) /\ r.machine.state # None
       /\ Keeps(z, r.machine)
  BY <1>8, <1>9, <1>10, KeepsPage, FreshSame DEF Run, Keeps, Same
<1>12. Keeps(r.machine, m') /\ Moved({t})
  BY <1>1, <1>11, StepsIs
<1>13. Keeps(z, m') /\ Page(m')
  BY <1>8, <1>11, <1>12, KeepsTwice, KeepsPage
<1>14. Leaves
  <2>1. Core(m, m') /\ m'.uuids = m.uuids /\ m'.pending = None
    BY <1>2, <1>3, <1>6, <1>13 DEF Core, Keeps, Same, Set
  <2>2. m'.dismissal = [epoch |-> m.state.epoch, version |-> seen] /\ m'.dismissedVersion = seen
    BY <1>3, <1>6, <1>13 DEF Keeps, Same, Set
  <2>3. m'.feedback # None => m'.feedback.version > seen
    BY <1>7, <1>13 DEF Keeps, Same
  <2>4. QED
    BY <1>2, <2>1, <2>2, <2>3 DEF Leaves, seen
<1>15. QED
  BY <1>1, <1>12, <1>14

LEMMA RetryIs ==
  ASSUME Base, NEW t \in Threads, Retry(t) PROVE Quiet /\ Moved({t}) /\ server' = server
<1> DEFINE y == [m EXCEPT !.resolving = TRUE]
           r == Synchronize(y, <<At("retried")>>)
<1>1. Steps(t, r) /\ server' = server /\ m.state # None /\ Running(m) /\ Page(m)
  BY DEF Retry, RetryOffered, Base
<1>2. Keeps(m, y)
  BY <1>1, SameSelf DEF Keeps, Running, Page, Typed, Shown, Same, Fields
<1> HIDE DEF y
<1>3. Run(y, r)
  BY <1>1, <1>2, KeepsPage, SynchronizeIs DEF Keeps
<1> HIDE DEF r
<1>4. QED
  BY <1>1, <1>2, <1>3, RunAfter, RunQuiet

LEMMA TimerFiresIs ==
  ASSUME Base, NEW t \in Threads, TimerFires(t) PROVE Quiet /\ Moved({t}) /\ server' = server
<1> DEFINE y == [m EXCEPT !.timer = FALSE]
           r == Synchronize(y, <<At("reconnect")>>)
<1>1. Steps(t, r) /\ server' = server /\ m.state # None /\ Running(m) /\ Page(m)
  BY DEF TimerFires, Base, Running
<1>2. Keeps(m, y)
  BY <1>1, SameSelf DEF Keeps, Running, Page, Typed, Shown, Same, Fields
<1> HIDE DEF y
<1>3. Run(y, r)
  BY <1>1, <1>2, KeepsPage, SynchronizeIs DEF Keeps
<1> HIDE DEF r
<1>4. QED
  BY <1>1, <1>2, <1>3, RunAfter, RunQuiet

LEMMA SynchronizePublicIs ==
  ASSUME NEW x, Running(x), Page(x) PROVE Run(x, SynchronizePublic(x))
<1> DEFINE y == [x EXCEPT !.publicSync = TRUE]
<1>1. Keeps(x, y) /\ Keeps(x, x)
  BY SameSelf DEF Keeps, Running, Page, Typed, Shown, Same, Fields
<1> HIDE DEF y
<1>2. Run(x, Runs(x, NoCall))
  BY <1>1, RunsIs DEF Run, Fresh
<1>3. Run(x, Synchronize(y, <<At("public")>>))
  BY <1>1, KeepsPage, SynchronizeIs, RunAfter DEF Keeps
<1>4. QED
  BY <1>2, <1>3 DEF SynchronizePublic, y

LEMMA PublicIs ==
  ASSUME NEW x, NEW s, Running(x), Page(x), x.state # None, IsSnapshot(s)
  PROVE  Keeps(x, [Public(x, s) EXCEPT !.connection = "ok"])
<1>1. IsState(x.state) /\ x.state.version \in Nat /\ s.version \in Nat /\ s.shown \in 0..Questions
  BY DEF Page, Typed, IsState, IsSnapshot
<1>2. Keeps(x, Public(x, s))
  <2>1. CASE s.version > x.state.version
    <3> DEFINE v == [x.state EXCEPT !.version = s.version, !.shown = s.shown]
               y == [x EXCEPT !.state.version = s.version, !.state.shown = s.shown]
    <3>1. IsState(v) /\ v.epoch = x.state.epoch /\ v.receipts = x.state.receipts
      BY <1>1 DEF IsState
    <3>2. v # None
      BY <3>1, NoneIs
    <3>3. y.state = v
      BY <1>1 DEF Running, Fields, IsState
    <3>4. /\ DOMAIN y = Fields
          /\ y.connection = x.connection /\ y.submission = x.submission /\ y.ws = x.ws
          /\ y.pending = x.pending /\ y.saved = x.saved /\ y.feedback = x.feedback /\ y.selected = x.selected
          /\ y.dismissal = x.dismissal /\ y.dismissedVersion = x.dismissedVersion /\ y.uuids = x.uuids
          /\ y.privateVersion = x.privateVersion
      BY DEF Running, Fields
    <3>5. Public(x, s) = y
      BY <2>1 DEF Public
    <3> HIDE DEF y, v
    <3>6. Running(y)
      BY <3>2, <3>3, <3>4 DEF Running
    <3>7. QED
      BY <3>1, <3>2, <3>3, <3>4, <3>5, <3>6 DEF Keeps, Same
  <2>2. CASE ~(s.version > x.state.version)
    BY <2>2, SameSelf DEF Public, Keeps
  <2>3. QED
    BY <2>1, <2>2
<1>3. PICK y : y = Public(x, s)
  OBVIOUS
<1>4. Keeps(x, [y EXCEPT !.connection = "ok"])
  BY <1>2, <1>3 DEF Keeps, Running, Same, Fields
<1>5. QED
  BY <1>3, <1>4

LEMMA ReceiveIs ==
  ASSUME Base, NEW t \in Threads, Receive(t) PROVE Quiet /\ Moved({t}) /\ server' = server
<1> DEFINE x == [m EXCEPT !.ws.message = None]
           message == m.ws.message
           r == Receives(x, message)
<1>1. /\ Steps(t, r) /\ server' = server /\ Running(m) /\ Page(m)
      /\ m.ws # NoSocket /\ message # None
  BY DEF Receive, Base
<1>2. m.state # None /\ (message = ResetRequired \/ IsSnapshot(message)) /\ DOMAIN m.ws = {"epoch", "message"}
  BY <1>1 DEF Running, IsSocket
<1>3. Keeps(m, x)
  <2>1. /\ DOMAIN x = Fields /\ x.ws = [m.ws EXCEPT !.message = None]
        /\ x.state = m.state /\ x.connection = m.connection /\ x.submission = m.submission
        /\ x.pending = m.pending /\ x.saved = m.saved /\ x.feedback = m.feedback /\ x.selected = m.selected
        /\ x.dismissal = m.dismissal /\ x.dismissedVersion = m.dismissedVersion /\ x.uuids = m.uuids
        /\ x.privateVersion = m.privateVersion
    BY <1>1 DEF Running, Fields
  <2>2. IsSocket(x.ws)
    BY <1>2, <2>1 DEF IsSocket
  <2> HIDE DEF x
  <2>3. Running(x)
    BY <1>1, <1>2, <2>1, <2>2 DEF Running
  <2>4. Same(m, x)
    BY <1>1, <1>2, <2>1 DEF Same, Page, Typed
  <2>5. QED
    BY <2>1, <2>3, <2>4 DEF Keeps
<1> HIDE DEF x
<1>4. Running(x) /\ Page(x) /\ x.state # None
  BY <1>1, <1>2, <1>3, KeepsPage DEF Keeps, Same
<1>5. Run(x, r)
  <2> DEFINE y == [Public(x, message) EXCEPT !.connection = "ok"]
             f == Fail(x, "EPOCH_MISMATCH")
  <2>1. \/ r = Runs(f, NoCall) \/ r = SynchronizePublic(x) \/ r = Runs(x, NoCall)
        \/ message # ResetRequired /\ (r = SynchronizePublic(y) \/ r = Runs(y, NoCall))
    BY DEF Receives
  <2>2. Keeps(x, f) /\ Keeps(x, x)
    BY <1>4, FailIs, SameSelf DEF Keeps
  <2>3. message # ResetRequired => Keeps(x, y)
    BY <1>2, <1>4, PublicIs
  <2> HIDE DEF y, f, r, message
  <2>4. Run(x, Runs(f, NoCall)) /\ Run(x, Runs(x, NoCall)) /\ Run(x, SynchronizePublic(x))
    BY <1>4, <2>2, RunsIs, SynchronizePublicIs DEF Run, Fresh
  <2>5. Keeps(x, y) => Run(x, Runs(y, NoCall)) /\ Run(x, SynchronizePublic(y))
    BY <1>4, RunsIs, SynchronizePublicIs, KeepsPage, RunAfter DEF Run, Fresh, Keeps
  <2>6. QED
    BY <2>1, <2>3, <2>4, <2>5
<1> HIDE DEF r
<1>6. QED
  BY <1>1, <1>2, <1>3, <1>5, RunAfter, RunQuiet

LEMMA SelectIs == ASSUME Base, Select PROVE Quiet /\ Moved({}) /\ server' = server
<1> DEFINE key == Key(m.state.epoch, Question(m))
<1>1. /\ m' = [m EXCEPT !.selected = key] /\ server' = server /\ calls' = calls
      /\ m.state # None /\ CurrentQuestion(m.state) # 0 /\ m.pending = None /\ m.feedback = None
      /\ Running(m) /\ Page(m) /\ CallsOK
  BY DEF Select, CanSelect, Base
<1>2. key = Key(m.state.epoch, Len(m.state.receipts) + 1)
  BY <1>1, QuestionIs
<1> HIDE DEF key
<1>3. /\ DOMAIN m' = Fields /\ m'.selected = key
      /\ m'.state = m.state /\ m'.connection = m.connection /\ m'.submission = m.submission /\ m'.ws = m.ws
      /\ m'.pending = m.pending /\ m'.saved = m.saved /\ m'.feedback = m.feedback
      /\ m'.dismissal = m.dismissal /\ m'.dismissedVersion = m.dismissedVersion /\ m'.uuids = m.uuids
      /\ m'.privateVersion = m.privateVersion
      /\ m'.appliedSequence = m.appliedSequence /\ m'.requestSequence = m.requestSequence
  BY <1>1 DEF Running, Fields
<1>4. Running(m')
  BY <1>1, <1>3 DEF Running
<1>5. Same(m, m')
  BY <1>1, <1>3 DEF Same, Page, Typed
<1>6. Page(m')
  <2>1. Typed(m') /\ (m'.state # None => m'.saved = m'.pending)
    BY <1>1, <1>3 DEF Page, Typed
  <2>2. Shown(m')
    BY <1>1, <1>2, <1>3 DEF Shown
  <2>3. QED
    BY <2>1, <2>2 DEF Page
<1>7. Moved({})
  BY <1>1, <1>3, StaysMoved
<1>8. QED
  BY <1>1, <1>4, <1>5, <1>6, <1>7 DEF Quiet

\* A step that only changes the socket, the timer and the connection.
LEMMA SocketIs ==
  ASSUME Base, server' = server, calls' = calls, DOMAIN m' = Fields, m.state # None, IsSocket(m'.ws),
         m'.connection \in {"ok", "unavailable", "reset"},
         \A f \in Fields \ {"ws", "timer", "connection"} : m'[f] = m[f]
  PROVE  Quiet /\ Moved({}) /\ server' = server
<1>1. Running(m) /\ Page(m) /\ CallsOK
  BY DEF Base
<1>2. /\ m'.state = m.state /\ m'.submission = m.submission
      /\ m'.pending = m.pending /\ m'.saved = m.saved /\ m'.feedback = m.feedback /\ m'.selected = m.selected
      /\ m'.dismissal = m.dismissal /\ m'.dismissedVersion = m.dismissedVersion /\ m'.uuids = m.uuids
      /\ m'.privateVersion = m.privateVersion
      /\ m'.appliedSequence = m.appliedSequence /\ m'.requestSequence = m.requestSequence
  BY DEF Fields
<1>3. Running(m')
  BY <1>1, <1>2 DEF Running
<1>4. Keeps(m, m')
  BY <1>1, <1>2, <1>3 DEF Keeps, Same, Page, Typed
<1>5. Moved({})
  BY <1>1, <1>2, StaysMoved
<1>6. QED
  BY <1>1, <1>4, <1>5, KeepsPage DEF Quiet, Keeps

LEMMA AdmitIs == ASSUME Base, Admit PROVE Quiet /\ Moved({}) /\ server' = server
<1>1. /\ m.ws = Opening /\ m' = [m EXCEPT !.ws.epoch = server.epoch] /\ server' = server /\ calls' = calls
      /\ Running(m)
  BY DEF Admit, Base
<1>2. DOMAIN Opening = {"epoch", "message"} /\ Opening.message = None /\ Opening # NoSocket
  <2>1. DOMAIN Opening = {"epoch", "message"} /\ Opening.message = None /\ DOMAIN NoSocket = {"epoch"}
    BY DEF Opening, NoSocket
  <2>2. QED
    BY <2>1
<1>3. m.state # None
  BY <1>1, <1>2 DEF Running
<1>4. m'.ws = [Opening EXCEPT !.epoch = server.epoch]
  BY <1>1 DEF Running, Fields
<1>5. IsSocket(m'.ws)
  BY <1>2, <1>4 DEF IsSocket
<1>6. /\ DOMAIN m' = Fields /\ m'.connection = m.connection
      /\ \A f \in Fields \ {"ws", "timer", "connection"} : m'[f] = m[f]
  BY <1>1 DEF Running, Fields
<1>7. QED
  BY <1>1, <1>3, <1>5, <1>6, SocketIs DEF Running

LEMMA PushIs == ASSUME Base, Push PROVE Quiet /\ Moved({}) /\ server' = server
<1> DEFINE snapshot == [epoch |-> server.epoch, version |-> server.version, shown |-> Len(server.receipts)]
           message == IF server.epoch = m.ws.epoch THEN snapshot ELSE ResetRequired
<1>1. /\ m.ws # NoSocket /\ m' = [m EXCEPT !.ws.message = message] /\ server' = server /\ calls' = calls
      /\ Running(m) /\ IsServer(server)
  BY DEF Push, Base
<1>2. m.state # None /\ DOMAIN m.ws = {"epoch", "message"}
  BY <1>1 DEF Running, IsSocket
<1>3. IsSnapshot(snapshot)
  BY <1>1, QuestionsIs DEF IsServer, IsSnapshot
<1>4. message = ResetRequired \/ IsSnapshot(message)
  BY <1>3
<1> HIDE DEF message
<1>5. m'.ws = [m.ws EXCEPT !.message = message]
  BY <1>1 DEF Running, Fields
<1>6. IsSocket(m'.ws)
  BY <1>2, <1>4, <1>5 DEF IsSocket
<1>7. /\ DOMAIN m' = Fields /\ m'.connection = m.connection
      /\ \A f \in Fields \ {"ws", "timer", "connection"} : m'[f] = m[f]
  BY <1>1 DEF Running, Fields
<1>8. QED
  BY <1>1, <1>2, <1>6, <1>7, SocketIs DEF Running

LEMMA SocketFailsIs == ASSUME Base, SocketFails PROVE Quiet /\ Moved({}) /\ server' = server
<1>1. m.ws # NoSocket /\ m' = ScheduleReconnect(m) /\ server' = server /\ calls' = calls /\ Running(m)
  BY DEF SocketFails, Base
<1>2. m.state # None
  BY <1>1 DEF Running
<1>3. /\ DOMAIN m' = Fields /\ m'.ws = NoSocket /\ (m'.connection = m.connection \/ m'.connection = "ok")
      /\ \A f \in Fields \ {"ws", "timer", "connection"} : m'[f] = m[f]
  BY <1>1 DEF Running, Fields, ScheduleReconnect, CloseSocket
<1>4. QED
  BY <1>1, <1>2, <1>3, SocketIs DEF Running, IsSocket

\* A new page: only what sessionStorage keeps, and the requests of before are dead.
Arrives(t) ==
  /\ Free(t) /\ server' = server /\ Running(m') /\ Page(m')
  /\ m'.state = None /\ m'.pending = None /\ m'.feedback = None
  /\ m'.saved = m.saved /\ m'.dismissal = m.dismissal /\ m'.uuids = m.uuids
  /\ m'.appliedSequence = 0 /\ m'.requestSequence \in Nat
  /\ DOMAIN calls' = Threads
  /\ \A u \in Threads \ {t} : Alike(calls[u], calls'[u]) /\ (calls'[u] # NoCall => ~calls'[u].alive)
  /\ IsCall(calls'[t]) /\ calls'[t].on = "join" /\ calls'[t].reply = NoReply /\ ~calls'[t].reply.ok

LEMMA JoinIs == ASSUME Base, NEW t \in Threads, Join(t) PROVE Arrives(t)
<1> DEFINE stopped == [u \in Threads |-> IF Free(u) THEN NoCall ELSE [calls[u] EXCEPT !.alive = FALSE]]
           x == [Blank EXCEPT !.busy = TRUE, !.saved = m.saved, !.dismissal = m.dismissal, !.uuids = m.uuids]
           c == Call("join", None, 0, 0, << >>)
           cs == [stopped EXCEPT ![t] = c]
<1>1. Free(t) /\ Renumbered(x, cs) /\ server' = server /\ Page(m) /\ CallsOK
  BY DEF Join, Base
<1>2. /\ DOMAIN x = Fields /\ x.state = None /\ x.pending = None /\ x.feedback = None /\ x.selected = None
      /\ x.saved = m.saved /\ x.dismissal = m.dismissal /\ x.uuids = m.uuids /\ x.privateVersion = 0
      /\ x.dismissedVersion = 0 /\ x.connection = "ok" /\ x.submission = "idle" /\ x.ws = NoSocket
      /\ x.timer = FALSE
  BY DEF Blank, Fields
<1>3. Running(x) /\ Page(x)
  BY <1>1, <1>2 DEF Running, IsSocket, Page, Typed, Shown
<1>4. /\ IsCall(c) /\ c.on = "join" /\ c.reply = NoReply
  <2>1. /\ DOMAIN c = {"on", "key", "id", "sequence", "then", "reply", "alive"}
        /\ c.on = "join" /\ c.key = None /\ c.reply = NoReply /\ c.reply.ok = FALSE /\ c.alive = TRUE
    BY DEF Call, NoReply
  <2>2. QED
    BY <2>1 DEF IsCall, HasState, HasReceipt
<1>5. ASSUME NEW u \in Threads \ {t}
      PROVE  /\ cs[u] = NoCall \/ IsCall(cs[u])
             /\ Alike(calls[u], cs[u]) /\ (cs[u] # NoCall => cs[u].alive = FALSE)
  <2>1. cs[u] = (IF Free(u) THEN NoCall ELSE [calls[u] EXCEPT !.alive = FALSE])
    BY <1>5
  <2>2. CASE Free(u)
    BY <2>1, <2>2 DEF Alike, Free
  <2>3. CASE ~Free(u)
    <3>1. PICK b : b = calls[u]
      OBVIOUS
    <3>2. PICK d : d = [b EXCEPT !.alive = FALSE]
      OBVIOUS
    <3>3. IsCall(b) /\ b # NoCall
      BY <1>1, <2>3, <3>1 DEF CallsOK, Free
    <3>4. /\ DOMAIN d = {"on", "key", "id", "sequence", "then", "reply", "alive"}
          /\ d.on = b.on /\ d.key = b.key /\ d.id = b.id /\ d.reply = b.reply /\ d.alive = FALSE
      BY <3>2, <3>3 DEF IsCall
    <3>5. IsCall(d) /\ d # NoCall
      <4>1. d # NoCall
        BY <3>3, <3>4 DEF IsCall, NoCall
      <4>2. IsCall(d)
        BY <3>3, <3>4, <4>1 DEF IsCall, HasState, HasReceipt
      <4>3. QED
        BY <4>1, <4>2
    <3>6. Alike(b, d)
      BY <3>3, <3>4, <3>5 DEF Alike
    <3>7. QED
      BY <2>1, <2>3, <3>1, <3>2, <3>4, <3>5, <3>6
  <2>4. QED
    BY <2>2, <2>3
<1>6. cs[t] = c
  OBVIOUS
<1> HIDE DEF cs, x, c
<1>7. \A u \in Threads : cs[u] = NoCall \/ IsCall(cs[u])
  BY <1>4, <1>5, <1>6
<1>8. /\ Keeps(x, m') /\ m'.appliedSequence = 0 /\ m'.requestSequence \in Nat
      /\ DOMAIN calls' = Threads /\ \A u \in Threads : Alike(cs[u], calls'[u])
  BY <1>1, <1>3, <1>7, RenumberedIs
<1>9. ASSUME NEW u \in Threads \ {t}
      PROVE  Alike(calls[u], calls'[u]) /\ (calls'[u] # NoCall => ~calls'[u].alive)
  <2>1. Alike(calls[u], cs[u]) /\ (cs[u] # NoCall => cs[u].alive = FALSE) /\ Alike(cs[u], calls'[u])
    BY <1>5, <1>8
  <2>2. QED
    BY <2>1 DEF Alike, IsCall
<1>10. IsCall(calls'[t]) /\ calls'[t].on = "join" /\ calls'[t].reply = NoReply /\ ~calls'[t].reply.ok
  <2>1. Alike(c, calls'[t]) /\ c # NoCall
    BY <1>4, <1>6, <1>8, CallIsNot
  <2>2. QED
    BY <1>4, <2>1, NoneIs DEF Alike
<1>11. /\ Running(m') /\ Page(m') /\ m'.state = None /\ m'.pending = None /\ m'.feedback = None
       /\ m'.saved = m.saved /\ m'.dismissal = m.dismissal /\ m'.uuids = m.uuids
  BY <1>2, <1>3, <1>8, KeepsPage DEF Keeps, Same
<1>12. QED
  BY <1>1, <1>8, <1>9, <1>10, <1>11 DEF Arrives

(***************************************************************************)
(* The server's side: its receipts grow, unless the room is reset.         *)
(***************************************************************************)
Grows(s, z) ==
  /\ IsServer(z)
  /\ \/ z.epoch > s.epoch /\ z.receipts = << >>
     \/ /\ z.epoch = s.epoch /\ z.version >= s.version /\ Len(z.receipts) >= Len(s.receipts)
        /\ s.refused \subseteq z.refused
        /\ \A i \in 1..Len(s.receipts) : z.receipts[i] = s.receipts[i]
        /\ \A i \in (Len(s.receipts) + 1)..Len(z.receipts) : z.receipts[i].version > s.version

LEMMA ServerIs ==
  ASSUME NEW s, IsServer(s)
  PROVE  /\ Len(s.receipts) \in 0..Questions /\ DOMAIN s.receipts = 1..Len(s.receipts)
         /\ Len(s.receipts) \in Nat /\ s.epoch \in Nat \ {0} /\ s.epoch \in Nat /\ s.version \in Nat
         /\ \A i \in 1..Len(s.receipts) : s.receipts[i].version \in Nat /\ s.receipts[i].id \in Nat
         /\ \A i \in 1..Len(s.receipts) : s.receipts[i].version <= s.version
<1> DEFINE R == [version : Nat, id : Nat]
           r == s.receipts
<1>1. r \in Seq(R)
  BY DEF IsServer
<1> HIDE DEF R, r
<1>2. Len(r) \in Nat /\ DOMAIN r = 1..Len(r) /\ \A i \in 1..Len(r) : r[i] \in R
  BY <1>1
<1>3. \A i \in 1..Len(r) : r[i].version \in Nat /\ r[i].id \in Nat
  BY <1>2 DEF R
<1>4. /\ Len(r) <= Questions /\ s.epoch \in Nat \ {0} /\ s.version \in Nat
      /\ \A i \in 1..Len(r) : r[i].version <= s.version
  BY DEF IsServer, r
<1>5. Len(r) \in 0..Questions
  BY <1>2, <1>4, QuestionsIs
<1>6. QED
  BY <1>2, <1>3, <1>4, <1>5 DEF r

LEMMA StateIs ==
  ASSUME NEW s, IsServer(s)
  PROVE  /\ IsState(State(s)) /\ State(s).epoch = s.epoch /\ State(s).version = s.version
         /\ Len(State(s).receipts) = Len(s.receipts)
         /\ \A i \in 1..Len(s.receipts) : State(s).receipts[i] = s.receipts[i].version
<1> DEFINE r == [i \in DOMAIN s.receipts |-> s.receipts[i].version]
           n == Len(s.receipts)
<1>1. /\ n \in 0..Questions /\ DOMAIN s.receipts = 1..n
      /\ \A i \in 1..n : s.receipts[i].version \in Nat
  BY ServerIs
<1>2. r \in [1..n -> Nat]
  BY <1>1
<1>3. r \in Seq(Nat) /\ Len(r) = n
  BY <1>1, <1>2
<1>4. \A i \in 1..n : r[i] = s.receipts[i].version
  BY <1>1
<1>5. State(s) = [epoch |-> s.epoch, version |-> s.version, shown |-> n, receipts |-> r]
  BY DEF State
<1> HIDE DEF r, n
<1>6. /\ DOMAIN State(s) = {"epoch", "version", "shown", "receipts"}
      /\ State(s).epoch = s.epoch /\ State(s).version = s.version /\ State(s).shown = n /\ State(s).receipts = r
  BY <1>5
<1>7. IsState(State(s))
  BY <1>1, <1>3, <1>6, QuestionsIs DEF IsState, IsServer
<1>8. QED
  BY <1>3, <1>4, <1>6, <1>7 DEF n

\* The same receipts in the same epoch.
LEMMA GrowsIf ==
  ASSUME NEW s, NEW z, IsServer(s), DOMAIN z = DOMAIN s, z.epoch = s.epoch, z.receipts = s.receipts,
         z.version \in Nat, z.version >= s.version, s.refused \subseteq z.refused
  PROVE  Grows(s, z)
<1>1. /\ Len(s.receipts) \in 0..Questions /\ s.version \in Nat
      /\ \A i \in 1..Len(s.receipts) : s.receipts[i].version \in Nat
  BY ServerIs DEF IsServer
<1>2. \A i \in 1..Len(s.receipts) : s.receipts[i].version <= z.version
  BY <1>1 DEF IsServer
<1>3. IsServer(z)
  BY <1>2 DEF IsServer
<1>4. QED
  BY <1>1, <1>3, QuestionsIs DEF Grows

LEMMA JoinedIs ==
  ASSUME NEW s, IsServer(s)
  PROVE  /\ Grows(s, Joined(s)) /\ Joined(s).epoch = s.epoch /\ Joined(s).receipts = s.receipts
         /\ Joined(s).refused = s.refused
<1>1. /\ DOMAIN Joined(s) = DOMAIN s /\ Joined(s).epoch = s.epoch /\ Joined(s).receipts = s.receipts
      /\ Joined(s).refused = s.refused /\ Joined(s).version \in {s.version, s.version + 1} /\ s.version \in Nat
  BY DEF Joined, IsServer
<1>2. Joined(s).version \in Nat /\ Joined(s).version >= s.version
  BY <1>1
<1>3. QED
  BY <1>1, <1>2, GrowsIf

LEMMA AnsweredIs ==
  ASSUME NEW s, NEW id \in Nat, NEW z, IsServer(s), Len(s.receipts) < Questions,
         DOMAIN z = DOMAIN s, z.epoch = s.epoch, z.version = s.version + 1, z.refused = s.refused,
         z.receipts = Append(s.receipts, [version |-> s.version + 1, id |-> id])
  PROVE  /\ Grows(s, z) /\ Len(z.receipts) = Len(s.receipts) + 1
         /\ z.receipts[Len(s.receipts) + 1].id = id
<1> DEFINE n == Len(s.receipts)
           r == [version |-> s.version + 1, id |-> id]
<1>1. /\ n \in 0..Questions /\ s.version \in Nat /\ s.receipts \in Seq([version : Nat, id : Nat])
      /\ \A i \in 1..n : s.receipts[i].version \in Nat /\ s.receipts[i].version <= s.version
  BY ServerIs DEF IsServer
<1>2. r \in [version : Nat, id : Nat] /\ r.version = s.version + 1 /\ r.id = id
  BY <1>1
<1> HIDE DEF r
<1>3. /\ z.receipts \in Seq([version : Nat, id : Nat]) /\ Len(z.receipts) = n + 1
      /\ \A i \in 1..n : z.receipts[i] = s.receipts[i]
      /\ z.receipts[n + 1] = r
  BY <1>1, <1>2 DEF r
<1> HIDE DEF n
<1>4. \A i \in 1..(n + 1) : z.receipts[i].version <= z.version
  <2>1. ASSUME NEW i \in 1..n PROVE z.receipts[i].version <= z.version
    <3>1. z.receipts[i].version \in Nat /\ z.receipts[i].version <= s.version
      BY <1>1, <1>3
    <3>2. \A v \in Nat : v <= s.version => v <= z.version
      BY <1>1
    <3>3. QED
      BY <3>1, <3>2
  <2>2. z.receipts[n + 1].version <= z.version
    BY <1>1, <1>2, <1>3
  <2>3. \A i \in 1..(n + 1) : i \in 1..n \/ i = n + 1
    BY <1>1
  <2>4. QED
    BY <2>1, <2>2, <2>3
<1>5. IsServer(z)
  <2>1. DOMAIN z = {"epoch", "joined", "version", "receipts", "clocks", "refused"}
    BY DEF IsServer
  <2>2. z.epoch \in Nat \ {0} /\ z.version \in Nat
    BY <1>1 DEF IsServer
  <2>3. n + 1 <= Questions
    BY <1>1, QuestionsIs DEF n
  <2>4. QED
    BY <1>3, <1>4, <2>1, <2>2, <2>3 DEF IsServer
<1>6. \A i \in (n + 1)..Len(z.receipts) : z.receipts[i].version > s.version
  BY <1>1, <1>2, <1>3
<1>7. Grows(s, z)
  BY <1>1, <1>3, <1>5, <1>6 DEF Grows, n
<1>8. QED
  BY <1>2, <1>3, <1>7 DEF n

(***************************************************************************)
(* What a request gets: a copy of the server's state, a receipt it has,    *)
(* or an error.  Only an answer to the next question adds a receipt.       *)
(***************************************************************************)
Gets(s, z, c, reply) ==
  /\ Grows(s, z) /\ z.epoch = s.epoch /\ z.refused = s.refused
  /\ reply.ok \in BOOLEAN /\ reply # NoReply
  /\ ~reply.ok /\ reply.code = "refused" => c.id \in z.refused
  /\ reply.ok /\ c.on \in {"state", "join", "resync"} => reply.state = State(z)
  /\ reply.ok /\ c.on = "answer" =>
       c.key.epoch = z.epoch /\ c.key.q <= Len(z.receipts) /\ reply.receipt = ReceiptOf(State(z), c.key.q)
  /\ \/ z.receipts = s.receipts
     \/ /\ c.on = "answer" /\ c.key.epoch = s.epoch /\ c.key.q = Len(s.receipts) + 1 /\ c.id \notin s.refused
        /\ Len(z.receipts) = Len(s.receipts) + 1 /\ z.receipts[Len(s.receipts) + 1].id = c.id

LEMMA ErrorIs ==
  ASSUME NEW code, code # "none"
  PROVE  Error(code).ok = FALSE /\ Error(code) # NoReply /\ Error(code).code = code
<1>1. Error(code).ok = FALSE /\ Error(code).code = code /\ NoReply.code = "none"
  BY DEF Error, NoReply
<1>2. QED
  BY <1>1

LEMMA ServedIs ==
  ASSUME NEW s, NEW c, IsServer(s), IsCall(c),
         c.on = "answer" => Within(c.key, s.epoch, Len(s.receipts)),
         NEW z, NEW reply, z = Served(s, c).server, reply = Served(s, c).reply
  PROVE  Gets(s, z, c, reply)
<1>1. c.on \in {"join", "state", "resync", "start", "answer"}
  BY DEF IsCall
<1>2. Grows(s, s)
  BY GrowsIf DEF IsServer
<1>3. ASSUME z = s,
             \E code \in {"EPOCH_MISMATCH", "NOT_JOINED", "QUESTION_ALREADY_ANSWERED"} : reply = Error(code)
      PROVE  Gets(s, z, c, reply)
  <2>1. reply.ok = FALSE /\ reply # NoReply /\ reply.code # "refused"
    BY <1>3, ErrorIs
  <2>2. QED
    BY <1>2, <1>3, <2>1 DEF Gets
<1>4. CASE c.on = "join"
  <2>1. z = Joined(s) /\ reply = [ok |-> TRUE, state |-> State(Joined(s))]
    BY <1>4 DEF Served
  <2>2. reply.ok = TRUE /\ reply.state = State(Joined(s))
    BY <2>1
  <2>3. reply # NoReply
    BY <2>2, NoneIs
  <2>4. QED
    BY <1>4, <2>1, <2>2, <2>3, JoinedIs DEF Gets
<1>5. CASE c.on # "join" /\ c.key # None /\ c.on # "resync" /\ c.key.epoch # s.epoch
  <2>1. z = s /\ reply = Error("EPOCH_MISMATCH")
    BY <1>5 DEF Served
  <2>2. QED
    BY <1>3, <2>1
<1>6. CASE /\ c.on # "join" /\ ~(c.key # None /\ c.on # "resync" /\ c.key.epoch # s.epoch)
           /\ ~s.joined
  <2>1. z = s /\ reply = Error("NOT_JOINED")
    BY <1>6 DEF Served
  <2>2. QED
    BY <1>3, <2>1
<1>7. CASE /\ c.on # "join" /\ ~(c.key # None /\ c.on # "resync" /\ c.key.epoch # s.epoch)
           /\ s.joined
  <2>1. CASE c.on \in {"state", "resync"}
    <3>1. z = s /\ reply = [ok |-> TRUE, state |-> State(s)]
      BY <1>7, <2>1 DEF Served
    <3>2. reply.ok = TRUE /\ reply.state = State(s)
      BY <3>1
    <3>3. reply # NoReply
      BY <3>2, NoneIs
    <3>4. QED
      BY <1>2, <2>1, <3>1, <3>2, <3>3 DEF Gets
  <2>2. CASE c.on = "start" /\ c.key.q \notin s.clocks /\ c.key.q <= Len(s.receipts)
    <3>1. z = s /\ reply = Error("QUESTION_ALREADY_ANSWERED")
      BY <1>7, <2>2 DEF Served
    <3>2. QED
      BY <1>3, <3>1
  <2>3. CASE c.on = "start" /\ ~(c.key.q \notin s.clocks /\ c.key.q <= Len(s.receipts))
    <3>1. z = [s EXCEPT !.clocks = @ \cup {c.key.q}] /\ reply = [ok |-> TRUE, clock |-> c.key]
      BY <1>7, <2>3 DEF Served
    <3>2. reply.ok = TRUE
      BY <3>1
    <3>3. /\ DOMAIN z = DOMAIN s /\ z.epoch = s.epoch /\ z.receipts = s.receipts /\ z.version = s.version
          /\ z.refused = s.refused /\ s.version \in Nat
      BY <3>1 DEF IsServer
    <3>4. reply # NoReply
      BY <3>2, NoneIs
    <3>5. Grows(s, z)
      BY <3>3, GrowsIf
    <3>6. QED
      BY <2>3, <3>2, <3>3, <3>4, <3>5 DEF Gets
  <2>4. CASE c.on = "answer" /\ c.id \in s.refused
    <3>1. z = s /\ reply = Error("refused")
      <4>1. Served(s, c) = [server |-> s, reply |-> Error("refused")]
        BY <1>7, <2>4 DEF Served
      <4>2. QED
        BY <4>1
    <3>2. reply.ok = FALSE /\ reply # NoReply /\ reply.code = "refused"
      <4>1. PICK code : code = "refused"
        OBVIOUS
      <4>2. code # "none"
        BY <4>1
      <4>3. Error(code).ok = FALSE /\ Error(code) # NoReply /\ Error(code).code = code
        BY <4>2, ErrorIs
      <4>4. QED
        BY <3>1, <4>1, <4>3
    <3>3. QED
      BY <1>2, <2>4, <3>1, <3>2 DEF Gets
  <2>5. CASE c.on = "answer" /\ c.id \notin s.refused
    <3> DEFINE after == IF c.key.q <= Len(s.receipts) THEN s ELSE Answered(s, c.id)
    <3>1. z = after /\ reply = [ok |-> TRUE, receipt |-> ReceiptOf(State(after), c.key.q)]
      BY <1>7, <2>5 DEF Served
    <3>2. reply.ok = TRUE /\ reply.receipt = ReceiptOf(State(after), c.key.q)
      BY <3>1
    <3>3. IsKey(c.key) /\ c.key.epoch = s.epoch /\ c.id \in Nat /\ c.key.q \in 1..Questions
      BY <1>7, <2>5, NoneIs DEF IsCall, IsKey
    <3>4. reply # NoReply
      BY <3>2, NoneIs
    <3>5. CASE c.key.q <= Len(s.receipts)
      <4>1. after = s
        BY <3>5
      <4>2. QED
        BY <1>2, <2>5, <3>1, <3>2, <3>3, <3>4, <3>5, <4>1 DEF Gets
    <3>6. CASE ~(c.key.q <= Len(s.receipts))
      <4>1. Len(s.receipts) \in 0..Questions
        BY ServerIs
      <4>2. c.key.q = Len(s.receipts) + 1 /\ Len(s.receipts) < Questions
        BY <2>5, <3>3, <3>6, <4>1, QuestionsIs DEF Within
      <4>3. after = Answered(s, c.id)
        BY <3>6
      <4>4. /\ DOMAIN after = DOMAIN s /\ after.epoch = s.epoch /\ after.version = s.version + 1
            /\ after.refused = s.refused
            /\ after.receipts = Append(s.receipts, [version |-> s.version + 1, id |-> c.id])
        BY <4>3 DEF Answered, IsServer
      <4> HIDE DEF after
      <4>5. /\ Grows(s, after) /\ Len(after.receipts) = Len(s.receipts) + 1
            /\ after.receipts[Len(s.receipts) + 1].id = c.id
        BY <3>3, <4>2, <4>4, AnsweredIs
      <4>6. QED
        BY <2>5, <3>1, <3>2, <3>3, <3>4, <4>1, <4>2, <4>4, <4>5 DEF Gets
    <3>7. QED
      BY <3>5, <3>6
  <2>6. QED
    BY <1>1, <1>7, <2>1, <2>2, <2>3, <2>4, <2>5
<1>8. QED
  BY <1>4, <1>5, <1>6, <1>7

\* A request as it was, or with a reply from the server as it now is.
Progressed(c, d, s) ==
  \/ c = NoCall /\ d = NoCall
  \/ /\ c # NoCall /\ d # NoCall /\ IsCall(d)
     /\ d.on = c.on /\ d.key = c.key /\ d.id = c.id /\ d.alive = c.alive
     /\ \/ d.reply = c.reply
        \/ /\ d.reply # NoReply
           /\ ~d.reply.ok /\ d.reply.code = "refused" => d.id \in s.refused
           /\ HasState(d) => d.reply.state = State(s)
           /\ HasReceipt(d) =>
                /\ d.key.epoch = s.epoch /\ d.key.q \in 1..Len(s.receipts)
                /\ d.reply.receipt = ReceiptOf(State(s), d.key.q)

Clean(s) == \A i \in 1..Len(s.receipts) : s.receipts[i].id # 0 => s.receipts[i].id \notin s.refused

ServerStep ==
  /\ m' = m /\ DOMAIN calls' = Threads /\ Grows(server, server') /\ Clean(server')
  /\ \A u \in Threads : Progressed(calls[u], calls'[u], server')
  /\ server'.epoch = server.epoch =>
       \A i \in (Len(server.receipts) + 1)..Len(server'.receipts) : server'.receipts[i].id # 0 =>
         \E u \in Threads : Open(u) /\ calls[u].id = server'.receipts[i].id /\ calls[u].key.q = i

LEMMA ReplyIs ==
  ASSUME NEW c, IsCall(c), NEW reply, reply.ok \in BOOLEAN, NEW d, d = [c EXCEPT !.reply = reply],
         reply.ok /\ c.on \in {"state", "join", "resync"} => IsState(reply.state),
         reply.ok /\ c.on = "answer" =>
           IsReceipt(reply.receipt) /\ reply.receipt.epoch = c.key.epoch /\ reply.receipt.q = c.key.q
  PROVE  /\ IsCall(d) /\ d # NoCall /\ c # NoCall
         /\ d.on = c.on /\ d.key = c.key /\ d.id = c.id /\ d.alive = c.alive /\ d.reply = reply
<1>1. /\ DOMAIN d = {"on", "key", "id", "sequence", "then", "reply", "alive"}
      /\ d.on = c.on /\ d.key = c.key /\ d.id = c.id /\ d.alive = c.alive /\ d.reply = reply
  BY DEF IsCall
<1>2. c # NoCall /\ d # NoCall
  BY <1>1 DEF IsCall, NoCall
<1>3. IsCall(d)
  BY <1>1, <1>2 DEF IsCall, HasState, HasReceipt
<1>4. QED
  BY <1>1, <1>2, <1>3

LEMMA SameProgressed ==
  ASSUME CallsOK, NEW u \in Threads, NEW s PROVE Progressed(calls[u], calls[u], s)
<1>1. calls[u] = NoCall \/ (IsCall(calls[u]) /\ calls[u] # NoCall)
  BY CallIsNot DEF CallsOK, Free
<1>2. QED
  BY <1>1 DEF Progressed

LEMMA ServeIs == ASSUME Base, Clean(server), NEW t \in Threads, Serve(t) PROVE ServerStep
<1>1. PICK c : c = calls[t]
  OBVIOUS
<1>2. PICK reply : reply = Served(server, c).reply
  OBVIOUS
<1>3. /\ ~Free(t) /\ c.reply = NoReply /\ server' = Served(server, c).server
      /\ calls' = [calls EXCEPT ![t].reply = reply] /\ m' = m
      /\ IsServer(server) /\ CallsOK /\ DOMAIN calls = Threads
  BY <1>1, <1>2 DEF Serve, Waiting, Base, CallsOK
<1>4. IsCall(c) /\ (c.on = "answer" => Within(c.key, server.epoch, Len(server.receipts)))
  BY <1>1, <1>3 DEF CallsOK
<1>5. Gets(server, server', c, reply)
  BY <1>2, <1>3, <1>4, ServedIs
<1>6. PICK d : d = [c EXCEPT !.reply = reply]
  OBVIOUS
<1>7. calls'[t] = d /\ DOMAIN calls' = Threads /\ \A u \in Threads \ {t} : calls'[u] = calls[u]
  BY <1>1, <1>3, <1>6
<1>8. IsServer(server') /\ IsState(State(server')) /\ Len(State(server').receipts) = Len(server'.receipts)
      /\ State(server').epoch = server'.epoch
  BY <1>5, StateIs DEF Gets, Grows
<1>9. reply.ok /\ c.on = "answer" =>
        /\ c.key.q \in 1..Len(server'.receipts) /\ c.key.epoch = server'.epoch
        /\ IsReceipt(reply.receipt) /\ reply.receipt.epoch = c.key.epoch /\ reply.receipt.q = c.key.q
        /\ reply.receipt = ReceiptOf(State(server'), c.key.q)
  <2>1. SUFFICES ASSUME reply.ok, c.on = "answer"
                 PROVE  /\ c.key.q \in 1..Len(server'.receipts) /\ c.key.epoch = server'.epoch
                        /\ IsReceipt(reply.receipt) /\ reply.receipt.epoch = c.key.epoch
                        /\ reply.receipt.q = c.key.q
                        /\ reply.receipt = ReceiptOf(State(server'), c.key.q)
    OBVIOUS
  <2>2. c.key.epoch = server'.epoch /\ c.key.q <= Len(server'.receipts)
        /\ reply.receipt = ReceiptOf(State(server'), c.key.q)
    BY <1>5, <2>1 DEF Gets
  <2>3. c.key.q \in 1..Len(server'.receipts)
    <3>1. c.key.q \in 1..Questions /\ Len(server'.receipts) \in 0..Questions
      BY <1>4, <1>8, <2>1, ServerIs DEF IsCall, IsKey
    <3>2. QED
      BY <2>2, <3>1, QuestionsIs
  <2>4. QED
    BY <1>8, <2>2, <2>3, ReceiptOfIs
<1>10. reply.ok /\ c.on \in {"state", "join", "resync"} => reply.state = State(server')
  BY <1>5 DEF Gets
<1>11. /\ IsCall(d) /\ d # NoCall /\ c # NoCall
       /\ d.on = c.on /\ d.key = c.key /\ d.id = c.id /\ d.alive = c.alive /\ d.reply = reply
  <2>1. reply.ok \in BOOLEAN
    BY <1>5 DEF Gets
  <2>2. QED
    BY <1>4, <1>6, <1>8, <1>9, <1>10, <2>1, ReplyIs
<1>12. Progressed(c, d, server')
  BY <1>5, <1>9, <1>10, <1>11 DEF Progressed, Gets, HasState, HasReceipt
<1>13. \A u \in Threads : Progressed(calls[u], calls'[u], server')
  BY <1>1, <1>3, <1>7, <1>12, SameProgressed
<1>14. Grows(server, server') /\ server'.epoch = server.epoch /\ server'.refused = server.refused
       /\ \/ server'.receipts = server.receipts
          \/ /\ c.on = "answer" /\ c.key.epoch = server.epoch /\ c.key.q = Len(server.receipts) + 1
             /\ c.id \notin server.refused
             /\ Len(server'.receipts) = Len(server.receipts) + 1
             /\ server'.receipts[Len(server.receipts) + 1].id = c.id
  BY <1>5 DEF Gets
<1>15. Len(server.receipts) \in 0..Questions /\ server.epoch \in Nat \ {0}
  BY <1>3, ServerIs DEF IsServer
<1>16. Clean(server')
  <2>1. CASE server'.receipts = server.receipts
    BY <1>14, <2>1 DEF Clean
  <2>2. CASE /\ c.id \notin server.refused
             /\ Len(server'.receipts) = Len(server.receipts) + 1
             /\ server'.receipts[Len(server.receipts) + 1].id = c.id
    <3>1. \A i \in 1..Len(server.receipts) : server'.receipts[i] = server.receipts[i]
      BY <1>14, <1>15 DEF Grows
    <3>2. \A i \in 1..Len(server'.receipts) : i \in 1..Len(server.receipts) \/ i = Len(server.receipts) + 1
      BY <1>15, <2>2, QuestionsIs
    <3>3. QED
      BY <1>14, <2>2, <3>1, <3>2 DEF Clean
  <2>3. QED
    BY <1>14, <2>1, <2>2
<1>17. ASSUME NEW i \in (Len(server.receipts) + 1)..Len(server'.receipts)
       PROVE  Open(t) /\ calls[t].id = server'.receipts[i].id /\ calls[t].key.q = i
  <2>1. /\ c.on = "answer" /\ c.key.epoch = server.epoch /\ c.key.q = Len(server.receipts) + 1
        /\ c.id \notin server.refused /\ i = Len(server.receipts) + 1
        /\ server'.receipts[Len(server.receipts) + 1].id = c.id
    BY <1>14, <1>15, <1>17, QuestionsIs
  <2>2. Open(t)
    BY <1>1, <1>3, <1>15, <2>1, QuestionsIs DEF Open, Waiting
  <2>3. QED
    BY <1>1, <2>1, <2>2
<1>18. QED
  BY <1>3, <1>7, <1>13, <1>14, <1>16, <1>17 DEF ServerStep

\* A step of the server that answers no request.
LEMMA ServerAlone ==
  ASSUME Base, m' = m, calls' = calls, Grows(server, server'), Clean(server'),
         server'.epoch = server.epoch =>
           \A i \in (Len(server.receipts) + 1)..Len(server'.receipts) : server'.receipts[i].id = 0
  PROVE  ServerStep
<1>1. CallsOK /\ DOMAIN calls = Threads
  BY DEF Base, CallsOK
<1>2. QED
  BY <1>1, SameProgressed DEF ServerStep

LEMMA LoseIs == ASSUME Base, Clean(server), NEW t \in Threads, Lose(t) PROVE ServerStep
<1>1. PICK c : c = calls[t]
  OBVIOUS
<1>2. PICK reply : reply = Error("lost")
  OBVIOUS
<1>3. /\ ~Free(t) /\ calls' = [calls EXCEPT ![t].reply = reply] /\ m' = m /\ server' = server
      /\ IsServer(server) /\ CallsOK /\ DOMAIN calls = Threads
  BY <1>2 DEF Lose, Base, CallsOK
<1>4. reply.ok = FALSE /\ reply # NoReply /\ reply.code # "refused"
  <2>1. reply.ok = FALSE /\ reply.code = "lost" /\ NoReply.code = "none"
    BY <1>2 DEF Error, NoReply
  <2>2. QED
    BY <2>1
<1>5. IsCall(c)
  BY <1>1, <1>3 DEF CallsOK
<1>6. PICK d : d = [c EXCEPT !.reply = reply]
  OBVIOUS
<1>7. calls'[t] = d /\ DOMAIN calls' = Threads /\ \A u \in Threads \ {t} : calls'[u] = calls[u]
  BY <1>1, <1>3, <1>6
<1>8. /\ IsCall(d) /\ d # NoCall /\ c # NoCall
      /\ d.on = c.on /\ d.key = c.key /\ d.id = c.id /\ d.alive = c.alive /\ d.reply = reply
  <2>1. reply.ok \in BOOLEAN /\ ~reply.ok
    BY <1>4
  <2>2. QED
    BY <1>5, <1>6, <2>1, ReplyIs
<1>9. Progressed(c, d, server')
  BY <1>4, <1>8 DEF Progressed, HasState, HasReceipt
<1>10. \A u \in Threads : Progressed(calls[u], calls'[u], server')
  BY <1>1, <1>3, <1>7, <1>9, SameProgressed
<1>11. Grows(server, server')
  BY <1>3, GrowsIf DEF IsServer
<1>12. Len(server.receipts) \in Nat
  BY <1>3, ServerIs, QuestionsIs
<1>13. QED
  BY <1>3, <1>7, <1>10, <1>11, <1>12 DEF ServerStep

LEMMA RefuseIs == ASSUME Base, Clean(server), NEW id, Refuse(id) PROVE ServerStep
<1>1. /\ server' = [server EXCEPT !.refused = @ \cup {id}] /\ m' = m /\ calls' = calls /\ IsServer(server)
      /\ \A i \in DOMAIN server.receipts : server.receipts[i].id # id
  BY DEF Refuse, Base
<1>2. /\ DOMAIN server' = DOMAIN server /\ server'.epoch = server.epoch /\ server'.receipts = server.receipts
      /\ server'.version = server.version /\ server'.refused = server.refused \cup {id} /\ server.version \in Nat
      /\ Len(server.receipts) \in Nat /\ DOMAIN server.receipts = 1..Len(server.receipts)
  BY <1>1, ServerIs, QuestionsIs DEF IsServer
<1>3. Grows(server, server')
  <2>1. /\ server'.version \in Nat /\ server'.version >= server.version
        /\ server.refused \subseteq server'.refused
    BY <1>2
  <2>2. QED
    BY <1>1, <1>2, <2>1, GrowsIf
<1>4. Clean(server')
  BY <1>1, <1>2 DEF Clean
<1>5. QED
  BY <1>1, <1>2, <1>3, <1>4, ServerAlone

LEMMA ResetIs == ASSUME Base, Reset PROVE ServerStep
<1>1. /\ server'.epoch = server.epoch + 1 /\ server'.version = 0 /\ server'.receipts = << >>
      /\ DOMAIN server' = {"epoch", "joined", "version", "receipts", "clocks", "refused"}
      /\ m' = m /\ calls' = calls /\ server.epoch \in Nat \ {0}
  BY DEF Reset, Base, IsServer
<1>2. IsServer(server')
  BY <1>1, QuestionsIs DEF IsServer
<1>3. Grows(server, server')
  BY <1>1, <1>2 DEF Grows
<1>4. Clean(server')
  BY <1>1 DEF Clean
<1>5. QED
  BY <1>1, <1>3, <1>4, ServerAlone

LEMMA OtherTabJoinsIs == ASSUME Base, Clean(server), OtherTabJoins PROVE ServerStep
<1>1. server' = Joined(server) /\ m' = m /\ calls' = calls /\ IsServer(server)
  BY DEF OtherTabJoins, Base
<1>2. /\ Grows(server, server') /\ server'.epoch = server.epoch /\ server'.receipts = server.receipts
      /\ server'.refused = server.refused /\ Len(server.receipts) \in Nat
  BY <1>1, JoinedIs, ServerIs, QuestionsIs
<1>3. Clean(server')
  BY <1>2 DEF Clean
<1>4. QED
  BY <1>1, <1>2, <1>3, ServerAlone

LEMMA OtherTabAnswersIs == ASSUME Base, Clean(server), OtherTabAnswers PROVE ServerStep
<1>1. PICK clocks : server' = [Answered(server, 0) EXCEPT !.clocks = clocks]
  BY DEF OtherTabAnswers
<1>2. m' = m /\ calls' = calls /\ IsServer(server) /\ Len(server.receipts) < Questions
  BY DEF OtherTabAnswers, Base
<1>3. /\ DOMAIN server' = DOMAIN server /\ server'.epoch = server.epoch /\ server'.version = server.version + 1
      /\ server'.refused = server.refused
      /\ server'.receipts = Append(server.receipts, [version |-> server.version + 1, id |-> 0])
  BY <1>1, <1>2 DEF Answered, IsServer
<1>4. /\ Grows(server, server') /\ Len(server'.receipts) = Len(server.receipts) + 1
      /\ server'.receipts[Len(server.receipts) + 1].id = 0
  BY <1>2, <1>3, AnsweredIs
<1>5. Len(server.receipts) \in 0..Questions /\ server.epoch \in Nat \ {0}
  BY <1>2, ServerIs DEF IsServer
<1>6. \A i \in 1..Len(server.receipts) : server'.receipts[i] = server.receipts[i]
  BY <1>3, <1>4, <1>5 DEF Grows
<1>7. \A i \in 1..Len(server'.receipts) : i \in 1..Len(server.receipts) \/ i = Len(server.receipts) + 1
  BY <1>4, <1>5, QuestionsIs
<1>8. Clean(server')
  BY <1>3, <1>4, <1>6, <1>7 DEF Clean
<1>9. \A i \in (Len(server.receipts) + 1)..Len(server'.receipts) : server'.receipts[i].id = 0
  BY <1>4, <1>5, QuestionsIs
<1>10. QED
  BY <1>2, <1>4, <1>8, <1>9, ServerAlone

LEMMA OtherLearnerAnswersIs == ASSUME Base, Clean(server), OtherLearnerAnswers PROVE ServerStep
<1>1. server' = [server EXCEPT !.version = @ + 1] /\ m' = m /\ calls' = calls /\ IsServer(server)
  BY DEF OtherLearnerAnswers, Base
<1>2. /\ DOMAIN server' = DOMAIN server /\ server'.epoch = server.epoch /\ server'.receipts = server.receipts
      /\ server'.version = server.version + 1 /\ server'.refused = server.refused /\ server.version \in Nat
      /\ Len(server.receipts) \in Nat
  BY <1>1, ServerIs, QuestionsIs DEF IsServer
<1>3. Grows(server, server')
  <2>1. /\ server'.version \in Nat /\ server'.version >= server.version
        /\ server.refused \subseteq server'.refused
    BY <1>2
  <2>2. QED
    BY <1>1, <1>2, <2>1, GrowsIf
<1>4. Clean(server')
  BY <1>2 DEF Clean
<1>5. QED
  BY <1>1, <1>2, <1>3, <1>4, ServerAlone

(***************************************************************************)
(* Copies stay copies as the server goes on.                               *)
(***************************************************************************)
LEMMA BehindGrows ==
  ASSUME NEW s, NEW z, NEW a, IsServer(s), Grows(s, z), IsCopy(a), Behind(a, s) PROVE Behind(a, z)
<1>1. /\ Len(s.receipts) \in 0..Questions /\ s.epoch \in Nat /\ s.version \in Nat
      /\ a.epoch \in Nat /\ a.version \in Nat /\ Len(a.receipts) \in Nat
      /\ IsServer(z) /\ z.epoch \in Nat /\ z.version \in Nat /\ Len(z.receipts) \in 0..Questions
      /\ \A i \in 1..Len(z.receipts) : z.receipts[i].version \in Nat
  <2>1. IsServer(z)
    BY DEF Grows
  <2>2. QED
    BY <2>1, ServerIs DEF IsCopy
<1>2. CASE z.epoch > s.epoch
  BY <1>1, <1>2 DEF Behind
<1>3. CASE z.epoch = s.epoch /\ a.epoch # s.epoch
  BY <1>1, <1>3 DEF Behind
<1>4. CASE z.epoch = s.epoch /\ a.epoch = s.epoch
  <2>1. /\ z.version >= s.version /\ Len(z.receipts) >= Len(s.receipts)
        /\ \A i \in 1..Len(s.receipts) : z.receipts[i] = s.receipts[i]
        /\ \A i \in (Len(s.receipts) + 1)..Len(z.receipts) : z.receipts[i].version > s.version
    BY <1>1, <1>4 DEF Grows
  <2>2. /\ a.version <= s.version /\ Len(a.receipts) <= Len(s.receipts)
        /\ \A i \in (Len(a.receipts) + 1)..Len(s.receipts) : s.receipts[i].version > a.version
    BY <1>4 DEF Behind
  <2>3. ASSUME NEW i \in (Len(a.receipts) + 1)..Len(z.receipts) PROVE z.receipts[i].version > a.version
    <3>1. CASE i <= Len(s.receipts)
      <4>1. i \in 1..Len(s.receipts) /\ i \in (Len(a.receipts) + 1)..Len(s.receipts)
        BY <1>1, <3>1, QuestionsIs
      <4>2. QED
        BY <2>1, <2>2, <4>1
    <3>2. CASE i > Len(s.receipts)
      <4>1. i \in (Len(s.receipts) + 1)..Len(z.receipts) /\ i \in 1..Len(z.receipts)
        BY <1>1, <3>2, QuestionsIs
      <4>2. z.receipts[i].version > s.version /\ z.receipts[i].version \in Nat
        BY <1>1, <2>1, <4>1
      <4>3. QED
        BY <1>1, <2>2, <4>2
    <3>3. QED
      BY <1>1, <3>1, <3>2, QuestionsIs
  <2>4. QED
    BY <1>1, <1>4, <2>1, <2>2, <2>3, QuestionsIs DEF Behind
<1>5. QED
  BY <1>1, <1>2, <1>3, <1>4 DEF Grows

LEMMA GivenGrows ==
  ASSUME NEW s, NEW z, NEW r, IsServer(s), Grows(s, z), IsKey(r), Given(r, s) PROVE Given(r, z)
<1>1. /\ Len(s.receipts) \in Nat /\ s.epoch \in Nat /\ r.epoch \in Nat /\ r.q \in Nat
      /\ z.epoch \in Nat /\ Len(z.receipts) \in Nat
  <2>1. IsServer(z)
    BY DEF Grows
  <2>2. QED
    BY <2>1, ServerIs, QuestionsIs DEF IsKey
<1>2. QED
  BY <1>1 DEF Given, Grows

LEMMA WithinGrows ==
  ASSUME NEW s, NEW z, NEW p, IsServer(s), Grows(s, z), IsKey(p), Within(p, s.epoch, Len(s.receipts))
  PROVE  Within(p, z.epoch, Len(z.receipts))
<1>1. /\ Len(s.receipts) \in Nat /\ s.epoch \in Nat /\ p.epoch \in Nat /\ p.q \in Nat
      /\ z.epoch \in Nat /\ Len(z.receipts) \in Nat
  <2>1. IsServer(z)
    BY DEF Grows
  <2>2. QED
    BY <2>1, ServerIs, QuestionsIs DEF IsKey
<1>2. QED
  BY <1>1 DEF Within, Grows

LEMMA NowIs ==
  ASSUME NEW s, IsServer(s), NEW now, now = Copied(State(s))
  PROVE  /\ IsCopy(now) /\ Behind(now, s) /\ now.epoch = s.epoch /\ Len(now.receipts) = Len(s.receipts)
         /\ \A a : IsCopy(a) /\ Behind(a, s) => Agree(a, now) /\ Agree(now, a)
<1>1. /\ IsState(State(s)) /\ State(s).epoch = s.epoch /\ State(s).version = s.version
      /\ Len(State(s).receipts) = Len(s.receipts)
      /\ \A i \in 1..Len(s.receipts) : State(s).receipts[i] = s.receipts[i].version
  BY StateIs
<1>2. /\ now.epoch = s.epoch /\ now.version = s.version /\ Len(now.receipts) = Len(s.receipts)
      /\ \A i \in 1..Len(s.receipts) : now.receipts[i] = s.receipts[i].version
      /\ IsCopy(now)
  BY <1>1 DEF Copied, IsCopy, IsState
<1>3. /\ Len(s.receipts) \in Nat /\ s.version \in Nat
      /\ \A i \in 1..Len(s.receipts) : s.receipts[i].version \in Nat /\ s.receipts[i].version <= s.version
  BY ServerIs
<1>4. Behind(now, s)
  BY <1>2, <1>3 DEF Behind, IsServer
<1>5. ASSUME NEW a, IsCopy(a), Behind(a, s) PROVE Agree(a, now) /\ Agree(now, a)
  <2>1. a.version \in Nat /\ Len(a.receipts) \in Nat
    BY <1>5 DEF IsCopy
  <2>2. SUFFICES ASSUME a.epoch = s.epoch PROVE Agree(a, now) /\ Agree(now, a)
    BY <1>2 DEF Agree
  <2>3. /\ a.version <= s.version /\ Len(a.receipts) <= Len(s.receipts)
        /\ \A i \in (Len(a.receipts) + 1)..Len(s.receipts) : s.receipts[i].version > a.version
    BY <1>5, <2>2 DEF Behind
  <2>4. \A i \in (Len(a.receipts) + 1)..Len(s.receipts) : i \in 1..Len(s.receipts)
    BY <1>3, <2>1
  <2>5. Agree(a, now)
    BY <1>2, <2>3, <2>4 DEF Agree
  <2>6. Agree(now, a)
    <3>1. CASE ~(s.version <= a.version)
      BY <1>2, <3>1 DEF Agree
    <3>2. CASE s.version <= a.version
      <4>1. a.version = s.version
        BY <1>3, <2>1, <2>3, <3>2
      <4>2. Len(a.receipts) = Len(s.receipts)
        <5>1. SUFFICES ASSUME Len(a.receipts) < Len(s.receipts) PROVE FALSE
          BY <1>3, <2>1, <2>3
        <5>2. Len(s.receipts) \in (Len(a.receipts) + 1)..Len(s.receipts) /\ Len(s.receipts) \in 1..Len(s.receipts)
          BY <1>3, <2>1, <5>1
        <5>3. s.receipts[Len(s.receipts)].version > s.version
          BY <2>3, <4>1, <5>2
        <5>4. QED
          BY <1>3, <5>2, <5>3
      <4>3. QED
        BY <1>2, <2>1, <4>2 DEF Agree
    <3>3. QED
      BY <3>1, <3>2
  <2>7. QED
    BY <2>5, <2>6
<1>6. QED
  BY <1>2, <1>4, <1>5

\* The copies a step leaves are old ones and, at most, the server's own state.
LEMMA CopiesStep ==
  ASSUME IsServer(server), Grows(server, server'), CopiesOK,
         Held' \subseteq Held \cup {Copied(State(server'))},
         \A t \in Threads : HasReceipt(calls'[t]) =>
           \/ HasReceipt(calls[t]) /\ calls'[t].reply = calls[t].reply /\ IsKey(calls[t].reply.receipt)
           \/ LET r == calls'[t].reply.receipt IN
              /\ r.epoch = server'.epoch /\ r.q \in 1..Len(server'.receipts)
              /\ r.version = server'.receipts[r.q].version
  PROVE  CopiesOK'
<1>1. PICK now : now = Copied(State(server'))
  OBVIOUS
<1>2. IsServer(server')
  BY DEF Grows
<1>3. /\ IsCopy(now) /\ Behind(now, server') /\ now.epoch = server'.epoch
      /\ Len(now.receipts) = Len(server'.receipts)
      /\ \A a : IsCopy(a) /\ Behind(a, server') => Agree(a, now) /\ Agree(now, a)
  BY <1>1, <1>2, NowIs
<1>4. \A a \in Held : IsCopy(a) /\ Behind(a, server')
  BY BehindGrows DEF CopiesOK
<1>5. \A a \in Held' : a \in Held \/ a = now
  BY <1>1
<1>6. \A a \in Held' : IsCopy(a) /\ Behind(a, server')
  BY <1>3, <1>4, <1>5
<1>7. \A a, b \in Held' : Agree(a, b)
  <2>1. \A a, b \in Held : Agree(a, b)
    BY DEF CopiesOK
  <2>2. QED
    BY <1>3, <1>4, <1>5, <2>1
<1>8. ASSUME NEW t \in Threads, HasReceipt(calls'[t])
      PROVE  Given(calls'[t].reply.receipt, server') /\ \A a \in Held' : Later(calls'[t].reply.receipt, a)
  <2>1. PICK r : r = calls'[t].reply.receipt
    OBVIOUS
  <2>2. /\ Len(server'.receipts) \in Nat /\ server'.epoch \in Nat
        /\ \A i \in 1..Len(server'.receipts) : server'.receipts[i].version \in Nat
    BY <1>2, ServerIs
  <2>3. CASE HasReceipt(calls[t]) /\ calls'[t].reply = calls[t].reply /\ IsKey(calls[t].reply.receipt)
    <3>1. r = calls[t].reply.receipt /\ IsKey(r)
      BY <2>1, <2>3
    <3>2. Given(r, server) /\ \A a \in Held : Later(r, a)
      BY <2>3, <3>1 DEF CopiesOK
    <3>3. Given(r, server')
      BY <3>1, <3>2, GivenGrows
    <3>4. Later(r, now)
      BY <1>3, <2>2, <3>1, <3>3 DEF Later, Given, IsKey
    <3>5. QED
      BY <1>5, <2>1, <3>2, <3>3, <3>4
  <2>4. CASE /\ r.epoch = server'.epoch /\ r.q \in 1..Len(server'.receipts)
             /\ r.version = server'.receipts[r.q].version
    <3>1. Given(r, server')
      BY <2>2, <2>4 DEF Given
    <3>2. ASSUME NEW a \in Held' PROVE Later(r, a)
      <4>1. IsCopy(a) /\ Behind(a, server')
        BY <1>6
      <4>2. SUFFICES ASSUME a.epoch = server'.epoch, r.q > Len(a.receipts) PROVE r.version > a.version
        BY <2>4 DEF Later
      <4>3. r.q \in (Len(a.receipts) + 1)..Len(server'.receipts)
        BY <2>2, <2>4, <4>1, <4>2 DEF IsCopy
      <4>4. QED
        BY <2>4, <4>1, <4>2, <4>3 DEF Behind
    <3>3. QED
      BY <2>1, <3>1, <3>2
  <2>5. QED
    BY <1>8, <2>1, <2>3, <2>4
<1>9. QED
  BY <1>6, <1>7, <1>8 DEF CopiesOK

(***************************************************************************)
(* Base is inductive.                                                      *)
(***************************************************************************)
LEMMA AlikeIs ==
  ASSUME NEW c, NEW d, Alike(c, d)
  PROVE  /\ HasState(d) => HasState(c) /\ d.reply = c.reply
         /\ HasReceipt(d) => HasReceipt(c) /\ d.reply = c.reply
<1>1. CASE d = NoCall
  BY <1>1 DEF HasState, HasReceipt
<1>2. CASE d # NoCall
  <2>1. c # NoCall /\ d.on = c.on /\ d.reply = c.reply
    BY <1>2 DEF Alike
  <2>2. QED
    BY <2>1 DEF HasState, HasReceipt
<1>3. QED
  BY <1>1, <1>2

LEMMA FreshIs ==
  ASSUME NEW x, NEW d, Fresh(x, d) PROVE ~HasState(d) /\ ~HasReceipt(d) /\ (d # NoCall => d.on # "join" /\ IsCall(d))
  BY DEF Fresh, HasState, HasReceipt

LEMMA MovedIs ==
  ASSUME NEW T \in SUBSET Threads, Moved(T), NEW t \in Threads
  PROVE  /\ HasState(calls'[t]) => HasState(calls[t]) /\ calls'[t].reply = calls[t].reply
         /\ HasReceipt(calls'[t]) => HasReceipt(calls[t]) /\ calls'[t].reply = calls[t].reply
         /\ Joining(t)' => Joining(t) /\ t \notin T
         /\ Welcome(t)' => Welcome(t) /\ t \notin T /\ calls'[t].reply = calls[t].reply
<1>1. CASE t \in T
  <2>1. Fresh(m', calls'[t])
    BY <1>1 DEF Moved
  <2>2. ~HasState(calls'[t]) /\ ~HasReceipt(calls'[t]) /\ (calls'[t] # NoCall => calls'[t].on # "join")
    BY <2>1, FreshIs
  <2>3. ~Joining(t)'
    BY <2>2 DEF Joining, Free
  <2>4. QED
    BY <2>2, <2>3 DEF Welcome
<1>2. CASE t \notin T
  <2>1. Alike(calls[t], calls'[t])
    BY <1>2 DEF Moved
  <2>2. /\ HasState(calls'[t]) => HasState(calls[t]) /\ calls'[t].reply = calls[t].reply
        /\ HasReceipt(calls'[t]) => HasReceipt(calls[t]) /\ calls'[t].reply = calls[t].reply
    BY <2>1, AlikeIs
  <2>3. Joining(t)' => Joining(t) /\ calls'[t].reply = calls[t].reply
    BY <2>1 DEF Joining, Free, Alike
  <2>4. QED
    BY <1>2, <2>2, <2>3 DEF Welcome
<1>3. QED
  BY <1>1, <1>2

\* A step of the machine whose page holds a copy it could know.
LEMMA MovedCopies ==
  ASSUME Base, server' = server, DOMAIN calls' = Threads, OfPage(m') \subseteq Held,
         \A t \in Threads :
           /\ HasState(calls'[t]) => HasState(calls[t]) /\ calls'[t].reply = calls[t].reply
           /\ HasReceipt(calls'[t]) => HasReceipt(calls[t]) /\ calls'[t].reply = calls[t].reply
  PROVE  CopiesOK'
<1>1. IsServer(server) /\ CopiesOK /\ Grows(server, server')
  BY GrowsIf DEF Base, IsServer
<1>2. Replied' \subseteq Replied
  BY DEF Replied
<1>3. Held' \subseteq Held
  BY <1>2 DEF Held
<1>4. \A t \in Threads : HasReceipt(calls[t]) => IsKey(calls[t].reply.receipt)
  BY DEF Base, CallsOK, HasReceipt, IsCall, IsReceipt, Free
<1>5. \A t \in Threads : HasReceipt(calls'[t]) =>
        \/ HasReceipt(calls[t]) /\ calls'[t].reply = calls[t].reply /\ IsKey(calls[t].reply.receipt)
        \/ LET r == calls'[t].reply.receipt IN
           /\ r.epoch = server'.epoch /\ r.q \in 1..Len(server'.receipts)
           /\ r.version = server'.receipts[r.q].version
  BY <1>4
<1>6. QED
  BY <1>1, <1>3, <1>5, CopiesStep

\* An intent of the page is for the first question its epoch has not settled, or an earlier one.
LEMMA PendingWithin ==
  ASSUME NEW x, Page(x), x.pending # None, NEW s, IsServer(s), IsCopy(Mine(x)), Behind(Mine(x), s)
  PROVE  Within(x.pending, s.epoch, Len(s.receipts)) /\ IsKey(Key(x.pending.epoch, x.pending.q))
         /\ Within(Key(x.pending.epoch, x.pending.q), s.epoch, Len(s.receipts))
<1>1. /\ x.pending.epoch = x.state.epoch /\ x.pending.q = Len(x.state.receipts) + 1 /\ IsIntent(x.pending)
      /\ IsState(x.state)
  BY DEF Page, Typed, Shown
<1>2. Len(x.state.receipts) \in Nat /\ Len(s.receipts) \in Nat
  BY <1>1, ServerIs, LenIs, QuestionsIs
<1>3. Within(x.pending, s.epoch, Len(s.receipts))
  BY <1>1, <1>2 DEF Within, Behind, Mine
<1>4. QED
  BY <1>1, <1>3 DEF Within, Key, IsIntent, IsKey

LEMMA MachineBase ==
  ASSUME Base, server' = server, NEW T \in SUBSET Threads, Moved(T), Running(m'), Page(m'),
         OfPage(m') \subseteq Held, SavedOK',
         \/ m.state = None <=> m'.state = None
         \/ m'.state # None /\ \E t \in Threads : Joining(t) /\ T = {t}
  PROVE  Base'
<1>1. IsServer(server)' /\ Running(m)' /\ Page(m)' /\ SavedOK'
  BY DEF Base
<1>2. DOMAIN calls' = Threads
  BY DEF Moved
<1>3. CopiesOK'
  BY <1>2, MovedCopies, MovedIs
<1>4. \A t \in Threads : Free(t)' \/ IsCall(calls'[t])
  <2>1. TAKE t \in Threads
  <2>2. CASE t \in T
    BY <2>2, FreshIs DEF Moved, Free
  <2>3. CASE t \notin T
    BY <2>3 DEF Moved, Free, Alike
  <2>4. QED
    BY <2>2, <2>3
<1>5. \A t, u \in Threads : Joining(t)' /\ Joining(u)' => t = u
  BY MovedIs DEF Base, CallsOK
<1>6. ASSUME NEW t \in Threads, ~Free(t)', calls'[t].alive
      PROVE  calls'[t].on = "join" <=> m'.state = None
  <2>1. CASE t \in T
    BY <1>6, <2>1, FreshIs DEF Moved, Free
  <2>2. CASE t \notin T
    <3>1. ~Free(t) /\ calls[t].alive /\ calls'[t].on = calls[t].on
      BY <1>6, <2>2 DEF Moved, Free, Alike
    <3>2. calls[t].on = "join" <=> m.state = None
      BY <3>1 DEF Base, CallsOK
    <3>3. CASE m.state = None <=> m'.state = None
      BY <3>1, <3>2, <3>3
    <3>4. CASE ~(m.state = None <=> m'.state = None)
      <4>1. m.state = None /\ m'.state # None
        BY <3>4
      <4>2. PICK u \in Threads : Joining(u) /\ T = {u}
        BY <3>4
      <4>3. Joining(t)
        BY <3>1, <3>2, <4>1 DEF Joining
      <4>4. t = u
        BY <4>2, <4>3 DEF Base, CallsOK
      <4>5. QED
        BY <2>2, <4>2, <4>4
    <3>5. QED
      BY <3>3, <3>4
  <2>3. QED
    BY <2>1, <2>2
<1>7. ASSUME NEW t \in Threads, ~Free(t)', calls'[t].on = "answer"
      PROVE  Within(calls'[t].key, server'.epoch, Len(server'.receipts))
  <2>1. CASE t \in T
    <3>1. m'.pending # None /\ calls'[t].key = Key(m'.pending.epoch, m'.pending.q)
      BY <1>7, <2>1 DEF Moved, Fresh, Free
    <3>2. m'.state # None
      BY <3>1 DEF Page, Shown
    <3>3. IsCopy(Mine(m')) /\ Behind(Mine(m'), server)
      BY <3>2 DEF OfPage, Base, CopiesOK
    <3>4. QED
      BY <3>1, <3>3, PendingWithin DEF Base
  <2>2. CASE t \notin T
    <3>1. ~Free(t) /\ calls'[t].key = calls[t].key /\ calls[t].on = "answer"
      BY <1>7, <2>2 DEF Moved, Free, Alike
    <3>2. QED
      BY <3>1 DEF Base, CallsOK
  <2>3. QED
    BY <2>1, <2>2
<1>8. CallsOK'
  <2>1. m'.appliedSequence = 0 /\ m'.requestSequence \in Nat
    BY DEF Moved
  <2>2. QED
    BY <1>2, <1>4, <1>5, <1>6, <1>7, <2>1 DEF CallsOK
<1>9. QED
  BY <1>1, <1>3, <1>8 DEF Base

\* A step that keeps the stored intent, or gives it up.
LEMMA SavedStays ==
  ASSUME Base, server' = server, NEW T \in SUBSET Threads, Moved(T), m'.saved = m.saved \/ m'.saved = None
  PROVE  SavedOK'
<1>1. SUFFICES ASSUME m'.saved # None
               PROVE  /\ Within(m'.saved, server'.epoch, Len(server'.receipts))
                      /\ \A t \in Threads : Welcome(t)' =>
                           Within(m'.saved, calls'[t].reply.state.epoch, Len(calls'[t].reply.state.receipts))
  BY DEF SavedOK
<1>2. m'.saved = m.saved
  BY <1>1
<1>3. QED
  BY <1>1, <1>2, MovedIs DEF Base, SavedOK

\* The page holds the same copy when neither its state nor its version changes.
LEMMA SameCopy ==
  ASSUME m.state = None <=> m'.state = None,
         m'.state # None => /\ m'.state.epoch = m.state.epoch /\ m'.state.receipts = m.state.receipts
                            /\ m'.privateVersion = m.privateVersion
  PROVE  OfPage(m') \subseteq Held
<1>1. m'.state # None => Mine(m') = Mine(m) /\ m.state # None
  BY DEF Mine
<1>2. QED
  BY <1>1 DEF OfPage, Held

Took(t) == m.state # None /\ HasState(calls[t]) /\ AppliedTo(m, m', calls[t].reply.state)
Entered(t) == Welcome(t) /\ Welcomed(m, m', calls[t].reply.state)
Confirmed(t) == m.state # None /\ HasReceipt(calls[t]) /\ Accepted(m, m', calls[t].reply.receipt)
Denied(t) ==
  /\ m.state # None /\ ~Free(t) /\ calls[t].on = "answer"
  /\ ~calls[t].reply.ok /\ calls[t].reply.code = "refused" /\ GivenUp(m, m', calls[t].id)

MachineStep(T) ==
  /\ server' = server /\ Moved(T)
  /\ \/ Quiet \/ Asks \/ Leaves
     \/ \E t \in Threads : T = {t} /\ (Took(t) \/ Entered(t) \/ Confirmed(t) \/ Denied(t))

LEMMA CopyIs ==
  ASSUME NEW t \in Threads, HasState(calls[t]), NEW x, x.state # None,
         x.state.epoch = calls[t].reply.state.epoch, x.state.receipts = calls[t].reply.state.receipts,
         x.privateVersion = calls[t].reply.state.version
  PROVE  OfPage(x) \subseteq Held
<1>1. Mine(x) = Copied(calls[t].reply.state)
  BY DEF Mine, Copied
<1>2. QED
  BY <1>1, HeldIs DEF OfPage

LEMMA WelcomeState == ASSUME NEW t \in Threads, Welcome(t) PROVE HasState(calls[t])
  BY DEF Welcome, Joining, HasState, Free

LEMMA MachineStepBase == ASSUME Base, NEW T \in SUBSET Threads, MachineStep(T) PROVE Base'
<1>1. server' = server /\ Moved(T)
  BY DEF MachineStep
<1>2. CASE Quiet
  <2>1. /\ Running(m') /\ Page(m') /\ (m.state = None <=> m'.state = None) /\ m'.saved = m.saved
        /\ m'.state # None => /\ m'.state.epoch = m.state.epoch /\ m'.state.receipts = m.state.receipts
                              /\ m'.privateVersion = m.privateVersion
    BY <1>2 DEF Quiet, Same
  <2>2. OfPage(m') \subseteq Held
    BY <2>1, SameCopy
  <2>3. QED
    BY <1>1, <2>1, <2>2, SavedStays, MachineBase
<1>3. CASE Asks
  <2>1. /\ Running(m') /\ Page(m') /\ m.state # None /\ m'.state # None /\ m'.saved = m'.pending /\ m'.pending # None
        /\ m'.state.epoch = m.state.epoch /\ m'.state.receipts = m.state.receipts
        /\ m'.privateVersion = m.privateVersion
    BY <1>3 DEF Asks, Core, Page
  <2>2. OfPage(m') \subseteq Held
    BY <2>1, SameCopy
  <2>3. IsServer(server) /\ IsCopy(Mine(m')) /\ Behind(Mine(m'), server)
    BY <2>1, <2>2 DEF OfPage, Base, CopiesOK
  <2>4. Within(m'.saved, server'.epoch, Len(server'.receipts))
    BY <1>1, <2>1, <2>3, PendingWithin
  <2>5. \A t \in Threads : ~Welcome(t)'
    BY <1>1, <2>1, MovedIs DEF Base, CallsOK, Welcome, Joining
  <2>6. SavedOK'
    BY <2>4, <2>5 DEF SavedOK
  <2>7. QED
    BY <1>1, <2>1, <2>2, <2>6, MachineBase
<1>4. CASE Leaves
  <2>1. /\ Running(m') /\ Page(m') /\ m.state # None /\ m'.state # None /\ m'.saved = None
        /\ m'.state.epoch = m.state.epoch /\ m'.state.receipts = m.state.receipts
        /\ m'.privateVersion = m.privateVersion
    BY <1>4 DEF Leaves, Core, Page
  <2>2. OfPage(m') \subseteq Held
    BY <2>1, SameCopy
  <2>3. QED
    BY <1>1, <2>1, <2>2, SavedStays, MachineBase
<1>5. ASSUME NEW t \in Threads, T = {t}, Took(t) PROVE Base'
  <2>1. AdoptsSame(m, m', calls[t].reply.state) \/ AdoptsNew(m, m', calls[t].reply.state)
    BY <1>5 DEF Took, AppliedTo
  <2>2. m.state # None /\ m.saved = m.pending
    BY <1>5 DEF Took, Base, Page
  <2>3. /\ Running(m') /\ Page(m') /\ m'.state # None
        /\ m'.state.epoch = calls[t].reply.state.epoch /\ m'.state.receipts = calls[t].reply.state.receipts
        /\ m'.privateVersion = calls[t].reply.state.version
    BY <1>5, <2>1 DEF Took, AppliedTo, AdoptsSame, AdoptsNew, Adopts
  <2>4. m'.saved = m.saved \/ m'.saved = None
    BY <2>1, <2>2 DEF AdoptsSame, AdoptsNew
  <2>5. OfPage(m') \subseteq Held
    BY <1>5, <2>3, CopyIs DEF Took
  <2>6. QED
    BY <1>1, <2>2, <2>3, <2>4, <2>5, SavedStays, MachineBase
<1>6. ASSUME NEW t \in Threads, T = {t}, Entered(t) PROVE Base'
  <2>1. /\ Running(m') /\ Page(m') /\ m'.state # None
        /\ m'.state.epoch = calls[t].reply.state.epoch /\ m'.state.receipts = calls[t].reply.state.receipts
        /\ m'.privateVersion = calls[t].reply.state.version
        /\ m'.saved = m.saved \/ m'.saved = None
    BY <1>6 DEF Entered, Welcomed
  <2>2. OfPage(m') \subseteq Held
    BY <1>6, <2>1, CopyIs, WelcomeState DEF Entered
  <2>3. Joining(t)
    BY <1>6 DEF Entered, Welcome
  <2>4. QED
    BY <1>1, <1>6, <2>1, <2>2, <2>3, SavedStays, MachineBase
<1>7. ASSUME NEW t \in Threads, T = {t}, Confirmed(t) \/ Denied(t) PROVE Base'
  <2>1. /\ Running(m') /\ Page(m') /\ m.state # None /\ m'.state # None /\ m'.saved = None
        /\ m'.state.epoch = m.state.epoch /\ m'.state.receipts = m.state.receipts
        /\ m'.privateVersion = m.privateVersion
    BY <1>7 DEF Confirmed, Denied, Accepted, GivenUp, Core, Page
  <2>2. OfPage(m') \subseteq Held
    BY <2>1, SameCopy
  <2>3. QED
    BY <1>1, <2>1, <2>2, SavedStays, MachineBase
<1>8. QED
  BY <1>2, <1>3, <1>4, <1>5, <1>6, <1>7 DEF MachineStep

LEMMA ArrivesBase == ASSUME Base, NEW t \in Threads, Arrives(t) PROVE Base'
<1>1. /\ server' = server /\ Running(m') /\ Page(m') /\ m'.state = None /\ m'.saved = m.saved
      /\ m'.appliedSequence = 0 /\ m'.requestSequence \in Nat /\ DOMAIN calls' = Threads
      /\ \A u \in Threads \ {t} : Alike(calls[u], calls'[u]) /\ (calls'[u] # NoCall => ~calls'[u].alive)
      /\ IsCall(calls'[t]) /\ calls'[t].on = "join" /\ ~calls'[t].reply.ok
  BY DEF Arrives
<1>2. ASSUME NEW u \in Threads
      PROVE  /\ HasState(calls'[u]) => HasState(calls[u]) /\ calls'[u].reply = calls[u].reply
             /\ HasReceipt(calls'[u]) => HasReceipt(calls[u]) /\ calls'[u].reply = calls[u].reply
  <2>1. CASE u = t
    BY <1>1, <2>1 DEF HasState, HasReceipt
  <2>2. CASE u # t
    BY <1>1, <2>2, AlikeIs
  <2>3. QED
    BY <2>1, <2>2
<1>3. OfPage(m') \subseteq Held
  BY <1>1 DEF OfPage
<1>4. CopiesOK'
  BY <1>1, <1>2, <1>3, MovedCopies
<1>5. \A u \in Threads : Joining(u)' => u = t
  BY <1>1 DEF Joining, Free
<1>6. \A u \in Threads : ~Welcome(u)'
  BY <1>1, <1>5 DEF Welcome
<1>7. SavedOK'
  BY <1>1, <1>6 DEF Base, SavedOK
<1>8. \A u \in Threads : Free(u)' \/ IsCall(calls'[u])
  BY <1>1 DEF Alike, Free
<1>9. \A u \in Threads : ~Free(u)' /\ calls'[u].alive => u = t
  BY <1>1 DEF Free
<1>10. \A u \in Threads : ~Free(u)' /\ calls'[u].on = "answer" =>
         Within(calls'[u].key, server'.epoch, Len(server'.receipts))
  BY <1>1 DEF Base, CallsOK, Alike, Free
<1>11. CallsOK'
  BY <1>1, <1>5, <1>8, <1>9, <1>10 DEF CallsOK
<1>12. IsServer(server)' /\ Running(m)' /\ Page(m)'
  BY <1>1 DEF Base
<1>13. QED
  BY <1>4, <1>7, <1>11, <1>12 DEF Base

LEMMA ProgressedIs ==
  ASSUME ServerStep, NEW t \in Threads
  PROVE  /\ HasState(calls'[t]) =>
              (HasState(calls[t]) /\ calls'[t].reply = calls[t].reply) \/ calls'[t].reply.state = State(server')
         /\ HasReceipt(calls'[t]) =>
              \/ HasReceipt(calls[t]) /\ calls'[t].reply = calls[t].reply
              \/ /\ calls'[t].key.epoch = server'.epoch /\ calls'[t].key.q \in 1..Len(server'.receipts)
                 /\ calls'[t].reply.receipt = ReceiptOf(State(server'), calls'[t].key.q)
         /\ Joining(t)' <=> Joining(t)
         /\ Welcome(t)' =>
              (Welcome(t) /\ calls'[t].reply = calls[t].reply) \/ calls'[t].reply.state = State(server')
         /\ Free(t)' <=> Free(t)
         /\ ~Free(t) => /\ IsCall(calls'[t]) /\ calls'[t].on = calls[t].on /\ calls'[t].key = calls[t].key
                        /\ calls'[t].id = calls[t].id /\ calls'[t].alive = calls[t].alive
<1>1. Progressed(calls[t], calls'[t], server')
  BY DEF ServerStep
<1>2. CASE calls[t] = NoCall
  BY <1>1, <1>2 DEF Progressed, HasState, HasReceipt, Joining, Welcome, Free
<1>3. CASE calls[t] # NoCall
  <2>1. /\ calls'[t] # NoCall /\ IsCall(calls'[t])
        /\ calls'[t].on = calls[t].on /\ calls'[t].key = calls[t].key /\ calls'[t].id = calls[t].id
        /\ calls'[t].alive = calls[t].alive
    BY <1>1, <1>3 DEF Progressed
  <2>2. \/ calls'[t].reply = calls[t].reply
        \/ /\ HasState(calls'[t]) => calls'[t].reply.state = State(server')
           /\ HasReceipt(calls'[t]) =>
                /\ calls'[t].key.epoch = server'.epoch /\ calls'[t].key.q \in 1..Len(server'.receipts)
                /\ calls'[t].reply.receipt = ReceiptOf(State(server'), calls'[t].key.q)
    BY <1>1, <1>3 DEF Progressed
  <2>3. Joining(t)' <=> Joining(t)
    BY <1>3, <2>1 DEF Joining, Free
  <2>4. Welcome(t)' => HasState(calls'[t])
    BY <2>1 DEF Welcome, Joining, HasState
  <2>5. QED
    BY <1>3, <2>1, <2>2, <2>3, <2>4 DEF HasState, HasReceipt, Welcome, Joining, Free
<1>4. QED
  BY <1>2, <1>3

LEMMA ServerStepBase == ASSUME Base, ServerStep PROVE Base'
<1>1. /\ m' = m /\ DOMAIN calls' = Threads /\ Grows(server, server') /\ IsServer(server) /\ IsServer(server')
      /\ Running(m) /\ Page(m) /\ CallsOK /\ CopiesOK /\ SavedOK
  BY DEF ServerStep, Base, Grows
<1>2. Held' \subseteq Held \cup {Copied(State(server'))}
  <2>1. ASSUME NEW a \in Replied' PROVE a \in Replied \/ a = Copied(State(server'))
    <3>1. PICK t \in Threads : HasState(calls'[t]) /\ a = Copied(calls'[t].reply.state)
      BY <2>1 DEF Replied
    <3>2. \/ HasState(calls[t]) /\ calls'[t].reply = calls[t].reply
          \/ calls'[t].reply.state = State(server')
      BY <3>1, ProgressedIs
    <3>3. QED
      BY <3>1, <3>2 DEF Replied
  <2>2. OfPage(m)' = OfPage(m)
    BY <1>1
  <2>3. QED
    BY <2>1, <2>2 DEF Held
<1>3. IsState(State(server')) /\ State(server').epoch = server'.epoch
      /\ Len(State(server').receipts) = Len(server'.receipts)
      /\ \A i \in 1..Len(server'.receipts) : State(server').receipts[i] = server'.receipts[i].version
  BY <1>1, StateIs
<1>4. ASSUME NEW t \in Threads, HasReceipt(calls'[t])
      PROVE  \/ HasReceipt(calls[t]) /\ calls'[t].reply = calls[t].reply /\ IsKey(calls[t].reply.receipt)
             \/ LET r == calls'[t].reply.receipt IN
                /\ r.epoch = server'.epoch /\ r.q \in 1..Len(server'.receipts)
                /\ r.version = server'.receipts[r.q].version
  <2>1. CASE HasReceipt(calls[t]) /\ calls'[t].reply = calls[t].reply
    BY <1>1, <2>1 DEF CallsOK, HasReceipt, IsCall, IsReceipt, Free
  <2>2. CASE /\ calls'[t].key.epoch = server'.epoch /\ calls'[t].key.q \in 1..Len(server'.receipts)
             /\ calls'[t].reply.receipt = ReceiptOf(State(server'), calls'[t].key.q)
    <3>1. PICK q \in 1..Len(server'.receipts) : q = calls'[t].key.q
      BY <2>2
    <3>2. ReceiptOf(State(server'), q).epoch = State(server').epoch /\ ReceiptOf(State(server'), q).q = q
          /\ ReceiptOf(State(server'), q).version = State(server').receipts[q]
      BY <1>3, ReceiptOfIs
    <3>3. QED
      BY <1>3, <2>2, <3>1, <3>2
  <2>3. QED
    BY <1>4, <2>1, <2>2, ProgressedIs
<1>5. CopiesOK'
  BY <1>1, <1>2, <1>4, CopiesStep
<1>6. ASSUME m.saved # None
      PROVE  /\ Within(m.saved, server'.epoch, Len(server'.receipts))
             /\ \A t \in Threads : Welcome(t)' =>
                  Within(m.saved, calls'[t].reply.state.epoch, Len(calls'[t].reply.state.receipts))
  <2>1. IsKey(m.saved) /\ Within(m.saved, server.epoch, Len(server.receipts))
    BY <1>1, <1>6 DEF Page, Typed, IsIntent, SavedOK
  <2>2. Within(m.saved, server'.epoch, Len(server'.receipts))
    BY <1>1, <2>1, WithinGrows
  <2>3. ASSUME NEW t \in Threads, Welcome(t)'
        PROVE  Within(m.saved, calls'[t].reply.state.epoch, Len(calls'[t].reply.state.receipts))
    <3>1. (Welcome(t) /\ calls'[t].reply = calls[t].reply) \/ calls'[t].reply.state = State(server')
      BY <2>3, ProgressedIs
    <3>2. QED
      BY <1>1, <1>3, <1>6, <2>2, <3>1 DEF SavedOK
  <2>4. QED
    BY <2>2, <2>3
<1>7. SavedOK'
  BY <1>1, <1>6 DEF SavedOK
<1>8. CallsOK'
  <2>1. m'.appliedSequence = 0 /\ m'.requestSequence \in Nat
    BY <1>1 DEF CallsOK
  <2>2. \A t \in Threads : Free(t)' \/ IsCall(calls'[t])
    BY ProgressedIs
  <2>3. \A t, u \in Threads : Joining(t)' /\ Joining(u)' => t = u
    BY <1>1, ProgressedIs DEF CallsOK
  <2>4. \A t \in Threads : ~Free(t)' /\ calls'[t].alive => (calls'[t].on = "join" <=> m'.state = None)
    <3>1. SUFFICES ASSUME NEW t \in Threads, ~Free(t)', calls'[t].alive
                   PROVE  calls'[t].on = "join" <=> m.state = None
      BY <1>1
    <3>2. ~Free(t) /\ calls[t].alive /\ calls'[t].on = calls[t].on
      BY <3>1, ProgressedIs
    <3>3. QED
      BY <1>1, <3>2 DEF CallsOK
  <2>5. \A t \in Threads : ~Free(t)' /\ calls'[t].on = "answer" =>
          Within(calls'[t].key, server'.epoch, Len(server'.receipts))
    <3>1. SUFFICES ASSUME NEW t \in Threads, ~Free(t)', calls'[t].on = "answer"
                   PROVE  Within(calls'[t].key, server'.epoch, Len(server'.receipts))
      OBVIOUS
    <3>2. ~Free(t) /\ calls[t].on = "answer" /\ calls'[t].key = calls[t].key
      BY <3>1, ProgressedIs
    <3>3. Within(calls[t].key, server.epoch, Len(server.receipts)) /\ IsKey(calls[t].key)
      BY <1>1, <3>2 DEF CallsOK, IsCall
    <3>4. QED
      BY <1>1, <3>2, <3>3, WithinGrows
  <2>6. QED
    BY <1>1, <2>1, <2>2, <2>3, <2>4, <2>5 DEF CallsOK
<1>9. QED
  BY <1>1, <1>5, <1>7, <1>8 DEF Base

(***************************************************************************)
(* NamesOK is inductive.                                                   *)
(***************************************************************************)
LEMMA PageIs ==
  ASSUME Base
  PROVE  /\ m.state = None \/ IsState(m.state)
         /\ m.saved = None \/ IsIntent(m.saved)
         /\ m.feedback = None \/ IsReceipt(m.feedback)
         /\ m.uuids \in Nat /\ m.privateVersion \in Nat
         /\ m.dismissal = None \/ (m.dismissal.epoch \in Nat \ {0} /\ m.dismissal.version \in Nat)
         /\ m.state # None => m.saved = m.pending
  BY DEF Base, Page, Typed

LEMMA CleanIs == ASSUME Base, NamesOK PROVE Clean(server)
<1>1. DOMAIN server.receipts = 1..Len(server.receipts)
  BY ServerIs DEF Base
<1>2. QED
  BY <1>1 DEF NamesOK, Clean

\* The stored intent is kept or given up, or it is a new one.
LEMMA SavedMoves ==
  ASSUME Base, NEW T \in SUBSET Threads, MachineStep(T)
  PROVE  /\ m'.uuids = m.uuids \/ m'.uuids = m.uuids + 1
         /\ \/ m'.saved = None \/ m'.saved = m.saved
            \/ m'.saved # None /\ m'.saved.id = m'.uuids /\ m'.uuids = m.uuids + 1
<1>1. m.state # None => m.saved = m.pending
  BY PageIs
<1>2. CASE Quiet
  BY <1>2 DEF Quiet, Same
<1>3. CASE Asks
  BY <1>3 DEF Asks, Core, Page
<1>4. CASE Leaves
  BY <1>4 DEF Leaves, Core, Page
<1>5. ASSUME NEW t \in Threads, Took(t)
      PROVE  m'.uuids = m.uuids /\ (m'.saved = None \/ m'.saved = m.saved)
  BY <1>1, <1>5 DEF Took, AppliedTo, AdoptsSame, AdoptsNew
<1>6. ASSUME NEW t \in Threads, Entered(t)
      PROVE  m'.uuids = m.uuids /\ (m'.saved = None \/ m'.saved = m.saved)
  BY <1>6 DEF Entered, Welcomed
<1>7. ASSUME NEW t \in Threads, Confirmed(t) \/ Denied(t) PROVE m'.uuids = m.uuids /\ m'.saved = None
  BY <1>7 DEF Confirmed, Denied, Accepted, GivenUp, Core, Page
<1>8. QED
  BY <1>2, <1>3, <1>4, <1>5, <1>6, <1>7 DEF MachineStep

\* An answer in flight after a step of the machine was in flight before, or is for the stored intent.
LEMMA AnswerMoved ==
  ASSUME NEW T \in SUBSET Threads, Moved(T), Page(m'), NEW t \in Threads, ~Free(t)', calls'[t].on = "answer"
  PROVE  \/ /\ ~Free(t) /\ calls[t].on = "answer" /\ calls'[t].key = calls[t].key /\ calls'[t].id = calls[t].id
            /\ calls'[t].reply = calls[t].reply /\ t \notin T
         \/ /\ m'.saved # None /\ m'.saved = m'.pending /\ m'.state # None
            /\ calls'[t].key = Key(m'.saved.epoch, m'.saved.q) /\ calls'[t].id = m'.saved.id
            /\ calls'[t].reply = NoReply /\ t \in T
<1>1. CASE t \in T
  BY <1>1 DEF Moved, Fresh, Free, Page
<1>2. CASE t \notin T
  BY <1>2 DEF Moved, Alike, Free
<1>3. QED
  BY <1>1, <1>2

LEMMA MachineStepPage == ASSUME NEW T \in SUBSET Threads, MachineStep(T) PROVE Page(m')
  BY DEF MachineStep, Quiet, Asks, Leaves, Took, AppliedTo, Entered, Welcomed, Confirmed, Denied, Accepted, GivenUp, Core

LEMMA MachineStepNames == ASSUME Base, NamesOK, NEW T \in SUBSET Threads, MachineStep(T) PROVE NamesOK'
<1>1. server' = server /\ Moved(T) /\ Page(m')
  BY MachineStepPage DEF MachineStep
<1>2. /\ m'.uuids = m.uuids \/ m'.uuids = m.uuids + 1
      /\ \/ m'.saved = None \/ m'.saved = m.saved
         \/ m'.saved # None /\ m'.saved.id = m'.uuids /\ m'.uuids = m.uuids + 1
  BY SavedMoves
<1>3. m.uuids \in Nat /\ (m.saved # None => m.saved.id \in Nat /\ m.saved.id <= m.uuids)
  BY PageIs DEF IsIntent, NamesOK
<1>4. m'.saved # None => m'.saved.id \in Nat /\ m'.saved.id <= m'.uuids
  BY <1>2, <1>3
<1>5. ASSUME NEW t \in Threads, ~Free(t)', calls'[t].on = "answer"
      PROVE  /\ calls'[t].id <= m'.uuids
             /\ m'.saved # None /\ calls'[t].id = m'.saved.id => calls'[t].key = Key(m'.saved.epoch, m'.saved.q)
             /\ /\ ~calls'[t].reply.ok /\ calls'[t].reply.code = "refused"
                /\ calls'[t].key.epoch = server'.epoch
                => calls'[t].id \in server'.refused
  <2>1. CASE /\ ~Free(t) /\ calls[t].on = "answer" /\ calls'[t].key = calls[t].key /\ calls'[t].id = calls[t].id
             /\ calls'[t].reply = calls[t].reply
    <3>1. calls[t].id \in Nat /\ calls[t].id <= m.uuids
      BY <2>1 DEF Base, CallsOK, IsCall, NamesOK
    <3>2. m.saved # None /\ calls[t].id = m.saved.id => calls[t].key = Key(m.saved.epoch, m.saved.q)
      BY <2>1 DEF NamesOK
    <3>3. /\ ~calls[t].reply.ok /\ calls[t].reply.code = "refused" /\ calls[t].key.epoch = server.epoch
          => calls[t].id \in server.refused
      BY <2>1 DEF NamesOK
    <3>4. calls'[t].id <= m'.uuids
      BY <1>2, <1>3, <2>1, <3>1
    <3>5. m'.saved # None /\ calls'[t].id = m'.saved.id => m'.saved = m.saved
      BY <1>2, <1>3, <2>1, <3>1
    <3>6. QED
      BY <1>1, <2>1, <3>2, <3>3, <3>4, <3>5
  <2>2. CASE /\ m'.saved # None /\ calls'[t].key = Key(m'.saved.epoch, m'.saved.q) /\ calls'[t].id = m'.saved.id
             /\ calls'[t].reply = NoReply
    <3>1. NoReply.code # "refused"
      BY DEF NoReply
    <3>2. QED
      BY <1>4, <2>2, <3>1
  <2>3. QED
    BY <1>1, <1>5, <2>1, <2>2, AnswerMoved
<1>6. \A i \in DOMAIN server'.receipts : server'.receipts[i].id # 0 => server'.receipts[i].id \notin server'.refused
  BY <1>1 DEF NamesOK
<1>7. QED
  BY <1>4, <1>5, <1>6 DEF NamesOK

LEMMA ArrivesNames == ASSUME Base, NamesOK, NEW t \in Threads, Arrives(t) PROVE NamesOK'
<1>1. server' = server /\ m'.saved = m.saved /\ m'.uuids = m.uuids
  BY DEF Arrives
<1>2. ASSUME NEW u \in Threads, ~Free(u)', calls'[u].on = "answer"
      PROVE  /\ ~Free(u) /\ calls[u].on = "answer" /\ calls'[u].key = calls[u].key /\ calls'[u].id = calls[u].id
             /\ calls'[u].reply = calls[u].reply
  BY <1>2 DEF Arrives, Alike, Free
<1>3. QED
  BY <1>1, <1>2 DEF NamesOK

LEMMA ServerStepNames == ASSUME Base, NamesOK, ServerStep PROVE NamesOK'
<1>1. m' = m /\ Grows(server, server') /\ IsServer(server) /\ IsServer(server') /\ Clean(server')
  BY DEF ServerStep, Base, Grows
<1>2. ASSUME NEW t \in Threads, ~Free(t)', calls'[t].on = "answer"
      PROVE  /\ calls'[t].id <= m.uuids
             /\ m.saved # None /\ calls'[t].id = m.saved.id => calls'[t].key = Key(m.saved.epoch, m.saved.q)
             /\ /\ ~calls'[t].reply.ok /\ calls'[t].reply.code = "refused"
                /\ calls'[t].key.epoch = server'.epoch
                => calls'[t].id \in server'.refused
  <2>1. ~Free(t) /\ calls[t].on = "answer" /\ calls'[t].key = calls[t].key /\ calls'[t].id = calls[t].id
    BY <1>2, ProgressedIs
  <2>2. /\ calls[t].id <= m.uuids
        /\ m.saved # None /\ calls[t].id = m.saved.id => calls[t].key = Key(m.saved.epoch, m.saved.q)
        /\ ~calls[t].reply.ok /\ calls[t].reply.code = "refused" /\ calls[t].key.epoch = server.epoch =>
             calls[t].id \in server.refused
    BY <2>1 DEF NamesOK
  <2>3. calls[t].key.epoch \in Nat /\ calls[t].key.epoch <= server.epoch
    BY <2>1 DEF Base, CallsOK, Within, IsCall, IsKey
  <2>4. ASSUME ~calls'[t].reply.ok, calls'[t].reply.code = "refused", calls'[t].key.epoch = server'.epoch
        PROVE  calls'[t].id \in server'.refused
    <3>1. \/ calls'[t].reply = calls[t].reply
          \/ ~calls'[t].reply.ok /\ calls'[t].reply.code = "refused" => calls'[t].id \in server'.refused
      BY <2>1 DEF ServerStep, Progressed, Free
    <3>2. CASE calls'[t].reply = calls[t].reply
      <4>1. server'.epoch = server.epoch
        BY <1>1, <2>1, <2>3, <2>4, ServerIs DEF Grows
      <4>2. server.refused \subseteq server'.refused
        BY <1>1, <4>1, ServerIs DEF Grows
      <4>3. QED
        BY <2>1, <2>2, <2>4, <3>2, <4>1, <4>2
    <3>3. QED
      BY <2>4, <3>1, <3>2
  <2>5. QED
    BY <2>1, <2>2, <2>4
<1>3. DOMAIN server'.receipts = 1..Len(server'.receipts)
  BY <1>1, ServerIs
<1>4. QED
  BY <1>1, <1>2, <1>3 DEF NamesOK, Clean

(***************************************************************************)
(* What was dismissed.                                                     *)
(***************************************************************************)
\* Nothing is joining once the page has a state, and a new join has no reply.
LEMMA WelcomeIs ==
  ASSUME Base
  PROVE  /\ \A t \in Threads : Welcome(t) => m.state = None /\ IsState(calls[t].reply.state)
         /\ \A T \in SUBSET Threads : Moved(T) =>
              \A t \in Threads : Welcome(t)' =>
                Welcome(t) /\ m.state = None /\ calls'[t].reply = calls[t].reply /\ t \notin T
         /\ \A u \in Threads : Arrives(u) => \A t \in Threads : ~Welcome(t)'
<1>1. ASSUME NEW t \in Threads, Welcome(t) PROVE m.state = None /\ IsState(calls[t].reply.state)
  <2>1. HasState(calls[t]) /\ ~Free(t) /\ calls[t].alive /\ calls[t].on = "join"
    BY <1>1, WelcomeState DEF Welcome, Joining
  <2>2. QED
    BY <2>1 DEF Base, CallsOK, IsCall
<1>2. ASSUME NEW T \in SUBSET Threads, Moved(T), NEW t \in Threads, Welcome(t)'
      PROVE  Welcome(t) /\ m.state = None /\ calls'[t].reply = calls[t].reply /\ t \notin T
  BY <1>1, <1>2, MovedIs
<1>3. ASSUME NEW u \in Threads, Arrives(u), NEW t \in Threads PROVE ~Welcome(t)'
  <2>1. CASE t = u
    BY <1>3, <2>1 DEF Arrives, Welcome
  <2>2. CASE t # u
    BY <1>3, <2>2 DEF Arrives, Welcome, Joining, Free
  <2>3. QED
    BY <2>1, <2>2
<1>4. QED
  BY <1>1, <1>2, <1>3

LEMMA MineIs ==
  ASSUME Base, m.state # None
  PROVE  /\ Mine(m) \in Held /\ IsCopy(Mine(m)) /\ Behind(Mine(m), server) /\ IsState(m.state)
         /\ m.state.epoch \in Nat \ {0} /\ m.state.epoch <= server.epoch
         /\ m.state.epoch = server.epoch => m.privateVersion <= server.version
         /\ Len(m.state.receipts) \in Nat /\ m.privateVersion \in Nat
<1>1. Mine(m) \in Held
  BY HeldIs
<1>2. IsCopy(Mine(m)) /\ Behind(Mine(m), server)
  BY <1>1 DEF Base, CopiesOK
<1>3. IsState(m.state) /\ m.privateVersion \in Nat
  BY PageIs
<1>4. Len(m.state.receipts) \in Nat
  BY <1>3 DEF IsState
<1>5. QED
  BY <1>1, <1>2, <1>3, <1>4 DEF Mine, Behind, IsState

LEMMA MachineStepDismissal == ASSUME Base, DismissalOK, NEW T \in SUBSET Threads, MachineStep(T) PROVE DismissalOK'
<1>1. server' = server /\ Moved(T)
  BY DEF MachineStep
<1>2. CASE Leaves
  <2>1. /\ m.state # None /\ m'.state.epoch = m.state.epoch
        /\ m'.dismissal = [epoch |-> m.state.epoch, version |-> m.feedback.version]
        /\ m'.dismissedVersion = m.feedback.version
        /\ m.privateVersion >= m.feedback.version /\ m.feedback # None
    BY <1>2 DEF Leaves, Core
  <2>2. m.feedback.version \in Nat
    BY <2>1, PageIs DEF IsReceipt
  <2>3. /\ m.state.epoch \in Nat \ {0} /\ m.state.epoch <= server.epoch /\ m.privateVersion \in Nat
        /\ m.state.epoch = server.epoch => m.privateVersion <= server.version
    BY <2>1, MineIs
  <2>4. server.version \in Nat /\ server.epoch \in Nat
    BY ServerIs DEF Base
  <2>5. NoLater(m'.dismissal, server'.epoch, server'.version)
    BY <1>1, <2>1, <2>2, <2>3, <2>4 DEF NoLater
  <2>6. m'.dismissedVersion = m'.dismissal.version
    BY <2>1
  <2>7. \A t \in Threads : ~Welcome(t)'
    BY <1>1, <2>1, WelcomeIs
  <2>8. QED
    BY <2>5, <2>6, <2>7 DEF DismissalOK
<1>3. ASSUME m'.dismissal = m.dismissal,
             m'.state # None /\ m'.dismissal.epoch = m'.state.epoch => m'.dismissedVersion = m'.dismissal.version
      PROVE  DismissalOK'
  <2>1. NoLater(m'.dismissal, server'.epoch, server'.version)
    BY <1>1, <1>3 DEF DismissalOK
  <2>2. \A t \in Threads : Welcome(t)' =>
          NoLater(m'.dismissal, calls'[t].reply.state.epoch, calls'[t].reply.state.version)
    BY <1>1, <1>3, WelcomeIs DEF DismissalOK
  <2>3. QED
    BY <1>3, <2>1, <2>2 DEF DismissalOK
<1>4. CASE Quiet
  BY <1>3, <1>4 DEF Quiet, Same, DismissalOK
<1>5. CASE Asks
  BY <1>3, <1>5 DEF Asks, Core, DismissalOK
<1>6. ASSUME NEW t \in Threads, Took(t) PROVE DismissalOK'
  <2>1. CASE AdoptsSame(m, m', calls[t].reply.state)
    BY <1>3, <2>1 DEF AdoptsSame, Adopts, DismissalOK
  <2>2. CASE AdoptsNew(m, m', calls[t].reply.state)
    BY <1>3, <2>2 DEF AdoptsNew, Adopts, ReadDismissed
  <2>3. QED
    BY <1>6, <2>1, <2>2 DEF Took, AppliedTo
<1>7. ASSUME NEW t \in Threads, Entered(t) PROVE DismissalOK'
  BY <1>3, <1>7 DEF Entered, Welcomed, ReadDismissed
<1>8. ASSUME NEW t \in Threads, Confirmed(t) \/ Denied(t) PROVE DismissalOK'
  BY <1>3, <1>8 DEF Confirmed, Denied, Accepted, GivenUp, Core, DismissalOK
<1>9. QED
  BY <1>2, <1>4, <1>5, <1>6, <1>7, <1>8 DEF MachineStep

LEMMA ArrivesDismissal == ASSUME Base, DismissalOK, NEW t \in Threads, Arrives(t) PROVE DismissalOK'
<1>1. server' = server /\ m'.state = None /\ m'.dismissal = m.dismissal
  BY DEF Arrives
<1>2. \A u \in Threads : ~Welcome(u)'
  BY WelcomeIs
<1>3. QED
  BY <1>1, <1>2 DEF DismissalOK

LEMMA NoLaterGrows ==
  ASSUME NEW s, NEW z, NEW d, IsServer(s), Grows(s, z), NoLater(d, s.epoch, s.version),
         d = None \/ (d.epoch \in Nat \ {0} /\ d.version \in Nat)
  PROVE  NoLater(d, z.epoch, z.version)
<1>1. IsServer(z)
  BY DEF Grows
<1>2. s.epoch \in Nat \ {0} /\ z.epoch \in Nat \ {0} /\ s.version \in Nat /\ z.version \in Nat
  BY <1>1, ServerIs
<1>3. z.epoch > s.epoch \/ (z.epoch = s.epoch /\ z.version >= s.version)
  BY DEF Grows
<1>4. CASE d = None
  BY <1>2, <1>4, NoneIs DEF NoLater
<1>5. CASE d.epoch \in Nat \ {0} /\ d.version \in Nat
  BY <1>2, <1>3, <1>5 DEF NoLater
<1>6. QED
  BY <1>4, <1>5

LEMMA ServerStepDismissal == ASSUME Base, DismissalOK, ServerStep PROVE DismissalOK'
<1>1. m' = m /\ Grows(server, server') /\ IsServer(server) /\ IsServer(server')
  BY DEF ServerStep, Base, Grows
<1>2. NoLater(m.dismissal, server'.epoch, server'.version)
  BY <1>1, PageIs, NoLaterGrows DEF DismissalOK
<1>3. ASSUME NEW t \in Threads, Welcome(t)'
      PROVE  NoLater(m.dismissal, calls'[t].reply.state.epoch, calls'[t].reply.state.version)
  <2>1. (Welcome(t) /\ calls'[t].reply = calls[t].reply) \/ calls'[t].reply.state = State(server')
    BY <1>3, ProgressedIs
  <2>2. State(server').epoch = server'.epoch /\ State(server').version = server'.version
    BY <1>1, StateIs
  <2>3. QED
    BY <1>2, <2>1, <2>2 DEF DismissalOK
<1>4. QED
  BY <1>1, <1>2, <1>3 DEF DismissalOK

\* The page has not been taken back.
NotBack == m.state # None => m'.state # None /\ m'.state.epoch >= m.state.epoch

\* While the stored intent and the dismissal are the same, and nobody is welcomed anew.
LEMMA DismissalKept ==
  ASSUME Base, DismissalForward, server' = server, m'.dismissal = m.dismissal,
         m'.saved = m.saved \/ m'.saved = None,
         \A t \in Threads : Welcome(t)' => Welcome(t) /\ calls'[t].reply = calls[t].reply,
         m'.state # None => NoLater(m.dismissal, m'.state.epoch, m'.privateVersion),
         m'.feedback # None /\ m.dismissal.epoch = m'.feedback.epoch => m'.feedback.version > m.dismissal.version
  PROVE  DismissalForward'
<1>1. ASSUME m'.saved # None, m'.saved.epoch = m'.dismissal.epoch
      PROVE  /\ m'.saved.epoch = server'.epoch /\ m'.saved.q \in DOMAIN server'.receipts =>
                  server'.receipts[m'.saved.q].version > m'.dismissal.version
             /\ \A t \in Threads :
                  Welcome(t)' /\ calls'[t].reply.state.epoch = m'.saved.epoch
                    /\ m'.saved.q \in DOMAIN calls'[t].reply.state.receipts =>
                  calls'[t].reply.state.receipts[m'.saved.q] > m'.dismissal.version
  <2>1. m'.saved = m.saved /\ m.saved # None /\ m.saved.epoch = m.dismissal.epoch
    BY <1>1
  <2>2. QED
    BY <2>1 DEF DismissalForward
<1>2. QED
  BY <1>1 DEF DismissalForward

LEMMA LeavesForward ==
  ASSUME Base, NEW T \in SUBSET Threads, Moved(T), server' = server, Leaves PROVE DismissalForward'
<1>1. /\ m.state # None /\ m'.state.epoch = m.state.epoch /\ m'.saved = None
      /\ m'.dismissal = [epoch |-> m.state.epoch, version |-> m.feedback.version]
      /\ m.privateVersion >= m.feedback.version /\ m.feedback # None /\ m'.privateVersion = m.privateVersion
      /\ m'.feedback # None => m'.feedback.version > m.feedback.version
  BY DEF Leaves, Core, Page
<1>2. m.feedback.version \in Nat /\ m.privateVersion \in Nat /\ m.state.epoch \in Nat
  BY <1>1, PageIs DEF IsReceipt, IsState
<1>3. NoLater(m'.dismissal, m'.state.epoch, m'.privateVersion)
  BY <1>1, <1>2 DEF NoLater
<1>4. QED
  BY <1>1, <1>3 DEF DismissalForward

LEMMA AsksForward ==
  ASSUME Base, DismissalForward, NEW T \in SUBSET Threads, Moved(T), server' = server, Asks
  PROVE  DismissalForward'
<1>1. /\ m.state # None /\ m'.state.epoch = m.state.epoch /\ m'.state.receipts = m.state.receipts
      /\ m'.state # None /\ m'.saved = m'.pending /\ m'.saved # None
      /\ m'.dismissal = m.dismissal /\ m'.feedback = None /\ m'.privateVersion = m.privateVersion
      /\ m'.saved.epoch = m'.state.epoch /\ m'.saved.q = Len(m'.state.receipts) + 1
  BY DEF Asks, Core, Page, Shown
<1>2. NoLater(m.dismissal, m.state.epoch, m.privateVersion)
  BY <1>1 DEF DismissalForward
<1>3. /\ Behind(Mine(m), server) /\ m.privateVersion \in Nat /\ Len(m.state.receipts) \in Nat
      /\ IsServer(server)
  BY <1>1, MineIs DEF Base
<1>4. DOMAIN server.receipts = 1..Len(server.receipts) /\ Len(server.receipts) \in Nat
      /\ \A i \in 1..Len(server.receipts) : server.receipts[i].version \in Nat
  BY <1>3, ServerIs
<1>5. m.dismissal = None \/ m.dismissal.version \in Nat
  BY PageIs
<1>6. m.dismissal = None => m.dismissal.epoch # m.state.epoch
  BY <1>1, MineIs, NoneIs
<1>7. ASSUME m'.saved.epoch = m'.dismissal.epoch, m'.saved.epoch = server'.epoch,
             m'.saved.q \in DOMAIN server'.receipts
      PROVE  server'.receipts[m'.saved.q].version > m'.dismissal.version
  <2>1. PICK i \in 1..Len(server.receipts) : i = m'.saved.q
    BY <1>4, <1>7
  <2>2. i = Len(m.state.receipts) + 1 /\ m.state.epoch = server.epoch
    BY <1>1, <1>7, <2>1
  <2>3. i \in (Len(m.state.receipts) + 1)..Len(server.receipts)
    BY <1>3, <1>4, <2>1, <2>2
  <2>4. server.receipts[i].version > m.privateVersion
    BY <1>3, <2>2, <2>3 DEF Behind, Mine
  <2>5. m.dismissal.version \in Nat /\ m.dismissal.version <= m.privateVersion
    BY <1>1, <1>2, <1>5, <1>6, <1>7 DEF NoLater
  <2>6. server.receipts[i].version \in Nat
    BY <1>4
  <2>7. QED
    BY <1>1, <1>3, <2>1, <2>4, <2>5, <2>6
<1>8. \A t \in Threads : ~Welcome(t)'
  BY <1>1, WelcomeIs
<1>9. NoLater(m'.dismissal, m'.state.epoch, m'.privateVersion)
  BY <1>1, <1>2
<1>10. QED
  BY <1>1, <1>7, <1>8, <1>9 DEF DismissalForward

\* A version above that of the page is above what was dismissed.
LEMMA AboveDismissed ==
  ASSUME Base, DismissalForward, m.state # None, m.dismissal.epoch = m.state.epoch, NEW v \in Nat, v > m.privateVersion
  PROVE  v > m.dismissal.version
<1>1. NoLater(m.dismissal, m.state.epoch, m.privateVersion)
  BY DEF DismissalForward
<1>2. m.privateVersion \in Nat /\ m.state.epoch \in Nat \ {0}
  BY MineIs
<1>3. m.dismissal.version \in Nat
  BY <1>2, PageIs, NoneIs
<1>4. QED
  BY <1>1, <1>2, <1>3 DEF NoLater

LEMMA TookForward ==
  ASSUME Base, DismissalForward, DismissalOK', NotBack, NEW T \in SUBSET Threads, Moved(T), server' = server,
         NEW t \in Threads, Took(t)
  PROVE  DismissalForward'
<1> DEFINE st == calls[t].reply.state
<1>1. m.state # None /\ HasState(calls[t]) /\ m.saved = m.pending /\ m'.state # None /\ IsState(st)
      /\ m'.state.epoch = st.epoch /\ m'.privateVersion = st.version /\ m'.dismissal = m.dismissal
  BY PageIs DEF Took, AppliedTo, AdoptsSame, AdoptsNew, Adopts, Base, CallsOK, IsCall, HasState, Free
<1>2. m'.saved = m.saved \/ m'.saved = None
  BY <1>1 DEF Took, AppliedTo, AdoptsSame, AdoptsNew
<1>3. \A u \in Threads : Welcome(u)' => Welcome(u) /\ calls'[u].reply = calls[u].reply
  BY WelcomeIs
<1>4. NoLater(m.dismissal, m.state.epoch, m.privateVersion)
  BY <1>1 DEF DismissalForward
<1>5. m.state.epoch \in Nat \ {0} /\ m.privateVersion \in Nat /\ st.epoch \in Nat \ {0} /\ st.version \in Nat
      /\ Len(m.state.receipts) \in Nat
  BY <1>1, MineIs DEF IsState
<1>6. m.dismissal = None \/ (m.dismissal.epoch \in Nat \ {0} /\ m.dismissal.version \in Nat)
  BY PageIs
<1>7. m.dismissal = None => m.dismissal.epoch = 0
  BY NoneIs
<1>8. Unseen(m', st) /\ m.dismissal.epoch = m'.feedback.epoch => m'.feedback.version > m.dismissal.version
  BY <1>1 DEF Unseen, DismissalOK
<1>9. CASE AdoptsSame(m, m', st)
  <2>1. m.state.epoch = st.epoch /\ m.privateVersion <= st.version /\ Len(m.state.receipts) <= Len(st.receipts)
    BY <1>9 DEF AdoptsSame
  <2>2. NoLater(m.dismissal, st.epoch, st.version)
    BY <1>4, <1>5, <1>6, <1>7, <2>1 DEF NoLater
  <2>3. CASE m'.feedback = m.feedback \/ Unseen(m', st)
    <3>1. m'.feedback # None /\ m.dismissal.epoch = m'.feedback.epoch => m'.feedback.version > m.dismissal.version
      BY <1>8, <2>3 DEF DismissalForward
    <3>2. QED
      BY <1>1, <1>2, <1>3, <2>2, <3>1, DismissalKept
  <2>4. CASE /\ m.pending # None /\ m.pending.q = Len(m.state.receipts) + 1 /\ m.pending.q <= Len(st.receipts)
             /\ m'.feedback # None /\ m'.feedback.epoch = st.epoch /\ m'.feedback.q = m.pending.q
             /\ m'.feedback.version = st.receipts[m.pending.q]
    <3>1. Mine(m) \in Held /\ Copied(st) \in Held
      BY <1>1, HeldIs
    <3>2. Agree(Mine(m), Copied(st))
      BY <3>1 DEF Base, CopiesOK
    <3>3. Len(st.receipts) \in Nat /\ st.receipts \in Seq(Nat)
      BY <1>1 DEF IsState
    <3>4. PICK q \in Nat : q = m.pending.q
      BY <1>5, <2>4
    <3>5. q \in (Len(m.state.receipts) + 1)..Len(st.receipts) /\ q \in 1..Len(st.receipts)
      BY <1>5, <2>4, <3>3, <3>4
    <3>6. st.receipts[q] > m.privateVersion
      <4>1. \A i \in (Len(m.state.receipts) + 1)..Len(st.receipts) : st.receipts[i] > m.privateVersion
        BY <2>1, <3>2 DEF Agree, Mine, Copied
      <4>2. QED
        BY <3>5, <4>1
    <3>7. st.receipts[q] \in Nat
      <4>1. \A R \in Seq(Nat) : \A i \in 1..Len(R) : R[i] \in Nat
        OBVIOUS
      <4>2. QED
        BY <3>3, <3>5, <4>1
    <3>8. m.dismissal.epoch = m'.feedback.epoch => m'.feedback.version > m.dismissal.version
      BY <1>1, <2>1, <2>4, <3>4, <3>6, <3>7, AboveDismissed
    <3>9. QED
      BY <1>1, <1>2, <1>3, <2>2, <3>8, DismissalKept
  <2>5. QED
    BY <1>9, <2>3, <2>4 DEF AdoptsSame
<1>10. CASE AdoptsNew(m, m', st)
  <2>1. st.epoch > m.state.epoch
    BY <1>1, <1>5, <1>10 DEF AdoptsNew, NotBack
  <2>2. NoLater(m.dismissal, st.epoch, st.version)
    BY <1>4, <1>5, <1>6, <1>7, <2>1 DEF NoLater
  <2>3. m'.feedback # None /\ m.dismissal.epoch = m'.feedback.epoch => m'.feedback.version > m.dismissal.version
    BY <1>8, <1>10 DEF AdoptsNew
  <2>4. QED
    BY <1>1, <1>2, <1>3, <2>2, <2>3, DismissalKept
<1>11. QED
  BY <1>9, <1>10 DEF Took, AppliedTo

LEMMA EnteredForward ==
  ASSUME Base, DismissalForward, DismissalOK, DismissalOK', NEW T \in SUBSET Threads, Moved(T), server' = server,
         NEW t \in Threads, Entered(t)
  PROVE  DismissalForward'
<1> DEFINE st == calls[t].reply.state
<1>1. /\ Welcome(t) /\ m'.state # None /\ m'.state.epoch = st.epoch /\ m'.privateVersion = st.version
      /\ m'.dismissal = m.dismissal /\ (m'.saved = m.saved \/ m'.saved = None)
  BY DEF Entered, Welcomed
<1>2. \A u \in Threads : Welcome(u)' => Welcome(u) /\ calls'[u].reply = calls[u].reply
  BY WelcomeIs
<1>3. NoLater(m.dismissal, st.epoch, st.version)
  BY <1>1 DEF DismissalOK
<1>4. Unseen(m', st) /\ m.dismissal.epoch = m'.feedback.epoch => m'.feedback.version > m.dismissal.version
  BY <1>1 DEF Unseen, DismissalOK
<1>5. IsState(st)
  BY <1>1, WelcomeIs
<1>6. DOMAIN st.receipts = 1..Len(st.receipts)
  BY <1>5, LenIs
<1>7. CASE m'.feedback = None \/ Unseen(m', st)
  BY <1>1, <1>2, <1>3, <1>4, <1>7, DismissalKept
<1>8. CASE /\ m.saved # None /\ m.saved.epoch = st.epoch /\ m.saved.q \in 1..Len(st.receipts)
           /\ m'.feedback # None /\ m'.feedback.epoch = st.epoch
           /\ m'.feedback.version = st.receipts[m.saved.q]
  <2>1. m.dismissal.epoch = m'.feedback.epoch => m'.feedback.version > m.dismissal.version
    BY <1>1, <1>6, <1>8 DEF DismissalForward
  <2>2. QED
    BY <1>1, <1>2, <1>3, <2>1, DismissalKept
<1>9. QED
  BY <1>7, <1>8 DEF Entered, Welcomed

LEMMA AcceptedForward ==
  ASSUME Base, DismissalForward, NEW T \in SUBSET Threads, Moved(T), server' = server,
         NEW t \in Threads, Confirmed(t)
  PROVE  DismissalForward'
<1> DEFINE r == calls[t].reply.receipt
<1>1. /\ m.state # None /\ HasReceipt(calls[t]) /\ m'.state # None /\ m'.state.epoch = m.state.epoch
      /\ m'.privateVersion = m.privateVersion /\ m'.dismissal = m.dismissal /\ m'.feedback = r
      /\ m'.pending = None /\ m'.saved = None
      /\ m.pending # None /\ r.epoch = m.state.epoch /\ r.q = m.pending.q
  BY DEF Confirmed, Accepted, Core, Page
<1>2. \A u \in Threads : Welcome(u)' => Welcome(u) /\ calls'[u].reply = calls[u].reply
  BY WelcomeIs
<1>3. m.pending.q = Len(m.state.receipts) + 1
  BY <1>1 DEF Base, Page, Shown
<1>4. Mine(m) \in Held /\ Len(m.state.receipts) \in Nat
  BY <1>1, MineIs
<1>5. Later(r, Mine(m))
  BY <1>1, <1>4 DEF Base, CopiesOK
<1>6. r.version \in Nat
  BY <1>1 DEF HasReceipt, IsCall, IsReceipt, Base, CallsOK, Free
<1>7. r.version > m.privateVersion
  BY <1>1, <1>3, <1>4, <1>5 DEF Later, Mine
<1>8. m.dismissal.epoch = m'.feedback.epoch => m'.feedback.version > m.dismissal.version
  BY <1>1, <1>6, <1>7, AboveDismissed
<1>9. NoLater(m.dismissal, m'.state.epoch, m'.privateVersion)
  BY <1>1 DEF DismissalForward
<1>10. QED
  BY <1>1, <1>2, <1>8, <1>9, DismissalKept

LEMMA MachineStepForward ==
  ASSUME Base, DismissalForward, DismissalOK, DismissalOK', NotBack, NEW T \in SUBSET Threads, MachineStep(T)
  PROVE  DismissalForward'
<1>1. server' = server /\ Moved(T)
  BY DEF MachineStep
<1>2. \A u \in Threads : Welcome(u)' => Welcome(u) /\ calls'[u].reply = calls[u].reply
  BY <1>1, WelcomeIs
<1>3. CASE Quiet
  <2>1. /\ m'.dismissal = m.dismissal /\ m'.saved = m.saved /\ m'.feedback = m.feedback
        /\ m'.state # None => m.state # None /\ m'.state.epoch = m.state.epoch
        /\ m'.privateVersion = m.privateVersion
    BY <1>3 DEF Quiet, Same
  <2>2. m'.state # None => NoLater(m.dismissal, m'.state.epoch, m'.privateVersion)
    BY <2>1 DEF DismissalForward
  <2>3. m'.feedback # None /\ m.dismissal.epoch = m'.feedback.epoch => m'.feedback.version > m.dismissal.version
    BY <2>1 DEF DismissalForward
  <2>4. QED
    BY <1>1, <1>2, <2>1, <2>2, <2>3, DismissalKept
<1>4. ASSUME NEW t \in Threads, Denied(t) PROVE DismissalForward'
  <2>1. /\ m'.dismissal = m.dismissal /\ m'.saved = None /\ m'.feedback = m.feedback /\ m.state # None
        /\ m'.state.epoch = m.state.epoch /\ m'.privateVersion = m.privateVersion
    BY <1>4 DEF Denied, GivenUp, Core, Page
  <2>2. NoLater(m.dismissal, m'.state.epoch, m'.privateVersion)
    BY <2>1 DEF DismissalForward
  <2>3. m'.feedback # None /\ m.dismissal.epoch = m'.feedback.epoch => m'.feedback.version > m.dismissal.version
    BY <2>1 DEF DismissalForward
  <2>4. QED
    BY <1>1, <1>2, <2>1, <2>2, <2>3, DismissalKept
<1>5. QED
  BY <1>1, <1>3, <1>4, AsksForward, LeavesForward, TookForward, EnteredForward, AcceptedForward DEF MachineStep

LEMMA ArrivesForward ==
  ASSUME Base, DismissalForward, NEW t \in Threads, Arrives(t) PROVE DismissalForward'
<1>1. server' = server /\ m'.state = None /\ m'.dismissal = m.dismissal /\ m'.saved = m.saved /\ m'.feedback = None
  BY DEF Arrives
<1>2. \A u \in Threads : ~Welcome(u)'
  BY WelcomeIs
<1>3. QED
  BY <1>1, <1>2, DismissalKept

LEMMA ServerStepForward ==
  ASSUME Base, DismissalForward, DismissalOK, ServerStep PROVE DismissalForward'
<1>1. m' = m /\ Grows(server, server') /\ IsServer(server) /\ IsServer(server')
  BY DEF ServerStep, Base, Grows
<1>2. /\ server.epoch \in Nat /\ server'.epoch \in Nat /\ server.version \in Nat
      /\ DOMAIN server.receipts = 1..Len(server.receipts) /\ DOMAIN server'.receipts = 1..Len(server'.receipts)
      /\ Len(server.receipts) \in Nat /\ Len(server'.receipts) \in Nat
      /\ \A i \in 1..Len(server'.receipts) : server'.receipts[i].version \in Nat
  BY <1>1, ServerIs
<1>3. ASSUME m.saved # None, m.saved.epoch = m.dismissal.epoch, m.saved.epoch = server'.epoch,
             m.saved.q \in DOMAIN server'.receipts
      PROVE  server'.receipts[m.saved.q].version > m.dismissal.version
  <2>1. Within(m.saved, server.epoch, Len(server.receipts)) /\ m.saved.epoch \in Nat \ {0}
    BY <1>3, PageIs DEF Base, SavedOK, IsIntent, IsKey
  <2>2. server'.epoch = server.epoch
    BY <1>1, <1>2, <1>3, <2>1 DEF Within, Grows
  <2>3. PICK i \in 1..Len(server'.receipts) : i = m.saved.q
    BY <1>2, <1>3
  <2>4. CASE i <= Len(server.receipts)
    <3>1. i \in 1..Len(server.receipts)
      BY <1>2, <2>4
    <3>2. server'.receipts[i] = server.receipts[i]
      BY <1>1, <1>2, <2>2, <3>1 DEF Grows
    <3>3. server.receipts[i].version > m.dismissal.version
      BY <1>2, <1>3, <2>2, <2>3, <3>1 DEF DismissalForward
    <3>4. QED
      BY <2>3, <3>2, <3>3
  <2>5. CASE i > Len(server.receipts)
    <3>1. server'.receipts[i].version > server.version
      BY <1>1, <1>2, <2>2, <2>5 DEF Grows
    <3>2. m.dismissal.version \in Nat
      BY <1>3, <2>1, PageIs, NoneIs
    <3>3. m.dismissal.version <= server.version
      BY <1>3, <2>2 DEF DismissalOK, NoLater
    <3>4. server'.receipts[i].version \in Nat
      BY <1>2
    <3>5. QED
      BY <1>2, <2>3, <3>1, <3>2, <3>3, <3>4
  <2>6. QED
    BY <1>2, <2>4, <2>5
<1>4. ASSUME m.saved # None, m.saved.epoch = m.dismissal.epoch, NEW t \in Threads, Welcome(t)',
             calls'[t].reply.state.epoch = m.saved.epoch, m.saved.q \in DOMAIN calls'[t].reply.state.receipts
      PROVE  calls'[t].reply.state.receipts[m.saved.q] > m.dismissal.version
  <2>1. CASE Welcome(t) /\ calls'[t].reply = calls[t].reply
    BY <1>4, <2>1 DEF DismissalForward
  <2>2. CASE calls'[t].reply.state = State(server')
    <3>1. /\ State(server').epoch = server'.epoch
          /\ IsState(State(server')) /\ Len(State(server').receipts) = Len(server'.receipts)
          /\ \A i \in 1..Len(server'.receipts) : State(server').receipts[i] = server'.receipts[i].version
      BY <1>1, StateIs
    <3>2. DOMAIN State(server').receipts = 1..Len(server'.receipts)
      BY <3>1, LenIs
    <3>3. QED
      BY <1>2, <1>3, <1>4, <2>2, <3>1, <3>2
  <2>3. QED
    BY <1>4, <2>1, <2>2, ProgressedIs
<1>5. QED
  BY <1>1, <1>3, <1>4 DEF DismissalForward

(***************************************************************************)
(* The learner's own answers.                                              *)
(***************************************************************************)
LEMMA StateBehind ==
  ASSUME Base, NEW t \in Threads, HasState(calls[t]), NEW st, st = calls[t].reply.state
  PROVE  /\ IsState(st) /\ st.epoch \in Nat \ {0} /\ Len(st.receipts) \in Nat /\ server.epoch \in Nat
         /\ Len(server.receipts) \in Nat /\ st.epoch <= server.epoch
         /\ st.epoch = server.epoch => Len(st.receipts) <= Len(server.receipts)
<1>1. Copied(st) \in Held
  BY HeldIs
<1>2. Behind(Copied(st), server) /\ IsServer(server)
  BY <1>1 DEF Base, CopiesOK
<1>3. IsState(st)
  BY DEF Base, CallsOK, IsCall, HasState, Free
<1>4. Len(st.receipts) \in Nat
  BY <1>3, LenIs
<1>5. QED
  BY <1>2, <1>3, <1>4, ServerIs DEF Behind, Copied, IsState

LEMMA SavedIs ==
  ASSUME Base, m.saved # None
  PROVE  /\ IsIntent(m.saved) /\ m.saved.epoch \in Nat \ {0} /\ m.saved.q \in 1..Questions
         /\ m.saved.epoch <= server.epoch /\ server.epoch \in Nat
         /\ \A t \in Threads : Welcome(t) => m.saved.epoch <= calls[t].reply.state.epoch
         /\ m.state # None => /\ m.pending = m.saved /\ m.saved.epoch = m.state.epoch
                              /\ m.saved.q = Len(m.state.receipts) + 1 /\ m.feedback = None
<1>1. IsIntent(m.saved) /\ (m.state # None => m.saved = m.pending) /\ server.epoch \in Nat
  BY PageIs, ServerIs DEF Base
<1>2. QED
  BY <1>1 DEF Base, SavedOK, Within, IsIntent, IsKey, Page, Shown

\* The stored intent is refused only when the server refuses it.
LEMMA DeniedIs ==
  ASSUME Base, NamesOK, NEW t \in Threads, Denied(t), m.saved # None, m.saved.epoch = server.epoch
  PROVE  m.saved.id \in server.refused
<1>1. m.state # None /\ ~Free(t) /\ calls[t].on = "answer" /\ ~calls[t].reply.ok /\ calls[t].reply.code = "refused"
      /\ m.pending # None /\ m.pending.id = calls[t].id /\ m.saved = m.pending
  BY SavedIs DEF Denied, GivenUp
<1>2. calls[t].key = Key(m.saved.epoch, m.saved.q)
  BY <1>1 DEF NamesOK
<1>3. calls[t].key.epoch = server.epoch
  BY <1>2, NoneIs
<1>4. QED
  BY <1>1, <1>3 DEF NamesOK

\* An intent the server could still accept stays stored.
LEMMA OpenStays ==
  ASSUME Base, NamesOK, NotBack, NEW T \in SUBSET Threads, MachineStep(T),
         m.saved # None, m.saved.epoch = server.epoch, m.saved.q > Len(server.receipts),
         m.saved.id \notin server.refused
  PROVE  m'.saved = m.saved
<1>1. /\ m.saved.epoch \in Nat \ {0} /\ m.saved.q \in Nat /\ server.epoch \in Nat
      /\ \A t \in Threads : Welcome(t) => m.saved.epoch <= calls[t].reply.state.epoch
      /\ m.state # None => m.pending = m.saved /\ m.saved.epoch = m.state.epoch /\ m.feedback = None
  BY SavedIs
<1>2. CASE Quiet
  BY <1>2 DEF Quiet, Same
<1>3. CASE Asks \/ Leaves
  BY <1>1, <1>3 DEF Asks, Leaves, Core
<1>4. ASSUME NEW t \in Threads, Took(t) PROVE m'.saved = m.saved
  <2>1. PICK st : st = calls[t].reply.state
    OBVIOUS
  <2>2. m.state # None /\ HasState(calls[t]) /\ (AdoptsSame(m, m', st) \/ AdoptsNew(m, m', st))
    BY <1>4, <2>1 DEF Took, AppliedTo
  <2>3. /\ st.epoch \in Nat \ {0} /\ Len(st.receipts) \in Nat /\ Len(server.receipts) \in Nat
        /\ st.epoch <= server.epoch /\ (st.epoch = server.epoch => Len(st.receipts) <= Len(server.receipts))
    BY <2>1, <2>2, StateBehind
  <2>4. CASE AdoptsSame(m, m', st)
    <3>1. st.epoch = server.epoch
      BY <1>1, <2>2, <2>4 DEF AdoptsSame
    <3>2. ~(m.pending.q <= Len(st.receipts))
      BY <1>1, <2>2, <2>3, <3>1
    <3>3. QED
      BY <2>4, <3>2 DEF AdoptsSame
  <2>5. CASE AdoptsNew(m, m', st)
    <3>1. m.state.epoch = server.epoch /\ m.state.epoch # st.epoch /\ m'.state.epoch = st.epoch
      BY <1>1, <2>2, <2>5 DEF AdoptsNew, Adopts
    <3>2. FALSE
      BY <1>1, <2>2, <2>3, <3>1 DEF NotBack
    <3>3. QED
      BY <3>2
  <2>6. QED
    BY <2>2, <2>4, <2>5
<1>5. ASSUME NEW t \in Threads, Entered(t) PROVE m'.saved = m.saved
  <2>1. PICK st : st = calls[t].reply.state
    OBVIOUS
  <2>2. Welcome(t) /\ Welcomed(m, m', st)
    BY <1>5, <2>1 DEF Entered
  <2>3. /\ st.epoch \in Nat \ {0} /\ Len(st.receipts) \in Nat /\ Len(server.receipts) \in Nat
        /\ st.epoch <= server.epoch /\ (st.epoch = server.epoch => Len(st.receipts) <= Len(server.receipts))
    BY <2>1, <2>2, StateBehind, WelcomeState
  <2>4. m.saved.epoch = st.epoch /\ ~(m.saved.q \in 1..Len(st.receipts))
    BY <1>1, <2>1, <2>2, <2>3
  <2>5. QED
    BY <2>2, <2>4 DEF Welcomed
<1>6. ASSUME NEW t \in Threads, Confirmed(t) PROVE FALSE
  <2>1. PICK r : r = calls[t].reply.receipt
    OBVIOUS
  <2>2. m.state # None /\ HasReceipt(calls[t]) /\ r.epoch = m.state.epoch /\ r.q = m.pending.q
    BY <1>6, <2>1 DEF Confirmed, Accepted
  <2>3. Given(r, server)
    BY <2>1, <2>2 DEF Base, CopiesOK
  <2>4. Len(server.receipts) \in Nat
    BY ServerIs DEF Base
  <2>5. QED
    BY <1>1, <2>2, <2>3, <2>4 DEF Given
<1>7. ASSUME NEW t \in Threads, Denied(t) PROVE FALSE
  BY <1>7, DeniedIs
<1>8. QED
  BY <1>2, <1>3, <1>4, <1>5, <1>6, <1>7 DEF MachineStep

LEMMA MachineStepOpen ==
  ASSUME Base, NamesOK, OwnForward, NotBack, NEW T \in SUBSET Threads, MachineStep(T),
         NEW t \in Threads, Open(t)'
  PROVE  Stored(calls[t].key.epoch, calls[t].key.q, calls[t].id)'
<1>1. server' = server /\ Moved(T) /\ Page(m')
  BY MachineStepPage DEF MachineStep
<1>2. ~Free(t)' /\ calls'[t].on = "answer" /\ calls'[t].reply = NoReply
      /\ calls'[t].key.epoch = server.epoch /\ calls'[t].key.q > Len(server.receipts)
      /\ calls'[t].id \notin server.refused
  BY <1>1 DEF Open, Waiting
<1>3. CASE /\ ~Free(t) /\ calls[t].on = "answer" /\ calls'[t].key = calls[t].key /\ calls'[t].id = calls[t].id
           /\ calls'[t].reply = calls[t].reply
  <2>1. Open(t)
    BY <1>2, <1>3 DEF Open, Waiting
  <2>2. /\ m.saved # None /\ m.saved.epoch = calls[t].key.epoch /\ m.saved.q = calls[t].key.q
        /\ m.saved.id = calls[t].id
    BY <2>1 DEF OwnForward, Stored
  <2>3. m'.saved = m.saved
    BY <1>2, <1>3, <2>2, OpenStays
  <2>4. QED
    BY <1>3, <2>2, <2>3 DEF Stored
<1>4. CASE m'.saved # None /\ calls'[t].key = Key(m'.saved.epoch, m'.saved.q) /\ calls'[t].id = m'.saved.id
  BY <1>4, NoneIs DEF Stored
<1>5. QED
  BY <1>1, <1>2, <1>3, <1>4, AnswerMoved

\* The page's part and the answer to a join, of Settled.
PageSettled(i) ==
  m.state # None =>
    /\ m.state.epoch = server.epoch
    /\ \/ i <= Len(m.state.receipts)
       \/ Stored(server.epoch, i, server.receipts[i].id)
       \/ m.feedback # None /\ m.feedback.q = i
WelcomeSettled(i) ==
  \A t \in Threads : Welcome(t) =>
    /\ calls[t].reply.state.epoch = server.epoch
    /\ i <= Len(calls[t].reply.state.receipts) \/ Stored(server.epoch, i, server.receipts[i].id)

LEMMA SettledIs == \A i : Settled(i) <=> PageSettled(i) /\ WelcomeSettled(i)
  BY DEF Settled, PageSettled, WelcomeSettled

LEMMA TookSettled ==
  ASSUME Base, NotBack, server' = server, NEW t \in Threads, Took(t), NEW i \in Nat, PageSettled(i)
  PROVE  PageSettled(i)'
<1>1. PICK st : st = calls[t].reply.state
  OBVIOUS
<1>2. m.state # None /\ HasState(calls[t]) /\ (AdoptsSame(m, m', st) \/ AdoptsNew(m, m', st))
  BY <1>1 DEF Took, AppliedTo
<1>3. /\ st.epoch \in Nat \ {0} /\ Len(st.receipts) \in Nat /\ st.epoch <= server.epoch /\ server.epoch \in Nat
  BY <1>1, <1>2, StateBehind
<1>4. /\ m.state.epoch = server.epoch
      /\ \/ i <= Len(m.state.receipts)
         \/ Stored(server.epoch, i, server.receipts[i].id)
         \/ m.feedback # None /\ m.feedback.q = i
  BY <1>2 DEF PageSettled
<1>5. Len(m.state.receipts) \in Nat
  BY <1>2, MineIs
<1>6. CASE AdoptsSame(m, m', st)
  <2>1. /\ m'.state.epoch = server.epoch /\ m'.state.receipts = st.receipts
        /\ Len(m.state.receipts) <= Len(st.receipts)
    BY <1>4, <1>6 DEF AdoptsSame, Adopts
  <2>2. CASE i <= Len(m.state.receipts)
    BY <1>3, <1>5, <2>1, <2>2 DEF PageSettled
  <2>3. CASE Stored(server.epoch, i, server.receipts[i].id)
    <3>1. m.saved # None /\ m.saved.q = i /\ m.pending = m.saved
      BY <1>2, <2>3, SavedIs DEF Stored
    <3>2. m'.saved = m.saved \/ i <= Len(st.receipts)
      BY <1>6, <3>1 DEF AdoptsSame
    <3>3. QED
      BY <2>1, <2>3, <3>2 DEF PageSettled, Stored
  <2>4. CASE m.feedback # None /\ m.feedback.q = i
    <3>1. m.pending = None
      BY <1>2, <2>4 DEF Base, Page, Shown
    <3>2. m'.feedback = m.feedback
      BY <1>6, <2>4, <3>1 DEF AdoptsSame
    <3>3. QED
      BY <2>1, <2>4, <3>2 DEF PageSettled
  <2>5. QED
    BY <1>4, <2>2, <2>3, <2>4
<1>7. CASE AdoptsNew(m, m', st)
  <2>1. m.state.epoch # st.epoch /\ m'.state.epoch = st.epoch
    BY <1>2, <1>7 DEF AdoptsNew, Adopts
  <2>2. FALSE
    BY <1>2, <1>3, <1>4, <2>1 DEF NotBack
  <2>3. QED
    BY <2>2
<1>8. QED
  BY <1>2, <1>6, <1>7

LEMMA EnteredSettled ==
  ASSUME Base, server' = server, NEW t \in Threads, Entered(t), NEW i \in Nat \ {0}, WelcomeSettled(i)
  PROVE  PageSettled(i)'
<1>1. PICK st : st = calls[t].reply.state
  OBVIOUS
<1>2. Welcome(t) /\ Welcomed(m, m', st)
  BY <1>1 DEF Entered
<1>3. Len(st.receipts) \in Nat
  BY <1>1, <1>2, StateBehind, WelcomeState
<1>4. st.epoch = server.epoch /\ (i <= Len(st.receipts) \/ Stored(server.epoch, i, server.receipts[i].id))
  BY <1>1, <1>2 DEF WelcomeSettled
<1>5. m'.state # None /\ m'.state.epoch = server.epoch /\ m'.state.receipts = st.receipts
  BY <1>2, <1>4 DEF Welcomed
<1>6. CASE i <= Len(st.receipts)
  BY <1>5, <1>6 DEF PageSettled
<1>7. CASE i > Len(st.receipts) /\ Stored(server.epoch, i, server.receipts[i].id)
  <2>1. m.saved # None /\ m.saved.epoch = st.epoch /\ m.saved.q = i
    BY <1>4, <1>7 DEF Stored
  <2>2. ~(m.saved.q \in 1..Len(st.receipts))
    BY <1>3, <1>7, <2>1
  <2>3. m'.saved = m.saved
    BY <1>2, <2>1, <2>2 DEF Welcomed
  <2>4. QED
    BY <1>5, <1>7, <2>3 DEF PageSettled, Stored
<1>8. QED
  BY <1>3, <1>4, <1>6, <1>7

\* An answer that is confirmed is shown; one the server has is not denied.
LEMMA AcceptedSettled ==
  ASSUME Base, NamesOK, server' = server, NEW t \in Threads, Confirmed(t) \/ Denied(t),
         NEW i \in DOMAIN server.receipts, server.receipts[i].id # 0, PageSettled(i)
  PROVE  PageSettled(i)'
<1>1. /\ m.state # None /\ m'.state # None /\ m'.state.epoch = m.state.epoch
      /\ m'.state.receipts = m.state.receipts /\ m.pending # None
  BY DEF Confirmed, Denied, Accepted, GivenUp, Core
<1>2. m.feedback = None
  BY <1>1 DEF Base, Page, Shown
<1>3. m.state.epoch = server.epoch /\ (i <= Len(m.state.receipts) \/ Stored(server.epoch, i, server.receipts[i].id))
  BY <1>1, <1>2 DEF PageSettled
<1>4. CASE i <= Len(m.state.receipts)
  BY <1>1, <1>3, <1>4 DEF PageSettled
<1>5. CASE Stored(server.epoch, i, server.receipts[i].id)
  <2>1. /\ m.saved # None /\ m.saved.epoch = server.epoch /\ m.saved.q = i /\ m.saved.id = server.receipts[i].id
        /\ m.pending = m.saved
    BY <1>1, <1>5, SavedIs DEF Stored
  <2>2. m.saved.id \notin server.refused
    BY <2>1 DEF NamesOK
  <2>3. ~Denied(t)
    BY <2>1, <2>2, DeniedIs
  <2>4. HasReceipt(calls[t]) /\ m'.feedback = calls[t].reply.receipt /\ calls[t].reply.receipt.q = i
    BY <2>1, <2>3 DEF Confirmed, Accepted
  <2>5. calls[t].reply.receipt # None
    BY <2>4, NoneIs DEF HasReceipt, Base, CallsOK, IsCall, IsReceipt, Free
  <2>6. QED
    BY <1>1, <1>3, <2>4, <2>5 DEF PageSettled
<1>6. QED
  BY <1>3, <1>4, <1>5

LEMMA MachineStepSettled ==
  ASSUME Base, NamesOK, NotBack, NEW T \in SUBSET Threads, MachineStep(T),
         NEW i \in DOMAIN server.receipts, server.receipts[i].id # 0, Settled(i)
  PROVE  Settled(i)'
<1>1. server' = server /\ Moved(T)
  BY DEF MachineStep
<1>2. PageSettled(i) /\ WelcomeSettled(i)
  BY SettledIs
<1>3. i \in Nat \ {0}
  BY ServerIs DEF Base
<1>4. PageSettled(i)'
  <2>1. CASE Quiet
    <3>1. /\ m'.state # None => /\ m.state # None /\ m'.state.epoch = m.state.epoch
                                /\ m'.state.receipts = m.state.receipts
          /\ m'.saved = m.saved /\ m'.feedback = m.feedback
      BY <2>1 DEF Quiet, Same
    <3>2. QED
      BY <1>1, <1>2, <3>1 DEF PageSettled, Stored
  <2>2. CASE Asks \/ Leaves
    <3>1. /\ m.state # None /\ m'.state # None /\ m'.state.epoch = m.state.epoch
          /\ m'.state.receipts = m.state.receipts /\ m.pending = None
          /\ m.feedback # None => m.feedback.q \in 1..Len(m.state.receipts)
      BY <2>2 DEF Asks, Leaves, Core
    <3>2. m.saved = None
      BY <3>1, PageIs
    <3>3. m.state.epoch = server.epoch /\ (i <= Len(m.state.receipts) \/ (m.feedback # None /\ m.feedback.q = i))
      BY <1>2, <3>1, <3>2 DEF PageSettled, Stored
    <3>4. Len(m.state.receipts) \in Nat
      BY <3>1, MineIs
    <3>5. i <= Len(m.state.receipts)
      BY <1>3, <3>1, <3>3, <3>4
    <3>6. QED
      BY <1>1, <3>1, <3>3, <3>5 DEF PageSettled
  <2>3. QED
    BY <1>1, <1>2, <1>3, <2>1, <2>2, TookSettled, EnteredSettled, AcceptedSettled DEF MachineStep
<1>5. WelcomeSettled(i)'
  <2>1. SUFFICES ASSUME NEW t \in Threads, Welcome(t)'
                 PROVE  /\ calls'[t].reply.state.epoch = server.epoch
                        /\ \/ i <= Len(calls'[t].reply.state.receipts)
                           \/ Stored(server.epoch, i, server.receipts[i].id)'
    BY <1>1 DEF WelcomeSettled
  <2>2. Welcome(t) /\ m.state = None /\ calls'[t].reply = calls[t].reply /\ t \notin T
    BY <1>1, <2>1, WelcomeIs
  <2>3. ~Asks /\ ~Leaves /\ \A u \in Threads : ~Took(u) /\ ~Confirmed(u) /\ ~Denied(u)
    BY <2>2 DEF Asks, Leaves, Core, Took, Confirmed, Denied
  <2>4. \A u \in Threads : Entered(u) => u = t
    BY <2>2 DEF Entered, Welcome, Base, CallsOK
  <2>5. Quiet
    BY <2>2, <2>3, <2>4 DEF MachineStep
  <2>6. m'.saved = m.saved
    BY <2>5 DEF Quiet, Same
  <2>7. QED
    BY <1>1, <1>2, <2>2, <2>6 DEF WelcomeSettled, Stored
<1>6. QED
  BY <1>4, <1>5, SettledIs DEF Settled, PageSettled, WelcomeSettled

LEMMA ArrivesOwn ==
  ASSUME Base, OwnForward, NEW t \in Threads, Arrives(t) PROVE OwnForward'
<1>1. server' = server /\ m'.state = None /\ m'.saved = m.saved
  BY DEF Arrives
<1>2. \A u \in Threads : ~Welcome(u)'
  BY WelcomeIs
<1>3. ASSUME NEW u \in Threads, Open(u)' PROVE Stored(calls[u].key.epoch, calls[u].key.q, calls[u].id)'
  <2>1. /\ ~Free(u) /\ calls[u].on = "answer" /\ calls'[u].key = calls[u].key /\ calls'[u].id = calls[u].id
        /\ calls'[u].reply = calls[u].reply
    BY <1>3 DEF Open, Waiting, Arrives, Alike, Free
  <2>2. Open(u)
    BY <1>1, <1>3, <2>1 DEF Open, Waiting
  <2>3. QED
    BY <1>1, <2>1, <2>2 DEF OwnForward, Stored
<1>4. \A i \in DOMAIN server'.receipts : Settled(i)'
  BY <1>1, <1>2 DEF Settled
<1>5. QED
  BY <1>3, <1>4 DEF OwnForward

LEMMA ServerStepOwn ==
  ASSUME Base, OwnForward, ServerStep PROVE OwnForward'
<1>1. m' = m /\ Grows(server, server') /\ IsServer(server) /\ IsServer(server')
  BY DEF ServerStep, Base, Grows
<1>2. /\ server.epoch \in Nat /\ server'.epoch \in Nat
      /\ DOMAIN server.receipts = 1..Len(server.receipts) /\ DOMAIN server'.receipts = 1..Len(server'.receipts)
      /\ Len(server.receipts) \in Nat /\ Len(server'.receipts) \in Nat
  BY <1>1, ServerIs
<1>3. ASSUME NEW t \in Threads, Open(t)' PROVE Stored(calls[t].key.epoch, calls[t].key.q, calls[t].id)'
  <2>1. /\ ~Free(t)' /\ calls'[t].reply = NoReply /\ calls'[t].on = "answer" /\ calls'[t].key.epoch = server'.epoch
        /\ calls'[t].key.q > Len(server'.receipts) /\ calls'[t].id \notin server'.refused
    BY <1>3 DEF Open, Waiting
  <2>2. ~Free(t) /\ calls[t].on = "answer" /\ calls'[t].key = calls[t].key /\ calls'[t].id = calls[t].id
    BY <2>1, ProgressedIs
  <2>3. calls[t].reply = NoReply
    BY <2>1, <2>2 DEF ServerStep, Progressed, Free
  <2>4. IsKey(calls[t].key) /\ Within(calls[t].key, server.epoch, Len(server.receipts))
    BY <2>2 DEF Base, CallsOK, IsCall
  <2>5. server'.epoch = server.epoch
    BY <1>1, <1>2, <2>1, <2>2, <2>4 DEF Grows, Within, IsKey
  <2>6. Len(server'.receipts) >= Len(server.receipts) /\ server.refused \subseteq server'.refused
    BY <1>1, <1>2, <2>5 DEF Grows
  <2>7. calls[t].key.q > Len(server.receipts)
    BY <1>2, <2>1, <2>2, <2>4, <2>6, QuestionsIs DEF IsKey
  <2>8. Open(t)
    BY <2>1, <2>2, <2>3, <2>5, <2>6, <2>7 DEF Open, Waiting
  <2>9. QED
    BY <1>1, <2>2, <2>8 DEF OwnForward, Stored
<1>4. ASSUME NEW i \in DOMAIN server'.receipts, server'.receipts[i].id # 0 PROVE Settled(i)'
  <2>1. server'.epoch = server.epoch
    BY <1>1, <1>2, <1>4 DEF Grows
  <2>2. i \in 1..Len(server'.receipts)
    BY <1>2
  <2>3. CASE i <= Len(server.receipts)
    <3>1. i \in 1..Len(server.receipts)
      BY <1>2, <2>2, <2>3
    <3>2. server'.receipts[i] = server.receipts[i]
      BY <1>1, <1>2, <2>1, <3>1 DEF Grows
    <3>3. Settled(i)
      BY <1>2, <1>4, <3>1, <3>2 DEF OwnForward
    <3>4. \/ m.state = None
          \/ /\ m.state.epoch = server'.epoch
             /\ \/ i <= Len(m.state.receipts)
                \/ Stored(server'.epoch, i, server'.receipts[i].id)
                \/ m.feedback # None /\ m.feedback.q = i
      BY <2>1, <3>2, <3>3 DEF Settled
    <3>5. ASSUME NEW t \in Threads, Welcome(t), calls'[t].reply = calls[t].reply
          PROVE  /\ calls'[t].reply.state.epoch = server'.epoch
                 /\ \/ i <= Len(calls'[t].reply.state.receipts)
                    \/ Stored(server'.epoch, i, server'.receipts[i].id)
      BY <2>1, <3>2, <3>3, <3>5 DEF Settled
    <3>6. QED
      <4>1. PICK e, id : e = server'.epoch /\ id = server'.receipts[i].id
        OBVIOUS
      <4>2. Stored(e, i, id)' <=> Stored(e, i, id)
        BY <1>1 DEF Stored
      <4>3. ASSUME NEW t \in Threads, Welcome(t)'
            PROVE  /\ calls'[t].reply.state.epoch = server'.epoch
                   /\ \/ i <= Len(calls'[t].reply.state.receipts)
                      \/ Stored(server'.epoch, i, server'.receipts[i].id)
        <5>1. State(server').epoch = server'.epoch /\ Len(State(server').receipts) = Len(server'.receipts)
          BY <1>1, StateIs
        <5>2. i <= Len(server'.receipts)
          BY <1>2, <2>2
        <5>3. QED
          BY <3>5, <4>3, <5>1, <5>2, ProgressedIs
      <4>4. QED
        BY <1>1, <3>4, <4>3 DEF Settled, Stored
  <2>4. CASE i > Len(server.receipts)
    <3>1. PICK u \in Threads : Open(u) /\ calls[u].id = server'.receipts[i].id /\ calls[u].key.q = i
      BY <1>2, <1>4, <2>1, <2>2, <2>4 DEF ServerStep
    <3>2. /\ m.saved # None /\ m.saved.epoch = server'.epoch /\ m.saved.q = i
          /\ m.saved.id = server'.receipts[i].id
      BY <2>1, <3>1 DEF OwnForward, Stored, Open
    <3>3. /\ m.state # None => m.saved.epoch = m.state.epoch
          /\ \A t \in Threads : Welcome(t) => m.saved.epoch <= calls[t].reply.state.epoch
      BY <3>2, SavedIs
    <3>4. ASSUME NEW t \in Threads, Welcome(t)' PROVE calls'[t].reply.state.epoch = server'.epoch
      <4>1. CASE Welcome(t) /\ calls'[t].reply = calls[t].reply
        <5>1. PICK st : st = calls[t].reply.state
          OBVIOUS
        <5>2. st.epoch \in Nat \ {0} /\ st.epoch <= server.epoch
          BY <4>1, <5>1, StateBehind, WelcomeState
        <5>3. st.epoch >= server.epoch
          BY <1>2, <2>1, <3>2, <3>3, <4>1, <5>1, <5>2
        <5>4. QED
          BY <1>2, <2>1, <4>1, <5>1, <5>2, <5>3
      <4>2. CASE calls'[t].reply.state = State(server')
        BY <1>1, <4>2, StateIs
      <4>3. QED
        BY <3>4, <4>1, <4>2, ProgressedIs
    <3>5. QED
      BY <1>1, <3>2, <3>3, <3>4 DEF Settled, Stored
  <2>5. QED
    BY <1>2, <2>2, <2>3, <2>4
<1>5. QED
  BY <1>3, <1>4 DEF OwnForward

(***************************************************************************)
(* The invariant is inductive.                                             *)
(***************************************************************************)
LEMMA MachineStepOK ==
  ASSUME QuizMachineOK, NEW T \in SUBSET Threads, MachineStep(T), AfterReset',
         ~rolledBack' => ~rolledBack /\ NotBack
  PROVE  QuizMachineOK'
<1>1. Base /\ NamesOK /\ DismissalOK
  BY DEF QuizMachineOK
<1>2. Base' /\ NamesOK' /\ DismissalOK' /\ server' = server
  BY <1>1, MachineStepBase, MachineStepNames, MachineStepDismissal DEF MachineStep
<1>3. ASSUME ~rolledBack' PROVE Forward'
  <2>1. NotBack /\ DismissalForward /\ OwnForward
    BY <1>3 DEF QuizMachineOK, Forward
  <2>2. DismissalForward'
    BY <1>1, <1>2, <2>1, MachineStepForward
  <2>3. \A t \in Threads : Open(t)' => Stored(calls[t].key.epoch, calls[t].key.q, calls[t].id)'
    BY <1>1, <2>1, MachineStepOpen
  <2>4. ASSUME NEW i \in DOMAIN server'.receipts, server'.receipts[i].id # 0 PROVE Settled(i)'
    <3>1. i \in DOMAIN server.receipts /\ server.receipts[i].id # 0 /\ Settled(i)
      BY <1>2, <2>1, <2>4 DEF OwnForward
    <3>2. QED
      BY <1>1, <2>1, <3>1, MachineStepSettled
  <2>5. QED
    BY <2>2, <2>3, <2>4 DEF Forward, OwnForward
<1>4. QED
  BY <1>2, <1>3 DEF QuizMachineOK

LEMMA ArrivesOK ==
  ASSUME QuizMachineOK, NEW t \in Threads, Arrives(t), rolledBack' = rolledBack PROVE QuizMachineOK'
<1>1. Base /\ NamesOK /\ DismissalOK
  BY DEF QuizMachineOK
<1>2. Base' /\ NamesOK' /\ DismissalOK'
  BY <1>1, ArrivesBase, ArrivesNames, ArrivesDismissal
<1>3. ~rolledBack' => Forward'
  BY <1>1, ArrivesForward, ArrivesOwn DEF QuizMachineOK, Forward
<1>4. AfterReset'
  BY DEF QuizMachineOK, AfterReset, Arrives
<1>5. QED
  BY <1>2, <1>3, <1>4 DEF QuizMachineOK

LEMMA ServerStepOK ==
  ASSUME QuizMachineOK, ServerStep, rolledBack' = rolledBack PROVE QuizMachineOK'
<1>1. Base /\ NamesOK /\ DismissalOK
  BY DEF QuizMachineOK
<1>2. Base' /\ NamesOK' /\ DismissalOK'
  BY <1>1, ServerStepBase, ServerStepNames, ServerStepDismissal
<1>3. ~rolledBack' => Forward'
  BY <1>1, ServerStepForward, ServerStepOwn DEF QuizMachineOK, Forward
<1>4. server.epoch \in Nat /\ server'.epoch \in Nat /\ server'.epoch >= server.epoch
  BY <1>1, <1>2, ServerIs DEF Base, ServerStep, Grows, IsServer
<1>5. AfterReset'
  BY <1>4 DEF QuizMachineOK, AfterReset
<1>6. QED
  BY <1>2, <1>3, <1>5 DEF QuizMachineOK

\* Only a response can take the page back.
LEMMA RespondOK == ASSUME QuizMachineOK, NEW t \in Threads, Respond(t) PROVE QuizMachineOK'
<1>1. Base
  BY DEF QuizMachineOK
<1>2. MachineStep({t})
  <2>1. Moved({t}) /\ server' = server /\ ~Free(t)
    BY <1>1, RespondIs
  <2>2. Quiet \/ Took(t) \/ Entered(t) \/ Confirmed(t) \/ Denied(t)
    BY <1>1, <2>1, RespondIs DEF Took, Entered, Confirmed, Denied
  <2>3. QED
    BY <2>1, <2>2 DEF MachineStep
<1>3. ASSUME ~rolledBack' PROVE ~rolledBack /\ NotBack
  <2>1. ~rolledBack /\ ~(m.state # None /\ m'.state.epoch < m.state.epoch)
    BY <1>3 DEF Respond
  <2>2. m.state # None => m'.state # None
    BY <1>2 DEF MachineStep, Quiet, Same, Asks, Leaves, Core, Took, AppliedTo, AdoptsSame, AdoptsNew, Adopts,
                Entered, Welcomed, Confirmed, Accepted, Denied, GivenUp
  <2>3. Base'
    BY <1>1, <1>2, MachineStepBase
  <2>4. m'.state # None => m'.state.epoch \in Nat
    BY <2>3 DEF Base, Page, Typed, IsState
  <2>5. m.state # None => m.state.epoch \in Nat
    BY <1>1 DEF Base, Page, Typed, IsState
  <2>6. QED
    BY <2>1, <2>2, <2>4, <2>5 DEF NotBack
<1>4. AfterReset'
  <2>1. CASE m.state # None /\ m'.state.epoch < m.state.epoch
    <3>1. m.state.epoch \in Nat /\ m.state.epoch <= server.epoch /\ server.epoch \in Nat
      BY <1>1, <2>1, MineIs, ServerIs DEF Base
    <3>2. m'.state # None
      BY <1>2, <2>1 DEF MachineStep, Quiet, Same, Asks, Leaves, Core, Took, AppliedTo, AdoptsSame, AdoptsNew, Adopts,
                        Entered, Welcomed, Confirmed, Accepted, Denied, GivenUp
    <3>3. m'.state.epoch \in Nat \ {0}
      <4>1. Base'
        BY <1>1, <1>2, MachineStepBase
      <4>2. QED
        BY <3>2, <4>1 DEF Base, Page, Typed, IsState
    <3>4. server'.epoch > 1
      BY <2>1, <3>1, <3>3 DEF Respond
    <3>5. QED
      BY <3>4 DEF AfterReset
  <2>2. CASE ~(m.state # None /\ m'.state.epoch < m.state.epoch)
    BY <2>2 DEF QuizMachineOK, AfterReset, Respond
  <2>3. QED
    BY <2>1, <2>2
<1>5. QED
  BY <1>2, <1>3, <1>4, MachineStepOK

\* The other steps of the machine stay in the epoch.
LEMMA MachineOK ==
  ASSUME QuizMachineOK, NEW T \in SUBSET Threads, Moved(T), server' = server, Quiet \/ Asks \/ Leaves,
         rolledBack' = rolledBack
  PROVE  QuizMachineOK'
<1>1. MachineStep(T)
  BY DEF MachineStep
<1>2. /\ m.state # None => m'.state # None /\ m'.state.epoch = m.state.epoch
      /\ m.state # None => m.state.epoch \in Nat
  BY DEF QuizMachineOK, Base, Page, Typed, IsState, Quiet, Same, Asks, Leaves, Core
<1>3. NotBack
  BY <1>2 DEF NotBack
<1>4. AfterReset'
  BY DEF QuizMachineOK, AfterReset
<1>5. QED
  BY <1>1, <1>3, <1>4, MachineStepOK

LEMMA InitOK == ASSUME Init PROVE QuizMachineOK
<1>1. /\ server = [epoch |-> 1, joined |-> FALSE, version |-> 0, receipts |-> << >>, clocks |-> {}, refused |-> {}]
      /\ m = Blank /\ calls = [t \in Threads |-> NoCall] /\ rolledBack = FALSE
  BY DEF Init
<1>2. IsServer(server) /\ server.receipts = << >> /\ DOMAIN server.receipts = {} /\ Len(server.receipts) = 0
  BY <1>1, QuestionsIs DEF IsServer
<1>3. /\ m.state = None /\ m.pending = None /\ m.saved = None /\ m.feedback = None /\ m.dismissal = None
      /\ m.appliedSequence = 0 /\ m.requestSequence = 0 /\ m.uuids = 0 /\ m.privateVersion = 0
      /\ m.dismissedVersion = 0 /\ m.ws = NoSocket /\ m.timer = FALSE /\ DOMAIN m = Fields
      /\ m.connection = "ok" /\ m.submission = "idle" /\ m.selected = None
  BY <1>1 DEF Blank, Fields
<1>4. \A t \in Threads : Free(t) /\ calls[t] = NoCall
  BY <1>1 DEF Free
<1>5. Running(m) /\ Page(m)
  BY <1>3 DEF Running, Page, Typed, Shown, IsSocket
<1>6. CallsOK
  BY <1>1, <1>3, <1>4 DEF CallsOK, Joining
<1>7. Held = {}
  BY <1>3, <1>4 DEF Held, Replied, OfPage, HasState
<1>8. CopiesOK
  BY <1>4, <1>7 DEF CopiesOK, HasReceipt
<1>9. SavedOK
  BY <1>3 DEF SavedOK
<1>10. NamesOK
  BY <1>2, <1>3, <1>4 DEF NamesOK
<1>11. DismissalOK
  <2>1. m.dismissal.epoch = 0 /\ server.epoch = 1
    BY <1>1, <1>3, NoneIs
  <2>2. QED
    BY <1>3, <1>4, <2>1 DEF DismissalOK, NoLater, Welcome, Joining
<1>12. Forward
  BY <1>2, <1>3, <1>4 DEF Forward, DismissalForward, OwnForward, Open, Waiting
<1>13. AfterReset
  BY <1>1 DEF AfterReset
<1>14. QED
  BY <1>2, <1>5, <1>6, <1>8, <1>9, <1>10, <1>11, <1>12, <1>13 DEF QuizMachineOK, Base

LEMMA NextOK == ASSUME QuizMachineOK, [Next]_vars PROVE QuizMachineOK'
<1>1. Base /\ Clean(server) /\ IsServer(server)
  BY CleanIs DEF QuizMachineOK, Base
<1>2. \A t \in Threads : {t} \in SUBSET Threads /\ {} \in SUBSET Threads
  OBVIOUS
<1>3. ASSUME NEW t \in Threads, Join(t) PROVE QuizMachineOK'
  BY <1>1, <1>3, JoinIs, ArrivesOK DEF Join
<1>4. ASSUME NEW t \in Threads, Submit(t) PROVE QuizMachineOK'
  BY <1>1, <1>2, <1>4, SubmitIs, MachineOK DEF Submit
<1>5. ASSUME NEW t \in Threads, Retry(t) PROVE QuizMachineOK'
  BY <1>1, <1>2, <1>5, RetryIs, MachineOK DEF Retry
<1>6. ASSUME NEW t \in Threads, NextQuestion(t) PROVE QuizMachineOK'
  BY <1>1, <1>2, <1>6, NextQuestionIs, MachineOK DEF NextQuestion
<1>7. ASSUME NEW t \in Threads, Receive(t) PROVE QuizMachineOK'
  BY <1>1, <1>2, <1>7, ReceiveIs, MachineOK DEF Receive
<1>8. ASSUME NEW t \in Threads, TimerFires(t) PROVE QuizMachineOK'
  BY <1>1, <1>2, <1>8, TimerFiresIs, MachineOK DEF TimerFires
<1>9. ASSUME NEW t \in Threads, Serve(t) PROVE QuizMachineOK'
  BY <1>1, <1>9, ServeIs, ServerStepOK DEF Serve
<1>10. ASSUME NEW t \in Threads, Lose(t) PROVE QuizMachineOK'
  BY <1>1, <1>10, LoseIs, ServerStepOK DEF Lose
<1>11. ASSUME NEW t \in Threads, Respond(t) PROVE QuizMachineOK'
  BY <1>11, RespondOK
<1>12. ASSUME NEW id, Refuse(id) PROVE QuizMachineOK'
  BY <1>1, <1>12, RefuseIs, ServerStepOK DEF Refuse
<1>13. CASE Select
  BY <1>1, <1>13, SelectIs, MachineOK DEF Select
<1>14. CASE Admit
  BY <1>1, <1>14, AdmitIs, MachineOK DEF Admit
<1>15. CASE Push
  BY <1>1, <1>15, PushIs, MachineOK DEF Push
<1>16. CASE SocketFails
  BY <1>1, <1>16, SocketFailsIs, MachineOK DEF SocketFails
<1>17. CASE Reset
  BY <1>1, <1>17, ResetIs, ServerStepOK DEF Reset
<1>18. CASE OtherTabJoins
  BY <1>1, <1>18, OtherTabJoinsIs, ServerStepOK DEF OtherTabJoins
<1>19. CASE OtherTabAnswers
  BY <1>1, <1>19, OtherTabAnswersIs, ServerStepOK DEF OtherTabAnswers
<1>20. CASE OtherLearnerAnswers
  BY <1>1, <1>20, OtherLearnerAnswersIs, ServerStepOK DEF OtherLearnerAnswers
<1>21. CASE UNCHANGED vars
  <2>1. m' = m /\ calls' = calls /\ server' = server /\ rolledBack' = rolledBack
    BY <1>21 DEF vars
  <2>2. server.version \in Nat /\ server.version >= server.version
    BY <1>1, ServerIs
  <2>3. Grows(server, server)
    BY <1>1, <2>2, GrowsIf
  <2>4. Len(server.receipts) \in Nat
    BY <1>1, ServerIs
  <2>5. \A i \in (Len(server.receipts) + 1)..Len(server.receipts) : FALSE
    BY <2>4
  <2>6. ServerStep
    BY <1>1, <2>1, <2>3, <2>5, ServerAlone
  <2>7. QED
    BY <2>1, <2>6, ServerStepOK
<1>22. QED
  BY <1>3, <1>4, <1>5, <1>6, <1>7, <1>8, <1>9, <1>10, <1>11, <1>12, <1>13, <1>14, <1>15, <1>16, <1>17, <1>18,
     <1>19, <1>20, <1>21 DEF Next

(***************************************************************************)
(* The theorems.                                                           *)
(***************************************************************************)

\* The inductive invariant of the machine, its requests and what the server has of the learner.
THEOREM QuizMachineInvariant == Spec => []QuizMachineOK
<1>1. Init => QuizMachineOK
  BY InitOK
<1>2. QuizMachineOK /\ [Next]_vars => QuizMachineOK'
  BY NextOK
<1>3. QED
  BY <1>1, <1>2, PTL DEF Spec

LEMMA ShownTogetherIs == ASSUME QuizMachineOK PROVE ShownTogether
<1>1. Base /\ IsServer(server) /\ Running(m) /\ Page(m) /\ CallsOK
  BY DEF QuizMachineOK, Base
<1>2. m.connection \in {"ok", "unavailable", "reset"} /\ m.submission \in {"idle", "checking", "unconfirmed"}
  BY <1>1 DEF Running
<1>3. m.state = None \/ (Len(m.state.receipts) \in 0..Questions /\ m.state.shown \in 0..Questions)
  <2>1. m.state = None \/ IsState(m.state)
    BY <1>1, PageIs
  <2>2. QED
    BY <2>1, LenIs DEF IsState
<1>4. m.pending # None => m.pending = m.saved
  BY <1>1 DEF Page, Shown
<1>5. m.feedback # None => m.feedback.q \in 1..Questions
  BY <1>1, PageIs DEF IsReceipt, IsKey
<1>6. \A t \in Threads : Free(t) \/ calls[t].on \in {"join", "state", "start", "answer", "resync"}
  BY <1>1 DEF CallsOK, IsCall
<1>7. TypeOK
  BY <1>2, <1>3, <1>4, <1>5, <1>6 DEF TypeOK
<1>8. ASSUME m.state # None
      PROVE  /\ m.pending # None => m.pending.epoch = m.state.epoch
             /\ m.feedback # None => m.feedback.epoch = m.state.epoch
  BY <1>1, <1>8 DEF Page, Shown
<1>9. ASSUME m.state # None, CanSelect(m), m.selected # None PROVE m.selected = Key(m.state.epoch, Question(m))
  <2>1. m.pending = None /\ m.feedback = None /\ CurrentQuestion(m.state) # 0
    BY <1>9 DEF CanSelect
  <2>2. Question(m) = Len(m.state.receipts) + 1
    BY <1>1, <1>9, <2>1, QuestionIs
  <2>3. m.selected \in {None, Key(m.state.epoch, Len(m.state.receipts) + 1)}
    BY <1>1, <1>9, <2>1 DEF Page, Shown
  <2>4. QED
    BY <1>9, <2>2, <2>3
<1>10. QED
  BY <1>7, <1>8, <1>9 DEF ShownTogether

\* What the page shows belongs to the state it has, whatever response or snapshot came in between.
THEOREM ShownTogetherHolds == Spec => []ShownTogether
<1>1. QuizMachineOK => ShownTogether
  BY ShownTogetherIs
<1>2. QED
  BY <1>1, QuizMachineInvariant, PTL

\* Feedback that was dismissed does not come back, on this page or on the next, unless the page was taken back.
THEOREM DismissedStaysAwayHolds == Spec => []DismissedStaysAway
<1>1. QuizMachineOK => DismissedStaysAway
  BY DEF QuizMachineOK, Forward, DismissalForward, DismissedStaysAway
<1>2. QED
  BY <1>1, QuizMachineInvariant, PTL

LEMMA OwnAnswerIs == ASSUME QuizMachineOK PROVE OwnAnswerNotReoffered
<1>1. SUFFICES ASSUME ~rolledBack, CanSelect(m), m.state.epoch = server.epoch,
                      Question(m) \in DOMAIN server.receipts, server.receipts[Question(m)].id # 0
               PROVE  FALSE
  BY DEF OwnAnswerNotReoffered
<1>2. Base /\ Page(m) /\ Settled(Question(m))
  BY <1>1 DEF QuizMachineOK, Base, Forward, OwnForward
<1>3. m.state # None /\ m.pending = None /\ m.feedback = None /\ CurrentQuestion(m.state) # 0
  BY <1>1 DEF CanSelect
<1>4. Question(m) = Len(m.state.receipts) + 1 /\ Len(m.state.receipts) \in Nat
  BY <1>2, <1>3, QuestionIs, MineIs
<1>5. m.saved = None
  BY <1>2, <1>3, PageIs
<1>6. QED
  BY <1>2, <1>3, <1>4, <1>5 DEF Settled, Stored

\* An answer from here that the server has accepted is not asked for again, unless the page was taken back.
THEOREM OwnAnswerNotReofferedHolds == Spec => []OwnAnswerNotReoffered
<1>1. QuizMachineOK => OwnAnswerNotReoffered
  BY OwnAnswerIs
<1>2. QED
  BY <1>1, QuizMachineInvariant, PTL

\* While the room has not been reset the page is never taken back, so that neither theorem has an exception.
THEOREM TakenBackOnlyAfterReset == Spec => [](rolledBack => server.epoch > 1)
<1>1. QuizMachineOK => (rolledBack => server.epoch > 1)
  BY DEF QuizMachineOK, AfterReset
<1>2. QED
  BY <1>1, QuizMachineInvariant, PTL
================================================================================
