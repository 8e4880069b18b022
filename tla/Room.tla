-------------------------------- MODULE Room --------------------------------
(***************************************************************************)
(* One quiz room as the store keeps it: the seven Redis keys of the room   *)
(* and the operations of transition.lua on them, each of which Redis runs  *)
(* atomically, called by request handlers that the store runs              *)
(* concurrently.  A Redis hash is a function whose domain is the set of    *)
(* its fields, so that HSET is Put and DEL is the empty function.          *)
(*                                                                         *)
(* A request handler may be called by anybody, at any time, any number of  *)
(* times and with the epoch of any earlier round, so that retries,         *)
(* duplicates and late deliveries are ordinary calls.  The one operation   *)
(* that spans two scripts is Join, and its handlers are the Callers.       *)
(* Calls that are refused, replayed or only read leave the keys alone; the *)
(* Reply operators say what they return.                                   *)
(*                                                                         *)
(* Every script names the content of the program that calls it.  A room    *)
(* may have been opened by the preceding program, whose questions are not  *)
(* timed, and be used by it until, and beside, the start of the present    *)
(* one, which upgrades the room in place.  The preceding program is known  *)
(* here only from what the upgrade demands of the state it left.           *)
(***************************************************************************)
EXTENDS AttemptPlan

CONSTANTS
  Participants,     \* participant identities
  Questions,        \* the questions of the manifest
  Manifest,         \* the questions in the order of the definition
  Options,          \* the options of a question
  CorrectOption,    \* [Questions -> Options], the answer key held by Go
  Submissions,      \* submission identifiers chosen by the clients
  Callers,          \* concurrent request handlers inside Store.Join
  Capacities,       \* the capacities a program may be configured with
  Duration,         \* the time allowed for a question
  MaxEpoch,         \* bound: how often the room is seeded or reset
  MaxTime,          \* bound: the last instant of the Redis clock
  NoOne             \* a Caller that handles no join

N == Cardinality(Questions)

\* questionCount admits 4 to 8 questions and the capacity is 1 to 200; fewer
\* questions than 4 only make the instances smaller.
ASSUME RoomAssumption ==
  /\ IsFiniteSet(Questions) /\ N \in 1..8
  /\ Manifest \in [1..N -> Questions] /\ OrderAccepted(Manifest, Questions)
  /\ CorrectOption \in [Questions -> Options]
  /\ Capacities \subseteq 1..200
  /\ Duration \in Nat \ {0}
  /\ MaxEpoch \in Nat /\ MaxTime \in Nat
  /\ NoOne \notin [who : Participants, by : {"legacy", "current"}]

VARIABLES
  epoch,            \* meta.epoch, a fresh number per seed or reset; 0: no meta key
  version,          \* meta.version
  capacity,         \* meta.capacity
  content,          \* meta.content: which program's content the room has
  participants,     \* hash: participant -> [count, cursor]
  scores,           \* sorted set: participant -> score
  answers,          \* hash: participant:question -> receipt
  requests,         \* hash: participant:submission -> receipt
  attempts,         \* hash: participant -> attempt plan
  timers,           \* hash: participant:question -> deadline
  now,              \* the Redis clock
  draft             \* Caller -> whose plan it draws for which program, between its two scripts

meta == <<epoch, version, capacity, content>>
vars == <<meta, participants, scores, answers, requests, attempts, timers, now, draft>>

Empty == << >>
Put(f, k, v) == [x \in DOMAIN f \cup {k} |-> IF x = k THEN v ELSE f[x]]

Programs == {"legacy", "current"}
Orders == {order \in [1..N -> Questions] : OrderAccepted(order, Questions)}
Plans == [content : Programs, order : Orders]
Drafts == [who : Participants, by : Programs]

Receipt ==
  [rid : Submissions, qid : Questions, opt : Options, epoch : Nat, points : {0, 50, 100},
   timedOut : BOOLEAN, deadline : Nat, at : Nat, total : Nat, version : Nat]

Progress == [count : 0..N, cursor : 0..N]

RoomExists == epoch # 0
Size == Cardinality(DOMAIN participants)

\* The questions p has a receipt for, and the cursor the script computes over
\* them: the zero-based position of the first open question, N when none is.
Answered(p) == {q \in Questions : <<p, q>> \in DOMAIN answers}
Cursor(order, done) ==
  CHOOSE c \in 0..N : /\ \A i \in 1..c : order[i] \in done
                      /\ c < N => order[c + 1] \notin done
-----------------------------------------------------------------------------
(***************************************************************************)
(* The preflight every script runs before it touches anything: a stored    *)
(* state that fails it makes the operation fail closed with a STORAGE_     *)
(* error.                                                                  *)
(***************************************************************************)
VersionLimit == 1000000

RoomPreflight ==
  /\ version <= VersionLimit
  /\ Size = Cardinality(DOMAIN scores)
  /\ Size = Cardinality(DOMAIN attempts)
  /\ capacity \in 1..200 /\ Size <= capacity

ValidPlan(plan) == plan.content = content /\ plan.order \in Orders

\* A member's plan, progress and score, which comes in steps of unit.
ValidMember(p, unit) ==
  /\ p \in DOMAIN attempts /\ ValidPlan(attempts[p])
  /\ p \in DOMAIN participants
  /\ participants[p].count = Cardinality(Answered(p))
  /\ participants[p].cursor = Cursor(attempts[p].order, Answered(p))
  /\ p \in DOMAIN scores
  /\ scores[p] % unit = 0
  /\ scores[p] <= participants[p].count * 100

MemberPreflight(p) ==
  IF p \in DOMAIN participants
  THEN ValidMember(p, 50)
  ELSE p \notin DOMAIN scores /\ p \notin DOMAIN attempts

Preflight(p) == RoomPreflight /\ MemberPreflight(p)

\* What the upgrade demands of the room before it writes.  The preceding
\* program had quizzes of eight questions, which is what the 8 of the code is.
UpgradePreflight ==
  /\ RoomPreflight
  /\ timers = Empty
  /\ \A p \in DOMAIN attempts : ValidMember(p, 100)

\* What Store.Snapshot demands of the rows it reads, and of the caller's own.
RowReadable(p) ==
  /\ p \in DOMAIN participants
  /\ participants[p].count \in 0..N
  /\ scores[p] \in 0..(N * 100) /\ scores[p] % 50 = 0
  /\ scores[p] <= participants[p].count * 100

OwnStateReadable(p) ==
  participants[p].count # N => participants[p].cursor \in 0..(N - 1)
-----------------------------------------------------------------------------
(***************************************************************************)
(* What the scripts answer, in the order of their early returns.           *)
(***************************************************************************)
\* Mutation: the second script trusts the capacity the first one has seen.
JoinReplyCountedOnce(p, planned, by) ==
  IF ~RoomExists \/ by # content           THEN "refused"
  ELSE IF p \in DOMAIN participants        THEN "replayed"
  ELSE IF ~planned /\ Size >= capacity     THEN "QUIZ_FULL"
  ELSE IF ~planned                         THEN "PLAN_REQUIRED"
  ELSE "accepted"

JoinReply(p, planned, by) ==
  IF ~RoomExists                     THEN "QUIZ_NOT_FOUND"
  ELSE IF by # content               THEN "CONTENT_MISMATCH"
  ELSE IF ~Preflight(p)              THEN "STORAGE"
  ELSE IF p \in DOMAIN participants  THEN "replayed"
  ELSE IF Size >= capacity           THEN "QUIZ_FULL"
  ELSE IF ~planned                   THEN "PLAN_REQUIRED"
  ELSE "accepted"

\* Mutation: a second start is not recognised.
StartReplyRestarts(p, e, q) ==
  IF ~RoomExists \/ content # "current" \/ e # epoch \/ p \notin DOMAIN participants
  THEN "refused"
  ELSE IF <<p, q>> \in DOMAIN answers THEN "QUESTION_ALREADY_ANSWERED"
  ELSE "started"

\* Mutation: a start after the answer is not refused.
StartReplyAfterAnswer(p, e, q) ==
  IF ~RoomExists \/ content # "current" \/ e # epoch \/ p \notin DOMAIN participants
  THEN "refused"
  ELSE IF <<p, q>> \in DOMAIN timers THEN "ok"
  ELSE "started"

StartReply(p, e, q) ==
  IF ~RoomExists                              THEN "QUIZ_NOT_FOUND"
  ELSE IF content # "current"                 THEN "CONTENT_MISMATCH"
  ELSE IF ~Preflight(p)                       THEN "STORAGE"
  ELSE IF e # epoch                           THEN "EPOCH_MISMATCH"
  ELSE IF p \notin DOMAIN participants        THEN "NOT_JOINED"
  ELSE IF <<p, q>> \in DOMAIN timers          THEN "ok"
  ELSE IF <<p, q>> \in DOMAIN answers         THEN "QUESTION_ALREADY_ANSWERED"
  ELSE "started"

Refused(code) == [code |-> code, receipt |-> {}]

\* Mutation: the question is looked up before the submission, so that a retry
\* is told ALREADY_ANSWERED.
AnswerReplyQuestionFirst(p, e, rid, q, o, by) ==
  IF ~RoomExists \/ by # content \/ e # epoch \/ p \notin DOMAIN participants THEN Refused("refused")
  ELSE IF <<p, q>> \in DOMAIN answers
       THEN [code |-> "ALREADY_ANSWERED", receipt |-> {answers[<<p, q>>]}]
  ELSE IF <<p, rid>> \in DOMAIN requests
       THEN [code |-> "replayed", receipt |-> {requests[<<p, rid>>]}]
  ELSE Refused("accepted")

\* Mutation: only the submission is looked up, so that the last answer counts.
AnswerReplyLastWins(p, e, rid, q, o, by) ==
  IF ~RoomExists \/ by # content \/ e # epoch \/ p \notin DOMAIN participants THEN Refused("refused")
  ELSE IF <<p, rid>> \in DOMAIN requests
       THEN [code |-> "replayed", receipt |-> {requests[<<p, rid>>]}]
  ELSE Refused("accepted")

AnswerReply(p, e, rid, q, o, by) ==
  IF ~RoomExists                                THEN Refused("QUIZ_NOT_FOUND")
  ELSE IF by # content                          THEN Refused("CONTENT_MISMATCH")
  ELSE IF ~Preflight(p)                         THEN Refused("STORAGE")
  ELSE IF e # epoch                             THEN Refused("EPOCH_MISMATCH")
  ELSE IF p \notin DOMAIN participants          THEN Refused("NOT_JOINED")
  ELSE IF <<p, rid>> \in DOMAIN requests
       THEN LET r == requests[<<p, rid>>] IN
            IF r.qid # q \/ r.opt # o
            THEN Refused("IDEMPOTENCY_CONFLICT")
            ELSE [code |-> "replayed", receipt |-> {r}]
  ELSE IF <<p, q>> \in DOMAIN answers
       THEN [code |-> "ALREADY_ANSWERED", receipt |-> {answers[<<p, q>>]}]
  ELSE Refused("accepted")
-----------------------------------------------------------------------------
Init ==
  /\ epoch = 0 /\ version = 0 /\ capacity = 0 /\ content = "current"
  /\ participants = Empty /\ scores = Empty /\ attempts = Empty
  /\ answers = Empty /\ requests = Empty /\ timers = Empty
  /\ now = 1
  /\ draft = [c \in Callers |-> NoOne]

\* A new round, of the program 'by' as it is configured.
Renew(cap, by) ==
  /\ epoch < MaxEpoch
  /\ epoch' = epoch + 1 /\ version' = 0
  /\ capacity' = cap /\ content' = by

\* Store.Seed at start-up: an absent room is created, and one with the
\* program's own content is left alone.
Seed(cap, by) ==
  /\ epoch = 0
  /\ DOMAIN participants = {} /\ DOMAIN scores = {} /\ DOMAIN answers = {}
  /\ DOMAIN requests = {} /\ DOMAIN attempts = {} /\ DOMAIN timers = {}
  /\ Renew(cap, by)
  /\ UNCHANGED <<participants, scores, answers, requests, attempts, timers, now, draft>>

\* Mutation: the plans keep the content they were drawn under.
UpgradeMetaOnly ==
  /\ RoomExists /\ content = "legacy" /\ UpgradePreflight
  /\ content' = "current"
  /\ UNCHANGED <<epoch, version, capacity, participants, scores, answers, requests,
                 attempts, timers, now, draft>>

\* Store.Seed of the present program on a room of the preceding one.
Upgrade ==
  /\ RoomExists /\ content = "legacy" /\ UpgradePreflight
  /\ attempts' = [p \in DOMAIN attempts |-> [content |-> "current", order |-> attempts[p].order]]
  /\ content' = "current"
  /\ UNCHANGED <<epoch, version, capacity, participants, scores, answers, requests,
                 timers, now, draft>>

\* Store.Reset, from the command line and beside a running server.
Reset(cap) ==
  /\ Renew(cap, "current")
  /\ participants' = Empty /\ scores' = Empty /\ attempts' = Empty
  /\ answers' = Empty /\ requests' = Empty /\ timers' = Empty
  /\ UNCHANGED <<now, draft>>

\* Store.Join, first script: only PLAN_REQUIRED lets the handler go on.
JoinProbe(c, p, by) ==
  /\ draft[c] = NoOne
  /\ JoinReply(p, FALSE, by) = "PLAN_REQUIRED"
  /\ draft' = [draft EXCEPT ![c] = [who |-> p, by |-> by]]
  /\ UNCHANGED <<meta, participants, scores, answers, requests, attempts, timers, now>>

\* Store.Join, second script, with the plan drawn meanwhile.
JoinCommit(c, draws) ==
  LET p == draft[c].who
      plan == [content |-> draft[c].by, order |-> Shuffled(Manifest, draws)] IN
  /\ draft[c] # NoOne
  /\ JoinReply(p, TRUE, draft[c].by) = "accepted"
  /\ ValidPlan(plan)
  /\ participants' = Put(participants, p, [count |-> 0, cursor |-> 0])
  /\ attempts' = Put(attempts, p, plan)
  /\ scores' = Put(scores, p, 0)
  /\ version' = version + 1
  /\ draft' = [draft EXCEPT ![c] = NoOne]
  /\ UNCHANGED <<epoch, capacity, content, answers, requests, timers, now>>

\* The second script finds the participant already in, the room full, or
\* upgraded since the first one.
JoinLost(c) ==
  /\ draft[c] # NoOne
  /\ JoinReply(draft[c].who, TRUE, draft[c].by) # "accepted"
  /\ draft' = [draft EXCEPT ![c] = NoOne]
  /\ UNCHANGED <<meta, participants, scores, answers, requests, attempts, timers, now>>

StartQuestion(p, e, q) ==
  /\ StartReply(p, e, q) = "started"
  /\ timers' = Put(timers, <<p, q>>, now + Duration)
  /\ UNCHANGED <<meta, participants, scores, answers, requests, attempts, now, draft>>

TimedOut(p, q) == IF <<p, q>> \in DOMAIN timers THEN now >= timers[<<p, q>>] ELSE TRUE

\* Mutation: the penalty for a late answer is applied twice.
PointsHalvedTwice(p, q, o) ==
  IF o # CorrectOption[q] THEN 0 ELSE IF TimedOut(p, q) THEN 25 ELSE 100

Points(p, q, o) ==
  IF o # CorrectOption[q] THEN 0 ELSE IF TimedOut(p, q) THEN 50 ELSE 100

\* The receipt of the preceding program says nothing of time.
LegacyReceipt(p, rid, q, o) ==
  LET points == IF o = CorrectOption[q] THEN 100 ELSE 0 IN
  [rid |-> rid, qid |-> q, opt |-> o, epoch |-> epoch, points |-> points,
   timedOut |-> FALSE, deadline |-> 0, at |-> 0,
   total |-> scores[p] + points, version |-> version + 1]

\* Mutation: the total forgets what was scored before.
NewReceiptAlone(p, rid, q, o) ==
  [rid |-> rid, qid |-> q, opt |-> o, epoch |-> epoch, points |-> Points(p, q, o),
   timedOut |-> TimedOut(p, q),
   deadline |-> IF <<p, q>> \in DOMAIN timers THEN timers[<<p, q>>] ELSE 0,
   at |-> now, total |-> Points(p, q, o), version |-> version + 1]

NewReceipt(p, rid, q, o) ==
  [rid |-> rid, qid |-> q, opt |-> o, epoch |-> epoch, points |-> Points(p, q, o),
   timedOut |-> TimedOut(p, q),
   deadline |-> IF <<p, q>> \in DOMAIN timers THEN timers[<<p, q>>] ELSE 0,
   at |-> now, total |-> scores[p] + Points(p, q, o), version |-> version + 1]

\* Mutation: an answer leaves the version alone.
AnswerUnversioned(p, e, rid, q, o, by) ==
  LET receipt == IF by = "current" THEN NewReceipt(p, rid, q, o) ELSE LegacyReceipt(p, rid, q, o) IN
  /\ AnswerReply(p, e, rid, q, o, by).code = "accepted"
  /\ answers' = Put(answers, <<p, q>>, receipt)
  /\ requests' = Put(requests, <<p, rid>>, receipt)
  /\ scores' = Put(scores, p, receipt.total)
  /\ participants' = Put(participants, p,
                        [count |-> participants[p].count + 1,
                         cursor |-> Cursor(attempts[p].order, Answered(p) \cup {q})])
  /\ UNCHANGED <<meta, attempts, timers, now, draft>>

Answer(p, e, rid, q, o, by) ==
  LET receipt == IF by = "current" THEN NewReceipt(p, rid, q, o) ELSE LegacyReceipt(p, rid, q, o) IN
  /\ AnswerReply(p, e, rid, q, o, by).code = "accepted"
  /\ answers' = Put(answers, <<p, q>>, receipt)
  /\ requests' = Put(requests, <<p, rid>>, receipt)
  /\ scores' = Put(scores, p, receipt.total)
  /\ participants' = Put(participants, p,
                        [count |-> participants[p].count + 1,
                         cursor |-> Cursor(attempts[p].order, Answered(p) \cup {q})])
  /\ version' = version + 1
  /\ UNCHANGED <<epoch, capacity, content, attempts, timers, now, draft>>

\* The Redis clock never runs backwards.
Tick ==
  /\ now < MaxTime
  /\ now' = now + 1
  /\ UNCHANGED <<meta, participants, scores, answers, requests, attempts, timers, draft>>

Next ==
  \/ \E cap \in Capacities, by \in Programs : Seed(cap, by)
  \/ Upgrade
  \/ \E cap \in Capacities : Reset(cap)
  \/ Tick
  \/ \E c \in Callers, p \in Participants, by \in Programs : JoinProbe(c, p, by)
  \/ \E c \in Callers, draws \in Draws(N) : JoinCommit(c, draws)
  \/ \E c \in Callers : JoinLost(c)
  \/ \E p \in Participants, e \in 1..epoch, q \in Questions :
       StartQuestion(p, e, q)
  \/ \E p \in Participants, e \in 1..epoch, rid \in Submissions, q \in Questions,
        o \in Options, by \in Programs :
       Answer(p, e, rid, q, o, by)

Spec == Init /\ [][Next]_vars
-----------------------------------------------------------------------------
TypeOK ==
  /\ epoch \in Nat /\ version \in Nat /\ now \in Nat \ {0}
  /\ capacity \in 0..200 /\ content \in Programs
  /\ participants \in [DOMAIN participants -> Progress]
  /\ DOMAIN participants \subseteq Participants
  /\ scores \in [DOMAIN scores -> Nat] /\ DOMAIN scores \subseteq Participants
  /\ attempts \in [DOMAIN attempts -> Plans] /\ DOMAIN attempts \subseteq Participants
  /\ answers \in [DOMAIN answers -> Receipt]
  /\ DOMAIN answers \subseteq Participants \X Questions
  /\ requests \in [DOMAIN requests -> Receipt]
  /\ DOMAIN requests \subseteq Participants \X Submissions
  /\ timers \in [DOMAIN timers -> Nat \ {0}]
  /\ DOMAIN timers \subseteq Participants \X Questions
  /\ draft \in [Callers -> Drafts \cup {NoOne}]

(***************************************************************************)
(* No sequence of legal calls leaves a state that the scripts, or          *)
(* Store.Snapshot, would refuse: the seven keys written by separate HSETs  *)
(* agree on who is in, how much each has answered, where the cursor stands *)
(* and what the score can be; nothing is left of a round but what its      *)
(* members did in it; and a room of the preceding program can be upgraded  *)
(* whatever was done in it.  A violation bricks the room for everybody.    *)
(***************************************************************************)
PreflightNeverTrips ==
  /\ RoomExists => RoomPreflight
  /\ RoomExists /\ content = "legacy" => UpgradePreflight
  /\ ~RoomExists => DOMAIN participants = {}
  /\ \A k \in DOMAIN answers \cup DOMAIN timers : k[1] \in DOMAIN participants
  /\ \A p \in Participants : MemberPreflight(p)
  /\ \A p \in DOMAIN scores : RowReadable(p) /\ OwnStateReadable(p)

(***************************************************************************)
(* The idempotency index and the answer book tell one story: every stored  *)
(* submission points at the receipt of its question, every receipt is      *)
(* reachable under the submission that earned it, and all are of the round *)
(* that is being played.                                                   *)
(***************************************************************************)
RequestsMatchAnswers ==
  /\ \A k \in DOMAIN requests :
       LET r == requests[k] IN
       /\ r.rid = k[2] /\ r.epoch = epoch
       /\ <<k[1], r.qid>> \in DOMAIN answers /\ answers[<<k[1], r.qid>>] = r
  /\ \A k \in DOMAIN answers :
       LET r == answers[k] IN
       /\ r.qid = k[2]
       /\ <<k[1], r.rid>> \in DOMAIN requests /\ requests[<<k[1], r.rid>>] = r

(***************************************************************************)
(* A client that never saw its response may send the same answer again, at *)
(* any later time in the round, and gets the original receipt; any other   *)
(* submission for that question gets the same receipt as ALREADY_ANSWERED; *)
(* an upgrade of the room in between makes no difference.                  *)
(***************************************************************************)
RetryGetsOriginalReceipt ==
  \A k \in DOMAIN answers :
    LET r == answers[k] IN
    /\ AnswerReply(k[1], epoch, r.rid, r.qid, r.opt, content)
         = [code |-> "replayed", receipt |-> {r}]
    /\ \A rid \in Submissions, o \in Options :
         <<k[1], rid>> \notin DOMAIN requests =>
           AnswerReply(k[1], epoch, rid, k[2], o, content)
             = [code |-> "ALREADY_ANSWERED", receipt |-> {r}]

(***************************************************************************)
(* A question is scored against one deadline: the one in the receipt is    *)
(* the one on record, for good - a start that arrives after the answer     *)
(* cannot supply one - and full credit means accepted strictly before it,  *)
(* or by the preceding program, which timed nothing.                       *)
(***************************************************************************)
ScoredAgainstStandingDeadline ==
  \A k \in DOMAIN answers :
    LET r == answers[k] IN
    /\ r.deadline = IF k \in DOMAIN timers THEN timers[k] ELSE 0
    /\ r.points = 100 => r.at = 0 \/ r.at < r.deadline
    /\ r.points > 0 <=> r.opt = CorrectOption[r.qid]

(***************************************************************************)
(* The receipts of a participant form a ledger: in the order of their      *)
(* versions each total is the previous total plus the points awarded, and  *)
(* the last total is the score on the leaderboard.  The version counts the *)
(* accepted joins and answers of the round, so that each receipt has one   *)
(* of its own and the counter stays far below the limit at which every     *)
(* script would refuse the room.                                           *)
(***************************************************************************)
Ledger(p) == {answers[<<p, q>>] : q \in Answered(p)}
LedgerBalances ==
  /\ version = Cardinality(DOMAIN participants) + Cardinality(DOMAIN answers)
  /\ version <= capacity * (N + 1)
  /\ \A j, k \in DOMAIN answers : answers[j].version = answers[k].version => j = k
  /\ \A p \in DOMAIN participants :
       /\ Ledger(p) = {} => scores[p] = 0
       /\ \A r \in Ledger(p) :
            /\ (\A s \in Ledger(p) : s.version <= r.version) => scores[p] = r.total
            /\ \/ (\A s \in Ledger(p) : s.version >= r.version) /\ r.total = r.points
               \/ \E s \in Ledger(p) :
                    /\ s.version < r.version /\ r.total = s.total + r.points
                    /\ \A t \in Ledger(p) : t.version <= s.version \/ t.version >= r.version
-----------------------------------------------------------------------------
(***************************************************************************)
(* What is decided stays decided until the room is reset, whatever races:  *)
(* a second join keeps the first order of questions, a second answer the   *)
(* first receipt, a second start the first deadline, and an upgrade all.   *)
(***************************************************************************)
Kept(f, g) == \A k \in DOMAIN f : k \in DOMAIN g /\ g[k] = f[k]
KeptOrders(f, g) == \A p \in DOMAIN f : p \in DOMAIN g /\ g[p].order = f[p].order
FirstWriteStands ==
  [][epoch' = epoch =>
       /\ KeptOrders(attempts, attempts') /\ Kept(answers, answers')
       /\ Kept(requests, requests') /\ Kept(timers, timers')]_vars

(***************************************************************************)
(* Within an epoch the version never falls, and the leaderboard does not   *)
(* change under an unchanged version: what the hub and the browsers rely   *)
(* on when they drop a snapshot whose version they already have.           *)
(***************************************************************************)
VersionNamesBoard ==
  [][epoch' = epoch =>
       /\ version' >= version
       /\ version' = version => UNCHANGED <<participants, scores>>]_vars

(***************************************************************************)
(* A room opens fair: chance treats all orders alike and the board is      *)
(* ranked as it reads: the plans a join may draw are exactly the accepted  *)
(* ones, each from one sequence of draws, and a rank is one more than the  *)
(* number of better scores.                                                *)
(***************************************************************************)
ManifestIsShuffledFairly ==
  \A order \in Orders :
    Cardinality({draws \in Draws(N) : Shuffled(Manifest, draws) = order}) = 1
FairPlansExactRanks ==
  RoomExists /\ version = 0 => ShuffleIsFair /\ RanksAreExact /\ ManifestIsShuffledFairly
-----------------------------------------------------------------------------
Promise == INSTANCE Quiz WITH
  round <- epoch,
  seats <- capacity,
  players <- DOMAIN participants,
  awards <- [k \in DOMAIN answers |-> [option |-> answers[k].opt, points |-> answers[k].points]],
  board <- scores

(***************************************************************************)
(* The room keeps the promise of the abstract quiz: first answer wins,     *)
(* the roster never outgrows the capacity although the size is read and    *)
(* the member written by different scripts, and the board adds up.         *)
(***************************************************************************)
KeepsPromise == Promise!Spec
=============================================================================
