# Vocabulary Live: specifications, model checks and proofs

This directory holds TLA+ specifications of the concurrent parts of Vocabulary
Live, the TLC configurations that check them on small instances, and TLAPS
proofs of theorems about them. Paths such as `store.go` stand for the file under
`src/backend/internal/` or `src/frontend/src/`; `PROJECT.json` maps every
definition to the lines it was translated from.

## The system

| Part | State it keeps | Operations | What makes it correct |
| --- | --- | --- | --- |
| Quiz room: `store/transition.lua`, `store/store.go` | seven Redis keys per quiz: meta (epoch, version, capacity, content), participants, scores, answers, requests, attempts, timers | seed, content upgrade, reset, join, start, answer, snapshot | first write wins, retries find their receipt, capacity holds, no sequence of calls leaves a state the scripts refuse |
| Hub: `realtime/hub.go` | rooms with their clients and a dirty and a refreshing flag, a job channel, one-place client queues | Dirty, dirtyAll, coalescing tick, reconcile, refresh, Serve, Close | every connected client gets the newest board of its own epoch, boards never go back, Close returns |
| AI gateway: `learning/gateway.go` | two caches, flights, counters, rate windows, a semaphore | Call, Close | equal calls share one flight, limits are exact, an abandoned flight is cancelled, every call returns |
| Review: `learning/review.go`, `httpapi/review.go` | one document per learner and epoch, changed by compare-and-set | start, answer, skip, advance, hint | no lost or doubled change, in order, never across epochs |
| Learner client: `lib/quiz-machine.ts`, `lib/http.ts` | the last private state, pending answer, feedback, clock, socket; two storage keys | join, select, submit, retry, next, messages, timers | what is shown together belongs together, an uncertain answer is resolved, the learner can always go on |
| Authoring: `learning/authoring.go`, `store/published.go`, `httpapi/instructor.go` | drafts by compare-and-set, intents, the index of drafts, published definitions | create, show, save, approve, regenerate, publish | approval is of what is published, publication is atomic and happens once |
| Studio client: `InstructorApp.vue`, `components/DraftQuestionEditor.vue` | the draft last seen saved, local edits, approvals shown, preview, conflict | edit, discard, review, replace, use saved, keep editing | what is approved and published is what the instructor looked at |
| Attempt plans and ranking: `domain/attempt.go`, `domain/model.go` | none | shuffle, validate, rank | every order equally likely, every plan drawn is accepted, ranks count better rows |
| Lessons: `learning/lessons.go`, `reflection.go`, `repository.go`, `service.go`, `httpapi/learning.go` | artifacts (24 hours), a book of action ids per owner and epoch, reports | explanation, example, reflection, pronunciation, report, capabilities | one lesson per id, one meaning per action id, nothing whose generation ended after a reset is saved or shown |
| Credential probe: `learning/credentials.go` | the cached verdict on the key, a version, the probe's channel | validate, reject | one probe at a time, a refusal stands, nobody waits for ever |
| Provider adapter: `learning/provider.go` | none | text, speech | exactly one text is taken from an answer |
| Limiter: `httpapi/limiter.go`, `httpapi/client_ip.go` | a table of token buckets, the next sweep | allow, client address | a bounded table limits as an unbounded one would, and the client's word does not choose the bucket |

How they interact. A browser sends commands over HTTP to the API, which calls
the store; each store operation is one Lua script, so scripts on one room
are serialised, but a Go operation made of two scripts (Join) is not. After an
accepted join or answer the API publishes a change; the publication may fail.
The hub's subscriber marks the room dirty, the coalescing loop hands dirty rooms
to two workers, a worker reads a snapshot without holding the hub's lock and
applies it under the lock, and each connection's goroutine writes from a queue
of one. The client gets private states by HTTP and boards by WebSocket in any
order. The learning service generates only through the gateway, after it has
asked for the verdict on the provider's key, and reads the quiz again once a
generation has ended. Every API request passes the limiter first. An
instructor's page keeps a copy of a draft and names its version in every request;
the service decides on a draft it read and writes it back only if it is unchanged.
Publication writes a room the store then serves.

Hard to test, and therefore modelled: interleavings inside Join; refreshes that
overlap registrations, resets and slow clients; calls that join, abandon and
settle one flight; hints that race answers; responses that arrive late, twice or
never; resets (new epochs) and an upgrade of the room anywhere; lessons that take
seconds; a probe cut off while others wait for it; pages that work on a draft
others change. `PROJECT.json` lists each hazard at its line.

## Modules

| Module | Models | Notes |
| --- | --- | --- |
| `Quiz` | what a quiz promises its players | abstract; `Room` implements it |
| `AttemptPlan` | the shuffle, the validation of a plan, the ranking | functions, beside what they have to agree with; used by `Room`, theorems in `RoomProofs` |
| `Room` | the seven keys and every accepted transition | one action per script or Go step |
| `RoomProofs` | theorems about `Room` and `AttemptPlan` | the refinement of `Quiz` among them |
| `Hub` | the hub, its clients and the publications that reach it | one action per locked section |
| `Gateway` | the gateway and its callers | one action per locked section |
| `Review` | review documents and the handlers at work on them | reads and writes are separate actions |
| `QuizMachine` | one browser tab, the requests it has in flight and the server as it sees it | an action runs from one `await` to the next |
| `Authoring` | drafts, their index, the published quizzes and the requests at work on them | one action per access to Redis |
| `Studio` | an instructor's page over `Authoring`, and instructors elsewhere | composes `Authoring` |
| `Provider` | what is made of a provider's structured answer | a pure parser; theorems in `LessonsProofs` |
| `Credentials` | the verdict on the provider's key and the requests that ask for it | one action per locked section |
| `Lessons` | the handlers of lessons and reports, from one access to Redis or the provider to the next | composes `Credentials` and `Provider` |
| `TokenBucket` | what the rate limit promises | abstract; `Limiter` implements it |
| `Limiter` | the table of buckets, its sweeps, and the address a request is charged to | one action per call of `allow` |
| `LimiterProofs` | theorems about `Limiter` | the refinement of `TokenBucket` |
| `LessonsProofs` | theorems about `Lessons`, the verdict of `Credentials` and the parser of `Provider` | |
| `HubProofs`, `GatewayProofs`, `ReviewProofs`, `StudioProofs` | theorems about `Hub`, `Gateway`, `Review`, and `Studio` over `Authoring` | |
| `QuizMachineProofs` | theorems about `QuizMachine` | |
| `MC...` | constants and symmetry sets for TLC | |

**Room.** The variables are the seven keys plus the Redis clock and, for each
caller, the Join it is in the middle of. `JoinReply`, `StartReply` and
`AnswerReply` are the scripts' answers as functions of the keys; the actions
take the accepted branch. A refused call changes nothing and is a stutter;
`Refused` gives its reply. `RoomPreflight` and `MemberPreflight` are the checks
every script repeats first, and guards of every action: were they to fail, the
room would be dead. `Points` and `TimedOut` keep the order of the code's tests.
All questions have one `Duration`; the code's 20, 30 or 40 seconds change
nothing else. Names and option orders are left out. A room may belong to the
preceding program (`content = "legacy"`), whose questions are not timed and whose
scripts the code knows only by the state they leave; `Upgrade` is the seed of
the present program on such a room, under the stricter `UpgradePreflight`, and
joins, answers and drafts of both programs go on beside it. The plan a join
writes is `Shuffled` from arbitrary draws, so what `validatePlan` accepts and
what `NewAttemptPlan` makes meet in the model. Capacities are of the room, as
`meta` keeps them, and a reset may change them.

**Hub.** `epoch` and `version` stand for a room's store. A worker's refresh is
`Take`, `ReadSnapshot` or `ReadFails`, `Apply` (one locked section), `Finish`.
`Batches` is the loop over a Go map at a tick: any order, and any room it meets
when the channel is full is left dirty. `For` picks what a client is sent:
the snapshot, or RESET_REQUIRED when its epoch is another. `Close` is
`CloseClients`, `Cancel`, one `Exit` per goroutine, `Closed`. `view` is the
last message the browser has, which the code does not keep.

**Gateway.** A call is `Hit`, `TurnAway`, `Join` or `Launch`; a waiting caller
gets its result (`Wake`) or gives up (`GiveUp`), and the deferred function is
`Leave`, a separate locked section. A flight is queued, running, returned and
settled. Windows are forgotten by `MinuteEnds` and `HourEnds`. The caches also have
budgets in bytes (`gateway.go:46-58`); a result has no size here, so that it is too
large to be kept, and how many older entries give way to it, is a choice (`Stored`,
`Settle`).

**Review.** A handler reads (`ReadForAction`, `ReadForHint`), decides on its
copy, and writes with the compare-and-set script (`Write`) or meets `Conflict`
and reads again. Documents of past epochs are kept to say that nobody changes
them. The intent key, the artifact and the generated stems of StartReview are
left out.

**QuizMachine.** `m` is the object with its fields, `calls` its requests, each
with the continuation (`then`) that runs when it returns; `Resume` runs the
code from there to the next `await`. Of all continuations only the rest of
`startCurrentQuestion` may wait again, so `Resume` needs no recursion: it runs the
stack to the first of those. `rolledBack` is history: a private state of an earlier epoch
has replaced one of a later epoch. Sequence numbers are compared only, so
`Renumbered` keeps their order and not their size. `Admit` and `Push` are the
hub as one client sees it, whose correctness is `Hub`'s concern. Session expiry
and the change of identity it brings, storage failures, `leave()` and the
freshness interval (folded into `SocketFails`) are left out.

**Authoring.** A request goes through `Call`, a read (`ReadToShow`,
`ReadToCreate`, `ReadToChange`), for the two that need the provider `Generate` or
`GenerationFails`, one write (`Create`, `CompareAndSet`, `Publish`) and, when
the write meets a conflict, `Recover`. `Verdict` is what the read decides, in the
code's order. An approval stores the content it approves, where the code stores a
hash of it. A request stands for its `clientActionId` and its fingerprint, since
the page draws one id per action and body. `TakePlace` is another draft taking a
place in a quota, `Expire` the thirty days. Titles, duplicate words, the daily
budget of generations and reports are left out; the operator session is a lost
answer at worst.

**Studio.** `page` is the component's state: the draft last saved, the edit on
top, the approvals shown, the final review, the preview with the content it was
asked for (`base`), the conflict. Each button is an action under the condition that enables
it. `Receive` is the continuation of the request, `Lose` a broken connection. An
instructor elsewhere (`Elsewhere`) is a page that has just opened the draft, so its
requests are stale only when the draft changes under way. `vouched` and
`signed` are history: what was on the screen at each approval and publication.

**Credentials, Lessons.** `ask[r]` is where a request is in
`ValidateCredentials`: asking, waiting for a probe's channel, probing, told. What
a probe found is stored only if no generation was refused since it started
(`version`). A lesson goes through `Ask` (identity and snapshot), `Intend` (the
intent script), the verdict, `Look`, `Generate` or its failures, `Reauthorize`,
`Save` (SETNX), `Reread`, `Reply`; a pronunciation skips the intent, the look-up
and the saving. A generation gives a new lesson or an earlier one of the same id,
which is all that the gateway's caches and flights can make of it. An example
differs from an explanation in its text only. `expiries` ages Redis keys:
`born` tells the lives of one key apart. The anonymous session, checked before
and after, is not a variable: losing it ends the handler with nothing changed.

**Provider.** `Text` folds the parser over an answer; a part is named for what
the parser looks at.

**Limiter.** Time runs in minutes and tokens are whole, so a level is a number
and not a float. `ClientAddress` is the walk from the connection towards the
client. `TokenBucket` never forgets a bucket; the refinement maps its tokens to
`Level`, what a bucket would hold now, full when it is not in the table.

## Runs

| Run | Question | Bounds |
| --- | --- | --- |
| `room` | does the room survive racing joins, resets, late calls and an upgrade, keep one ledger, and implement `Quiz`? | a race: 2 identities, 2 callers, capacities 1 and 2, 2 epochs; or a duel: 2 players, 2 questions, 2 submissions, a deadline between the calls; either in a room of this program or of the preceding one |
| `serving` | has a lesson one text, an action id one meaning, is nothing kept that a reset outdated, are verdicts right and reach everybody, and is the limiter a token bucket? | 2 requests, 2 owners, 2 action ids, 2 probes, 1 refusal, 2 epochs, 2 texts per id, 1 expiry, books and lists of 1; or 3 addresses, 1 of them a proxy, a table of 2, 5 minutes; all answers of 2 messages of 2 parts, all chains of 3 hops |
| `hub_delivery` | are refreshes exclusive, boards forward and of the right epoch, and do the limits hold? | 2 workers, channel of 1; 1 client of a room with 2 epochs and 2 versions, or 2 of 3 clients in 2 quiet rooms |
| `hub_liveness` | does the newest board arrive, is a stale client released, does Close return? | 1 client, 1 worker, 1 failed read |
| `gateway` | are counters, coalescing, cancellation and cache exact? | 3 callers, 2 keys and a third that is asked for while both have a flight, each limit at 1 or 2 |
| `gateway_liveness` | does every call, and Close, return? | 2 callers, 1 key |
| `gateway_cancellation` | can one request's cancellation fail another? (finding) | as above |
| `review` | is every change made exactly once, in order, in its epoch? | 2 handlers, 2 missed cards, 2 epochs, 1 document; a second one under its key while both are at most at version 2 |
| `quiz_machine` | is what is shown together one state, dismissed feedback gone, and an accepted answer not asked for again? | 2 questions, 2 requests in flight, 2 epochs, 1 foreign write |
| `quiz_progress` | can the player always go on? | 2 questions, 2 requests in flight, 1 lost response or refusal, 1 foreign write |
| `quiz_retry` | does a retry that is offered help? (finding) | 1 question, a reset, 1 lost response |
| `authoring` | is what is approved and published what was on the screen, and is no change lost? | 1 page, 1 instructor elsewhere, 1 question with 2 contents, 2 requests at work, 4 requests besides opening, 2 changes per draft, quotas of 1 |

The bounds are the smallest at which each contended resource is contended: a
seat for two, a deadline that falls between two calls, a queue, channel, cache
or limit that is full, an epoch that ends under a request, two workers for one
room, two handlers for one document, an edit elsewhere between an approval's
reading and its writing. In `authoring` four requests are a creation, an approval,
an edit elsewhere that defeats or follows it, and a publication; one question
is enough because each question's approval depends on its own content only, and
two contents because the properties tell apart only equal and different. In
`MCHub` the scenarios `Alone` and `Crowd` share one run: their initial states
differ and every behaviour starts in one of them. `MCRoom` (race or duel) and
`MCServing` (`Probing`, `Intending`, `Generating`, `Reporting`, or the limiter
alone) do the same with scenarios that restrict which requests are made, `MCGateway`
and `MCReview` restrict when the third key and the second document come, named and
explained there: the properties of one relate few of the actors, and all of
them together would not add an interleaving they could notice. The pure facts
(`FairPlansExactRanks`, `TextIsOne`, `ClaimsIgnored`) are looked at in the
states where they first matter. Every action of every next-state relation
fires in some passing run. Counters that only grow (epochs, versions, time,
flights, creations, requests, intents) are bounded in guards by constants named `Max...`;
a model that has used them up may stop, hence `CHECK_DEADLOCK FALSE`. Symmetry
is used in runs without liveness only.

The type invariants of the modules other than `Room` are conjuncts of the
invariant that rests on them: of `Hub` in `OneRefreshPerRoom` (with the
connection limits, `AdmissionLimits`), of `Gateway` in `CountersExact`, of `Review`
in `EveryChangeOnce`, of `QuizMachine` in `ShownTogether`, of `Studio` in
`PageKnowsItsVersion`. The soundness of the gateway's caches (`CacheSound`) is part
of `Coalesced`, that the hint flag is honest part of `EveryChangeOnce`, and that a
card comes back at most once part of `AnsweredInOrder`.

Every property has a mutation: a definition, marked `Mutation` in its comment,
that replaces one definition of the model by a plausible bug and violates it.

**Fairness.** Only the hub, the gateway, the client and the credential probe have
liveness properties. Hub: its goroutines run, so tickers tick, workers take jobs and
finish, writers write, and the subscriber reconnects; publication is not fair
and snapshots may fail a bounded number of times. Gateway: goroutines run,
deadlines pass, and a provider call returns once its context has ended;
callers need not ever call or give up. Client: the server answers or the
request is lost, responses are processed, timers fire, the hub pushes; the
player is assumed only to press a retry that is offered and usable. Probe: a
request that asks runs, is woken when its channel is closed, and the probe ends
within its two seconds; waiters need not give up (`StopWaiting` is not fair).

## Findings

1. `gateway_cancellation`. The comment at `learning/gateway.go:150-151` says a
   request's cancellation removes only that waiter. A flight whose last waiter
   has left is cancelled but stays in the table until it settles; a caller that
   arrives in between joins it and fails with AI_TIMEOUT.
2. `quiz_retry`. `lib/quiz-machine.ts:440` tells the player to retry, but
   `retry()` returns at once while `submission` is `"checking"`, which is left
   behind when a reset clears a pending answer that is still in flight. Without a clock
   `canSelect` is false as well, so the player cannot go on.

Some observations are not findings, as nothing in the repository promises
otherwise. In `InstructorApp.vue` a preview applied while a save is under way is
replaced by the answer to the save (244). A second preview that fails to come has
already moved `previewLocalHash` (227), so the first preview can then replace an
edit made since (249). A draft created again after its thirty days starts at
version 1 under the same id (`learning/authoring.go:288`), which a page open since
may take for the version it knows; the model creates a draft once. A request that
is cancelled while it probes the key leaves AI_UNAVAILABLE for everybody for 15
seconds (`credentials.go:48-60`). A report of a lesson made again under its id
is swallowed while the owner's earlier report lives (`repository.go:89`). A sweep gives a bucket
back full, which is what it would be anyway only if the rate fills a bucket in the
two minutes it must be idle (`LimiterAssumption`); the configuration does not ask
for it (`RATE_LIMIT_PER_SECOND` and `RATE_LIMIT_BURST` are checked separately). Empty output texts are
skipped before the text and refused after it (`provider.go:152`). More than 32
forwarded hops charge the proxy itself (`client_ip.go:24`).

`quiz_progress` therefore excuses exactly that abandoned submission
(`Abandoned`), and checks without a reset; with one, the page can be taken back.
Private states are numbered by when they were asked for and an earlier number is
refused (`quiz-machine.ts:256`), but the server need not answer in that order:
asked for later, a state may be read before the reset and arrive after one that
was read behind it. Versions are compared within an epoch only
(`quiz-machine.ts:260`), so it replaces the state of the later epoch until the next
synchronisation, and the page drops the answer of the later epoch that it was
still checking (`clearPending`, 284). When it comes forward again it has no intent
left to check, may offer that question a second time, and shows feedback that
was dismissed in between. `DismissedStaysAway` and `OwnAnswerNotReoffered` hold
for a page to which this has not happened (`~rolledBack`); that it takes a reset
is `TakenBackOnlyAfterReset`.

## Proofs

`RoomProofs` proves, for every number of players, submissions and questions (up
to eight, as `questionCount` enforces) and every capacity and duration:

- `TypeCorrect`: `Spec => []TypeOK`. `TypeOK` is inductive as it stands because
  every action carries the preflight as its guard: it is the preflight that
  bounds the count and the cursor. The lemmas about `Put`, `Cursor` (which
  exists by well-foundedness of the naturals) and `NewReceipt` carry it.
- `BooksAgree`: `Spec => []RequestsMatchAnswers`, inductive relative to
  `TypeOK`. `AnswerReply` accepts only a submission and a question that are both
  new, so both books gain the same receipt, of the epoch that is played.
- `FirstWriteWins`: `Spec => FirstWriteStands`, from `TypeOK` and the accepted
  branches of the three replies; the upgrade keeps every order.
- `Kinds`: seen from its seven keys a step restarts the room, upgrades it, joins,
  starts, answers, or leaves them alone. The theorems below go through these six.
- `RoomNeverBricks`: `Spec => []PreflightNeverTrips`. The preflight is a guard, so
  this is the claim that the guard never stops anybody; it needs that the keys
  agree with each other and with the rules (`Consistent`: a member has a score, a
  plan and a progress that fit one another, nobody else has an answer or a clock,
  a room not yet upgraded has no clock) and that the version counts players and
  receipts (`Counted`), which is what bounds it.
- `VersionOrdersBoards`: `Spec => VersionNamesBoard`, from the kinds.
- `DeadlinesStand`: `Spec => []ScoredAgainstStandingDeadline`. A start never touches
  a question that has been answered, and an answer leaves the deadline it names.
- `RetriesAreIdempotent`: `Spec => []RetryGetsOriginalReceipt`, from the two books
  and the order of the checks in `AnswerReply`.
- `LedgersBalance`: `Spec => []LedgerBalances`. Strengthening: every receipt is
  dated by the version it made (`Dated`), so that a new one is the last of its
  participant and continues the one before (`Chained`).
- `RoomImplementsQuiz`: `Spec => KeepsPromise`, the refinement of `Quiz`: a restart
  opens a round, a join seats a player, an answer awards a first answer, and every
  other step stutters, for the upgrade moves no seat, no award and no board.

About the algorithms of `AttemptPlan`, it proves, for lists and boards of every
length:

- `EveryOrderOnce`: exactly one sequence of draws makes each order that validation
  accepts, and none makes another. The loop of the shuffle is unrolled into its
  states (`WalksDown`, `ShuffledIs`); a round settles one position for good
  (`SettledStays`), so the order that came out tells the draws (`DrawsAreTold`); and
  for an order that is accepted a draw can be found round by round (`DrawnFor`).
- `DrawnPlansAreValid`: the plan drawn for a join that is otherwise accepted is a
  `ValidPlan`, the check that the writing script makes of it.
- `RanksCountTheBetter`: on a descending board a rank is one more than the number
  of better rows.
- `PlansAreFair`: `Spec => []FairPlansExactRanks`, from these, for any manifest.

`LimiterProofs` proves, for every rate, burst, table and set of trusted proxies:

- `BoundedTableKeepsRate`: `LimiterSpec => KeepsRate`, the refinement of
  `TokenBucket`. The invariant `LimiterType` bounds tokens and puts every bucket's
  time in the past. The argument is `ForgottenAreFull`: a bucket older than
  `IdleTime` has refilled, so that a client that comes back to a fresh, full
  bucket gains nothing. It needs `Rate * IdleTime >= Burst`, which
  `LimiterAssumption` states and the defaults satisfy (10 a second refill 40 in
  four seconds), while the configuration does not ask for it (see Findings). `ChargedAreAddresses` shows that
  the walk along a forwarded chain never ends at something that is no address.
- `NoClaimCounts`: whatever hops a request claims, and however many trusted proxies
  it has passed, it is charged to the client those proxies saw, and to the nearest
  of them where the chain is longer than the hops that are read. `ClaimsIgnoredHolds`
  is the same as the run `serving` looks at it: `LimiterSpec => []ClaimsIgnored`.

`LessonsProofs` proves, for every number of requests, owners, questions, action
ids, resets, expiries and lessons per id:

- `VerdictStands`: `Spec => FreshVerdictStands`. The invariant `ProbeIsAlone`: at
  most one probe is under way, and while no refusal came since it started there is
  no fresh verdict for its find to replace.
- `StepKinds`: seen from outside, every step of `Next` is one of a few kinds (the
  quiz goes on, a key expires, a handler begins, moves, names its intent, saves,
  reports). It rests on `LessonsType`, what a handler of each stage holds, and on
  `AskersWait`, that only a handler at the right stage asks for the verdict. The
  three invariants below are inductive relative to these, over the kinds.
- `NeverOutdated`: `Spec => []OnlyCurrent`. Strengthening: a handler's epoch
  is one the quiz has reached, its owner still plays if it is the present one, so
  what is not authorized when its generation ends belongs to an epoch that is over
  and stays refused (`OwnLessons`).
- `ActionsNameRequests`: `Spec => []IntentNamesOneRequest`. Strengthening: a book
  that is opened after an expiry is younger than any a handler remembers, and
  where a handler was refused for the limit the book is still full (`BooksAge`).
- `OneLessonShown`: `Spec => []OneLessonPerLife`. Strengthening: what is shown
  comes from the artifact that lives, or from one whose life ended with an expiry
  (`LivesAge`); SETNX does the rest.
- `AnswersHoldOneText`: for every answer of the provider, whatever the number of its
  items and parts, `OneTextOnly`. `Parsed` relates the state of the parser to the
  places heard so far: no error exactly while these are `Fine` and the messages
  sound, and the text is then the one that was heard. It holds after every part
  (`MessageStep`) and every item (`ItemStep`). `OneTextIsTaken` is the same as the
  run `serving` looks at it: `Spec => []TextIsOne`.

`HubProofs` proves, for every number of rooms, clients and workers and every limit:

- `TypeCorrect`: `Spec => []TypeOK`, the limits on connections included.
- `RefreshesAreSingle`: `Spec => []OneRefreshPerRoom`. Strengthening: a room marked
  as refreshing has its one job in the channel or at one worker, and a room that is
  not marked has none (`SingleRefreshes`).
- `OwnEpochOnly`: `Spec => []OnlyOwnEpoch`, once nothing is queued for, or shown to,
  a connection before it is live (`OwnEpochs`).
- `BoardsNeverGoBack`: `Spec => NeverBackwards`. What a client was shown, what waits
  in its queue, what the room showed last, what a worker has read and what the room
  is now are in order (`InOrder`); with a single refresh no worker overtakes another.
- `WakeupsAreNotForgotten`: `Spec => []WakeupNotForgotten`. Strengthening: a worker
  that holds a snapshot older than the room finds it dirty afterwards, or a
  notification is under way (`StaleReadIsOwed`).

`GatewayProofs` proves, for every number of callers and keys and every limit:

- `CountersStayExact`: `Spec => []CountersExact`. Strengthening: a caller is idle
  exactly when it belongs to no flight (`Placed`); the sets that the counters count
  gain and lose one element at a time; a flight is added only below the limit (`FewActive`).
- `AbandonedFlightsAreCancelled`: `Spec => []AbandonedIsCancelled`, relative to the
  counters: the waiter that brings a flight to zero is the one that cancels it.
- `CallsAreCoalesced`: `Spec => []Coalesced`. The map and the flights that are not
  settled name each other (`OneFlight`, `Pointing`); the entries of a cache are
  distinct, and each is of a flight that succeeded (`Entries`).

`ReviewProofs` proves, for every number of handlers, action ids, missed questions
and expiries:

- `ChangesCountOnce` and `CardsComeInOrder`: `Spec => []EveryChangeOnce` and
  `Spec => []AnsweredInOrder`. Every document is `Sound`, a predicate of one
  document that every change `Apply` allows preserves, and a handler about to write
  holds a document that allows its request (`HandlersReady`). As the compare-and-set
  writes only over the document that was read, the write is such a change.
- `SessionsOnlyGrow`: `Spec => SessionOnlyGrows`, from the same changes.

`StudioProofs` proves, for every number of drafts, questions, contents, handlers and
instructors, and every quota:

- `ApprovalsAreAsSeen`, `PublicationsAreAsReviewed`, `PagesKnowTheirVersion` and
  `NoChangesAreLost`: `StudioSpec` implies `[]ApprovedAsSeen`,
  `[]PublishedAsReviewed`, `[]PageKnowsItsVersion` and `NoChangeIsLost`. No draft
  changes without a new version and none is created again (`Advances`). Therefore a
  copy that a page or a reply holds is true of the draft as long as the versions
  agree (`Copy`), and a request is backed by what was shown of the version it names
  (`Backed`), for as long as either exists. A change is stored only over the
  document whose verdict allowed it, and that verdict compares the versions. What a
  step can do to the store is one of six moves (`StoreMoves`); `StoreStep` shows
  that each keeps the store as approved and as reviewed (`StoreOK`).

`QuizMachineProofs` proves, for every number of questions, requests in flight, epochs,
foreign writes and failures:

- `QuizMachineInvariant`: `Spec => []QuizMachineOK`. `Base` says that the page
  shows what belongs to its state, that every state on the page or in a reply is a
  copy of what the server had at some version (`Behind`), and that two copies of one
  epoch agree (`Agree`): without it an older reply could look newer, or bring
  back less than the page knows. `NamesOK` ties an answer under way to the stored intent
  by its identifier, `DismissalOK` what was dismissed to what is known. Until the
  page is taken back, `Forward` holds as well: an answer the server could still
  accept is the stored intent (`Open`), and one that it has accepted from here is
  on the page or still to be found through the intent (`Settled`). A step is one of
  the server's (`ServerStep`), one of the machine's (`MachineStep`, whichever
  continuations run), or the opening of a page (`Arrives`); each part is shown for
  the three in turn.
- `ShownTogetherHolds`, `DismissedStaysAwayHolds`, `OwnAnswerNotReofferedHolds`:
  `Spec` implies `[]ShownTogether`, `[]DismissedStaysAway` and
  `[]OwnAnswerNotReoffered`, from that invariant.
- `TakenBackOnlyAfterReset`: `Spec => [](rolledBack => server.epoch > 1)`, so that in
  a room that was never reset the last two hold without their exception.

The assumptions are `RoomAssumption` (finite constants, a manifest that is
an order of the questions, the capacity and the durations the code accepts), `LimiterAssumption`, `CredentialsAssumption` (no
request is the absence of one), `LessonsAssumption` (a book has a place, counts
are naturals), `ProviderAssumption` (the bounds are naturals), `HubAssumption` and `GatewayAssumption` (finite sets of rooms,
clients and callers, limits that are naturals, and a flight with room for one
waiter: 16 in the code), `ReviewAssumption` (one to three questions, and 24 intents
for at most six cards, two each, as in the code), `AuthoringAssumption` and
`StudioAssumption` (an absence is none of the values it stands beside; finitely many
questions; a page creates one draft), and `QuizMachineAssumption` (an attempt has a
question, finitely many requests are in flight, counts are naturals); TLC evaluates each of them in the runs of its `MC` module.

Where a function is defined by recursion (the shuffle, the ranks, the parser),
the induction is by the least counterexample: the naturals are well-founded, so a
set of bad positions has a least one, and the step from the position before
refutes it. The induction theorems of the library take an operator as a
parameter, which no installed prover can instantiate.

Model-checked only: liveness (`BoardArrives`, `StaleClientIsReleased`,
`CloseReturns`, `EveryCallReturns`, `PlayerGetsOn`, `EveryRequestTold`), because
fairness is about ENABLED, which is out of this prover's reach, and the two
properties of the findings, which do not hold. Every other property of a run is
stated by a theorem.

## Not modelled

Anonymous and operator sessions, origins, cookies and the limit of sign-ins;
presenting options and teaching (wording); the validators of generated texts and
sounds, whose verdict is a choice; configuration, metrics, static files, entry
points; rendering; test doubles and the load tool. The preceding program is modelled as far
as the upgrade constrains it.

A Lua script is one step, as Redis runs it. One that an error stops halfway, with
some of its keys written (`transition.lua:104`, `published.go:70`), is out of scope:
what is checked is what its accepted and refused branches write.

## Plan

1. The review page (`ReviewPlayer.vue`, `ReviewLauncher.vue`, `useLearning.ts`)
   over `Review`, as `Studio` is over `Authoring`: its stored intents, the hint it
   cancels, the answers it takes only for what it shows.
2. Sessions (`store.go`, `httpapi/server.go`) and the limit of operator sign-ins.
