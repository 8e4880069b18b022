------------------------------- MODULE Lessons -------------------------------
(***************************************************************************)
(* Optional lessons for a learner of a quiz: explanations and examples for *)
(* an answered question, a reflection on a completed practice, the sound   *)
(* of a word, and reports about any of them.  A handler works through      *)
(* reads of the quiz and of Redis, the check of the provider's key and a   *)
(* generation that takes seconds; between two of its steps other tabs of   *)
(* the learner go on, the room is reset and keys expire.                   *)
(* The generation is the gateway's call (Gateway): its caches and shared   *)
(* flights show here as an older lesson returned again.                    *)
(***************************************************************************)
EXTENDS Credentials, Provider, FiniteSets

CONSTANTS
  Owners,           \* anonymous participants
  Questions,        \* number of questions in the quiz
  Actions,          \* client action ids
  MaxIntents,       \* action ids of an owner and epoch (160)
  MaxReports,       \* reports of an owner (20)
  RecentReports,    \* reports kept for the instructor (200)
  MaxEpoch,         \* bound: resets of the quiz, plus one
  MaxMade,          \* bound: different lessons generated for one id
  MaxExpiries       \* bound: Redis keys that expire

\* A book has a place for an action id.
ASSUME LessonsAssumption ==
  /\ MaxIntents \in Nat \ {0}
  /\ Questions \in Nat /\ MaxMade \in Nat

None == "none"
Out == -1

\* An example is an explanation in every respect but its text and the checks of it.
Topics == [kind : {"explanation", "pronunciation"}, q : 1..Questions]
            \cup [kind : {"reflection"}, q : {0}]

\* The hash that names an artifact: its receipt is fixed by owner, epoch and question.
Ids == [owner : Owners, epoch : 1..MaxEpoch, topic : Topics]

VARIABLES
  epoch,            \* of the quiz
  progress,         \* Owner -> questions answered in this epoch, or Out before joining
  artifacts,        \* id -> [data, born]: saved lessons
  intents,          \* <<owner, epoch>> -> [bound, born]: what each action id asked for
  reports,          \* Owner -> ids reported
  recent,           \* the instructor's list, newest first
  made,             \* id -> lessons generated so far
  expiries,         \* Redis keys that have expired: the age of the others
  handler           \* Request -> what it does for whom

quiz == <<epoch, progress>>
saved == <<artifacts, intents, reports, recent, expiries>>
vars == <<credentialVars, quiz, saved, made, handler>>

Idle == [stage |-> "idle"]
At(h, stage) == handler[h].stage = stage
Goes(h, stage) == handler' = [handler EXCEPT ![h].stage = stage]
Replies(h, code) == handler' = [handler EXCEPT ![h].stage = "replying", ![h].code = code]
Id(h) == [owner |-> handler[h].owner, epoch |-> handler[h].epoch, topic |-> handler[h].topic]
Spoken(h) == handler[h].topic.kind = "pronunciation"
Known == DOMAIN artifacts
Put(f, k, v) == [x \in DOMAIN f \cup {k} |-> IF x = k THEN v ELSE f[x]]
Drop(f, k) == [x \in DOMAIN f \ {k} |-> f[x]]

Init ==
  /\ CredentialsInit
  /\ epoch = 1
  /\ progress = [o \in Owners |-> Out]
  /\ artifacts = << >> /\ intents = << >> /\ expiries = 0
  /\ reports = [o \in Owners |-> {}] /\ recent = << >>
  /\ made = [id \in Ids |-> 0]
  /\ handler = [h \in Requests |-> Idle]
-----------------------------------------------------------------------------
(* The quiz around it *)

Play(o) ==
  /\ progress[o] < Questions
  /\ progress' = [progress EXCEPT ![o] = @ + 1]
  /\ UNCHANGED <<credentialVars, epoch, saved, made, handler>>

ResetQuiz ==
  /\ epoch < MaxEpoch
  /\ epoch' = epoch + 1 /\ progress' = [o \in Owners |-> Out]
  /\ UNCHANGED <<credentialVars, saved, made, handler>>

Authorized(o, e) == progress[o] # Out /\ epoch = e

\* accepted, the pronunciation of the current question, and a completed practice.
Eligible(o, topic) ==
  CASE topic.kind = "explanation" -> topic.q <= progress[o]
    [] topic.kind = "pronunciation" -> topic.q <= progress[o] + 1
    [] topic.kind = "reflection" -> progress[o] = Questions
-----------------------------------------------------------------------------
(* A lesson *)

\* The identity and the snapshot; whoever is not eligible is refused and changes nothing.
Ask(h, o, topic, action) ==
  /\ At(h, "idle")
  /\ Authorized(o, epoch) /\ Eligible(o, topic)
  /\ handler' = [handler EXCEPT ![h] =
       [stage |-> IF topic.kind = "pronunciation" THEN "checking" ELSE "intending",
        owner |-> o, epoch |-> epoch, topic |-> topic, action |-> action,
        code |-> None, data |-> 0, born |-> 0, bound |-> 0, stale |-> FALSE]]
  /\ ask' = IF topic.kind = "pronunciation" THEN [ask EXCEPT ![h] = Asking] ELSE ask
  /\ UNCHANGED <<check, quiz, saved, made>>

Book(h) == <<handler[h].owner, handler[h].epoch>>
Opened(h) == IF Book(h) \in DOMAIN intents THEN intents[Book(h)]
             ELSE [bound |-> << >>, born |-> expiries]

\* Mutation: the limit is looked at before the action id.
IntentReplyLimitFirst(h) ==
  LET bound == Opened(h).bound IN
  IF Cardinality(DOMAIN bound) >= MaxIntents
  THEN "AI_LIMIT_REACHED"
  ELSE IF handler[h].action \in DOMAIN bound /\ bound[handler[h].action] # handler[h].topic
  THEN "IDEMPOTENCY_CONFLICT"
  ELSE "ok"

\* intentScript
IntentReply(h) ==
  LET bound == Opened(h).bound IN
  IF handler[h].action \in DOMAIN bound
  THEN IF bound[handler[h].action] = handler[h].topic THEN "ok" ELSE "IDEMPOTENCY_CONFLICT"
  ELSE IF Cardinality(DOMAIN bound) >= MaxIntents
  THEN "AI_LIMIT_REACHED"
  ELSE "ok"

Intend(h) ==
  /\ At(h, "intending")
  /\ IF IntentReply(h) = "ok"
     THEN /\ intents' = Put(intents, Book(h),
                            [Opened(h) EXCEPT !.bound = Put(@, handler[h].action, handler[h].topic)])
          /\ handler' = [handler EXCEPT ![h].stage = "checking", ![h].bound = Opened(h).born]
          /\ ask' = [ask EXCEPT ![h] = Asking]
     ELSE /\ handler' = [handler EXCEPT ![h].stage = "replying", ![h].code = IntentReply(h),
                                        ![h].bound = Opened(h).born]
          /\ UNCHANGED <<intents, ask>>
  /\ UNCHANGED <<check, quiz, artifacts, reports, recent, expiries, made>>

\* Capabilities asks for the verdict and nothing else.
AskCapabilities(h) ==
  /\ At(h, "idle")
  /\ handler' = [handler EXCEPT ![h].stage = "capabilities"]
  /\ ask' = [ask EXCEPT ![h] = Asking]
  /\ UNCHANGED <<check, quiz, saved, made>>

CheckProvider(h) ==
  /\ Validate(h)
  /\ UNCHANGED <<quiz, saved, made, handler>>

Checked(h) ==
  /\ ask[h].stage = "told"
  /\ ask' = [ask EXCEPT ![h] = NotAsking]
  /\ IF At(h, "capabilities")       THEN handler' = [handler EXCEPT ![h] = Idle]
     ELSE IF ask[h].verdict # "ok"  THEN Replies(h, ask[h].verdict)
     ELSE IF Spoken(h)              THEN Goes(h, "generating")
     ELSE Goes(h, "looking")
  /\ UNCHANGED <<check, quiz, saved, made>>

Shown(h) == handler' = [handler EXCEPT ![h].stage = "replying", ![h].code = "ok",
                          ![h].data = artifacts[Id(h)].data, ![h].born = artifacts[Id(h)].born]

\* The look-up: a lesson that is there is shown without another check of the quiz.
Look(h) ==
  /\ At(h, "looking")
  /\ IF Id(h) \in Known THEN Shown(h) ELSE Goes(h, "generating")
  /\ UNCHANGED <<credentialVars, quiz, saved, made>>

\* Gateway.Call returns a lesson made now, or one made before for the same id.
Generate(h, data) ==
  /\ At(h, "generating")
  /\ data \in 1..(made[Id(h)] + 1) /\ data <= MaxMade
  /\ made' = IF data > made[Id(h)] THEN [made EXCEPT ![Id(h)] = data] ELSE made
  /\ handler' = [handler EXCEPT ![h].stage = "generated", ![h].data = data,
                   ![h].stale = ~Authorized(handler[h].owner, handler[h].epoch)]
  /\ UNCHANGED <<credentialVars, quiz, saved>>

\* Everything that is not accepted: the gateway's limits, time, a refusal, invalid output.
GenerationFails(h) ==
  /\ At(h, "generating")
  /\ Replies(h, "failed")
  /\ UNCHANGED <<credentialVars, quiz, saved, made>>

KeyRefused(h) ==
  /\ At(h, "generating")
  /\ RejectCredentials
  /\ Replies(h, "AI_CREDENTIALS_INVALID")
  /\ UNCHANGED <<ask, quiz, saved, made>>

\* Mutation: the snapshot is not read again.
ReauthorizeNot(h) ==
  /\ At(h, "generated")
  /\ IF Spoken(h) THEN Replies(h, "ok") ELSE Goes(h, "saving")
  /\ UNCHANGED <<credentialVars, quiz, saved, made>>

Reauthorize(h) ==
  /\ At(h, "generated")
  /\ IF ~Authorized(handler[h].owner, handler[h].epoch)  THEN Replies(h, "EPOCH_MISMATCH")
     ELSE IF Spoken(h)                                  THEN Replies(h, "ok")
     ELSE Goes(h, "saving")
  /\ UNCHANGED <<credentialVars, quiz, saved, made>>

\* Mutation: SET instead of SETNX.
SaveOver(h) ==
  /\ At(h, "saving")
  /\ artifacts' = Put(artifacts, Id(h), [data |-> handler[h].data, born |-> expiries])
  /\ Goes(h, "rereading")
  /\ UNCHANGED <<credentialVars, quiz, intents, reports, recent, expiries, made>>

\* SETNX: the first lesson saved under an id stays.
Save(h) ==
  /\ At(h, "saving")
  /\ artifacts' = IF Id(h) \in Known THEN artifacts
                  ELSE Put(artifacts, Id(h), [data |-> handler[h].data, born |-> expiries])
  /\ Goes(h, "rereading")
  /\ UNCHANGED <<credentialVars, quiz, intents, reports, recent, expiries, made>>

\* What was saved is read back: it may be another's, or have expired.
Reread(h) ==
  /\ At(h, "rereading")
  /\ IF Id(h) \in Known THEN Shown(h) ELSE Replies(h, "ARTIFACT_EXPIRED")
  /\ UNCHANGED <<credentialVars, quiz, saved, made>>

\* The identity is checked again before the lesson is shown; either way the handler is done.
Reply(h) ==
  /\ At(h, "replying")
  /\ handler' = [handler EXCEPT ![h] = Idle]
  /\ UNCHANGED <<credentialVars, quiz, saved, made>>
-----------------------------------------------------------------------------
(* A report *)

\* The artifact must be there and be the owner's.
ReadToReport(h, o, id) ==
  /\ At(h, "idle") /\ id \in Known /\ id.owner = o
  /\ handler' = [handler EXCEPT ![h] =
       [stage |-> "authorizing", owner |-> o, id |-> id]]
  /\ UNCHANGED <<credentialVars, quiz, saved, made>>

AuthorizeReport(h) ==
  /\ At(h, "authorizing")
  /\ IF Authorized(handler[h].owner, handler[h].id.epoch)
     THEN Goes(h, "filing") ELSE handler' = [handler EXCEPT ![h] = Idle]
  /\ UNCHANGED <<credentialVars, quiz, saved, made>>

\* reportScript
File(h) ==
  LET o == handler[h].owner
      id == handler[h].id
  IN
  /\ At(h, "filing")
  /\ handler' = [handler EXCEPT ![h] = Idle]
  /\ IF id \notin reports[o] /\ Cardinality(reports[o]) < MaxReports
     THEN /\ reports' = [reports EXCEPT ![o] = @ \cup {id}]
          /\ recent' = SubSeq(<<id>> \o recent, 1,
                              IF Len(recent) < RecentReports THEN Len(recent) + 1 ELSE RecentReports)
     ELSE UNCHANGED <<reports, recent>>
  /\ UNCHANGED <<credentialVars, quiz, artifacts, intents, expiries, made>>
-----------------------------------------------------------------------------
(* Redis keys expire after 24 hours *)

Expires ==
  /\ expiries < MaxExpiries
  /\ expiries' = expiries + 1
  /\ UNCHANGED <<credentialVars, quiz, recent, made, handler>>

ArtifactExpires(id) ==
  /\ id \in Known
  /\ artifacts' = Drop(artifacts, id)
  /\ Expires /\ UNCHANGED <<intents, reports>>

IntentsExpire(b) ==
  /\ b \in DOMAIN intents
  /\ intents' = Drop(intents, b)
  /\ Expires /\ UNCHANGED <<artifacts, reports>>

ReportsExpire(o) ==
  /\ reports[o] # {}
  /\ reports' = [reports EXCEPT ![o] = {}]
  /\ Expires /\ UNCHANGED <<artifacts, intents>>
-----------------------------------------------------------------------------
Serve(h) ==
  \/ Intend(h) \/ CheckProvider(h) \/ Checked(h) \/ Look(h)
  \/ GenerationFails(h) \/ KeyRefused(h) \/ (\E data \in 1..MaxMade : Generate(h, data))
  \/ Reauthorize(h) \/ Save(h) \/ Reread(h) \/ Reply(h)
  \/ AuthorizeReport(h) \/ File(h)

Next ==
  \/ \E h \in Requests, o \in Owners, topic \in Topics, action \in Actions : Ask(h, o, topic, action)
  \/ \E h \in Requests, o \in Owners, id \in Ids : ReadToReport(h, o, id)
  \/ \E h \in Requests : AskCapabilities(h) \/ Serve(h)
  \/ \E o \in Owners : Play(o) \/ ReportsExpire(o)
  \/ \E id \in Ids : ArtifactExpires(id)
  \/ \E b \in Owners \X (1..MaxEpoch) : IntentsExpire(b)
  \/ ResetQuiz
  \/ VerdictExpires /\ UNCHANGED <<quiz, saved, made, handler>>

Spec == Init /\ [][Next]_vars

\* Handlers run, and the probe has two seconds.
Fairness == \A h \in Requests : WF_vars(Proceed(h) /\ UNCHANGED <<quiz, saved, made, handler>>)
-----------------------------------------------------------------------------
Lesson(h) == "topic" \in DOMAIN handler[h]
ShowsLesson(h) == At(h, "replying") /\ Lesson(h) /\ handler[h].code = "ok" /\ ~Spoken(h)

\* A number the handler of id or book is at: it belongs to what is stored there now.
SameLife(h, stored, k) == k \in DOMAIN stored /\ stored[k].born = handler[h].born

(***************************************************************************)
(* As long as an artifact lives there is one lesson under its id: whatever *)
(* was generated twice, by two tabs or two replicas, everybody is shown    *)
(* the lesson that is stored and may be reported.                          *)
(***************************************************************************)
OneLessonPerLife ==
  /\ \A h \in Requests : ShowsLesson(h) /\ SameLife(h, artifacts, Id(h)) =>
       handler[h].data = artifacts[Id(h)].data
  /\ \A g, h \in Requests :
       (/\ ShowsLesson(g) /\ ShowsLesson(h) /\ Id(g) = Id(h)
        /\ handler[g].born = handler[h].born) => handler[g].data = handler[h].data

(***************************************************************************)
(* While the book of an owner and epoch lives, an action id stands for one *)
(* request: a repeat of it is accepted even at the limit, and another use  *)
(* of it is refused, in whatever order two tabs come.                      *)
(***************************************************************************)
IntentNamesOneRequest ==
  \A h \in Requests :
    (/\ Lesson(h) /\ ~Spoken(h) /\ ~At(h, "intending") /\ Book(h) \in DOMAIN intents
     /\ intents[Book(h)].born = handler[h].bound) =>
       LET bound == intents[Book(h)].bound
           action == handler[h].action
       IN CASE handler[h].code = "AI_LIMIT_REACHED" -> action \notin DOMAIN bound
            [] handler[h].code = "IDEMPOTENCY_CONFLICT" ->
                 action \in DOMAIN bound /\ bound[action] # handler[h].topic
            [] OTHER -> action \in DOMAIN bound /\ bound[action] = handler[h].topic

(***************************************************************************)
(* A lesson whose generation ended after the room was reset is neither     *)
(* saved nor shown.                                                        *)
(***************************************************************************)
OnlyCurrent ==
  \A h \in Requests : Lesson(h) /\ handler[h].stale =>
    At(h, "generated") \/ (At(h, "replying") /\ handler[h].code # "ok")

\* Facts about the parser alone, looked at once.
LessonsAtStart ==
  probe = 0 /\ epoch = 1 /\ progress = [o \in Owners |-> Out] /\ \A h \in Requests : handler[h] = Idle

(***************************************************************************)
(* Whatever a provider answers, a lesson is made of one text (OneTextOnly).*)
(***************************************************************************)
TextIsOne == LessonsAtStart => OneTextOnly
=============================================================================
