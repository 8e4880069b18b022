---------------------------- MODULE LessonsProofs ----------------------------
(***************************************************************************)
(* Theorems about the credential probe and the lessons, for every number   *)
(* of requests, owners, questions, action ids and resets, and about the    *)
(* parser of the provider's answers, for answers of any length.            *)
(***************************************************************************)
EXTENDS Lessons, FiniteSetTheorems, WellFoundedInduction, TLAPS

AskStates ==
  [stage : {"none", "asking", "waiting", "probing", "told"}, on : Nat,
   verdict : Verdicts \cup {"none", "CANCELLED"}]

\* At most one probe is under way, it belongs to the prober, and what it finds
\* can only be stored while there is no fresh verdict.
ProbeIsAlone ==
  /\ version \in Nat /\ probe \in Nat /\ verdict \in Verdicts
  /\ ask \in [Requests -> AskStates]
  /\ \A r \in Requests : ask[r].stage = "probing" =>
       /\ prober = r /\ ask[r].on <= version
       /\ ask[r].on = version => ~fresh

\* A change of one request that does not begin a probe.
LEMMA AskChanges ==
  ASSUME ProbeIsAlone, NEW h \in Requests, NEW new \in AskStates, new.stage # "probing",
         ask' = [ask EXCEPT ![h] = new], UNCHANGED check
  PROVE  ProbeIsAlone'
  BY DEF ProbeIsAlone, check

LEMMA AskStays ==
  ASSUME ProbeIsAlone, UNCHANGED credentialVars
  PROVE  ProbeIsAlone'
  BY DEF ProbeIsAlone, credentialVars, check

LEMMA DoingType ==
  /\ NotAsking \in AskStates /\ NotAsking.stage = "none"
  /\ Asking \in AskStates /\ Asking.stage = "asking"
  /\ \A on \in Nat : Doing("waiting", on) \in AskStates /\ Doing("waiting", on).stage = "waiting"
  /\ \A v \in Verdicts \cup {"CANCELLED"} : Told(v) \in AskStates /\ Told(v).stage = "told"
  BY DEF NotAsking, Asking, Doing, Told, AskStates

LEMMA ValidateStep ==
  ASSUME ProbeIsAlone, NEW h \in Requests, Validate(h)
  PROVE  ProbeIsAlone' /\ (fresh /\ fresh' => verdict' = verdict)
<1>1. CASE IsFresh(h)
  BY <1>1, AskChanges, DoingType DEF ProbeIsAlone, IsFresh, check
<1>2. CASE WaitForProbe(h)
  BY <1>2, AskChanges, DoingType DEF ProbeIsAlone, WaitForProbe, check
<1>3. CASE StartProbe(h)
  <2>1. \A r \in Requests : ask[r].stage # "probing"
    BY <1>3, CredentialsAssumption DEF ProbeIsAlone, StartProbe
  <2>2. Doing("probing", version) \in AskStates /\ Doing("probing", version).on = version
    BY DEF ProbeIsAlone, Doing, AskStates
  <2>3. QED
    BY <1>3, <2>1, <2>2 DEF ProbeIsAlone, StartProbe
<1>4. CASE Wake(h)
  BY <1>4, AskChanges, DoingType DEF Wake, check
<1>5. CASE StopWaiting(h)
  BY <1>5, AskChanges, DoingType DEF StopWaiting, check
<1>6. ASSUME NEW found \in Verdicts, EndProbe(h, found)
      PROVE  ProbeIsAlone' /\ (fresh /\ fresh' => verdict' = verdict)
  <2>1. \A r \in Requests \ {h} : ask[r].stage # "probing"
    BY <1>6 DEF ProbeIsAlone, EndProbe
  <2>2. verdict' \in Verdicts /\ (fresh /\ fresh' => verdict' = verdict)
    BY <1>6 DEF ProbeIsAlone, EndProbe
  <2>3. Told(verdict') \in AskStates /\ Told(verdict').stage = "told"
    BY <2>2, DoingType
  <2>4. QED
    BY <1>6, <2>1, <2>2, <2>3 DEF ProbeIsAlone, EndProbe
<1>7. QED
  BY <1>1, <1>2, <1>3, <1>4, <1>5, <1>6 DEF Validate, Proceed

LEMMA KeyRefusedStep ==
  ASSUME ProbeIsAlone, RejectCredentials, UNCHANGED ask
  PROVE  ProbeIsAlone' /\ version' > version /\ verdict' = "AI_CREDENTIALS_INVALID"
<1>1. version' = version + 1 /\ verdict' = "AI_CREDENTIALS_INVALID" /\ prober' = prober /\ probe' = probe
  BY DEF RejectCredentials
<1>2. \A r \in Requests : ask[r].stage = "probing" => ask[r].on < version'
  BY <1>1 DEF ProbeIsAlone, AskStates
<1>3. QED
  BY <1>1, <1>2 DEF ProbeIsAlone, Verdicts, AskStates

\* What happens to a fresh verdict in one step.
Stands == fresh /\ fresh' /\ verdict' # verdict =>
            version' > version /\ verdict' = "AI_CREDENTIALS_INVALID"

LEMMA ProbeStep == ProbeIsAlone /\ [Next]_vars => ProbeIsAlone' /\ [Stands]_credentialVars
<1> SUFFICES ASSUME ProbeIsAlone, [Next]_vars
             PROVE  ProbeIsAlone' /\ [Stands]_credentialVars
  OBVIOUS
<1> USE DEF Stands
<1>1. ASSUME UNCHANGED credentialVars PROVE ProbeIsAlone' /\ [Stands]_credentialVars
  BY <1>1, AskStays
<1>2. ASSUME NEW h \in Requests, UNCHANGED check,
             UNCHANGED ask \/ \E new \in {Asking, NotAsking} : ask' = [ask EXCEPT ![h] = new]
      PROVE  ProbeIsAlone' /\ [Stands]_credentialVars
  <2>1. verdict' = verdict
    BY <1>2 DEF check
  <2>2. CASE UNCHANGED ask
    BY <1>2, <2>2, AskStays DEF credentialVars
  <2>3. CASE \E new \in {Asking, NotAsking} : ask' = [ask EXCEPT ![h] = new]
    BY <1>2, <2>1, <2>3, AskChanges, DoingType
  <2>4. QED
    BY <1>2, <2>2, <2>3
<1>3. ASSUME NEW h \in Requests, NEW o \in Owners, NEW topic \in Topics, NEW action \in Actions,
             Ask(h, o, topic, action)
      PROVE  ProbeIsAlone' /\ [Stands]_credentialVars
  BY <1>2, <1>3 DEF Ask
<1>4. ASSUME NEW h \in Requests, Intend(h) \/ AskCapabilities(h) \/ Checked(h)
      PROVE  ProbeIsAlone' /\ [Stands]_credentialVars
  BY <1>2, <1>4 DEF Intend, AskCapabilities, Checked
<1>5. ASSUME NEW h \in Requests, CheckProvider(h)
      PROVE  ProbeIsAlone' /\ [Stands]_credentialVars
  BY <1>5, ValidateStep DEF CheckProvider
<1>6. ASSUME NEW h \in Requests, KeyRefused(h)
      PROVE  ProbeIsAlone' /\ [Stands]_credentialVars
  BY <1>6, KeyRefusedStep DEF KeyRefused
<1>7. ASSUME NEW h \in Requests,
             \/ Look(h) \/ GenerationFails(h) \/ (\E data \in 1..MaxMade : Generate(h, data))
             \/ Reauthorize(h) \/ Save(h) \/ Reread(h) \/ Reply(h)
             \/ AuthorizeReport(h) \/ File(h)
             \/ \E o \in Owners, id \in Ids : ReadToReport(h, o, id)
      PROVE  ProbeIsAlone' /\ [Stands]_credentialVars
  BY <1>1, <1>7 DEF Look, GenerationFails, Generate, Reauthorize, Save, Reread, Reply,
                    AuthorizeReport, File, ReadToReport
<1>8. CASE \/ \E o \in Owners : Play(o) \/ ReportsExpire(o)
           \/ \E id \in Ids : ArtifactExpires(id)
           \/ \E b \in Owners \X (1..MaxEpoch) : IntentsExpire(b)
           \/ ResetQuiz
  BY <1>1, <1>8 DEF Play, ReportsExpire, ArtifactExpires, IntentsExpire, ResetQuiz, Expires
<1>9. CASE VerdictExpires
  BY <1>9 DEF VerdictExpires, ProbeIsAlone
<1>10. CASE UNCHANGED vars
  BY <1>1, <1>10 DEF vars
<1>11. QED
  BY <1>3, <1>4, <1>5, <1>6, <1>7, <1>8, <1>9, <1>10 DEF Next, Serve

(***************************************************************************)
(* A verdict on the provider's key stands until it expires or a generation *)
(* is refused, whatever a probe under way finds later.                     *)
(***************************************************************************)
THEOREM VerdictStands == Spec => FreshVerdictStands
<1>1. Init => ProbeIsAlone
  BY DoingType DEF Init, CredentialsInit, ProbeIsAlone, Verdicts
<1>2. ProbeIsAlone /\ [Next]_vars => ProbeIsAlone' /\ [Stands]_credentialVars
  BY ProbeStep
<1>3. QED
  BY <1>1, <1>2, PTL DEF Spec, FreshVerdictStands, Stands
-----------------------------------------------------------------------------
(* What a handler is *)

LessonStages ==
  {"intending", "checking", "looking", "generating", "generated", "saving", "rereading", "replying"}

Codes ==
  {None, "ok", "failed", "EPOCH_MISMATCH", "ARTIFACT_EXPIRED", "AI_LIMIT_REACHED",
   "IDEMPOTENCY_CONFLICT", "CANCELLED"} \cup Verdicts

LessonHandlers ==
  [stage : LessonStages, owner : Owners, epoch : Nat, topic : Topics, action : Actions,
   code : Codes, data : Nat, born : Nat, bound : Nat, stale : BOOLEAN]
ReportHandlers == [stage : {"authorizing", "filing"}, owner : Owners, id : Ids]
OtherHandlers == [stage : {"idle", "capabilities"}]

LessonsType ==
  /\ epoch \in Nat /\ expiries \in Nat
  /\ progress \in [Owners -> Nat \cup {Out}]
  /\ \A id \in Known : artifacts[id].data \in Nat /\ artifacts[id].born \in Nat
  /\ \A b \in DOMAIN intents : intents[b].born \in Nat
  /\ reports \in [Owners -> SUBSET Ids]
  /\ handler \in [Requests -> LessonHandlers \cup ReportHandlers \cup OtherHandlers]

\* Only a request that is about to need the provider asks for the verdict.
AskersWait == \A h \in Requests : ask[h].stage # "none" => handler[h].stage \in {"capabilities", "checking"}

LEMMA KindOfHandler ==
  ASSUME LessonsType, NEW h \in Requests
  PROVE  /\ Lesson(h) <=> handler[h] \in LessonHandlers
         /\ handler[h].stage \in LessonStages => handler[h] \in LessonHandlers
         /\ handler[h].stage \in {"authorizing", "filing"} => handler[h] \in ReportHandlers
  BY DEF LessonsType, Lesson, LessonHandlers, ReportHandlers, OtherHandlers, LessonStages

\* A step of the handler h: the others stay, and h keeps what it was asked for.
OnlyMoves(h) ==
  /\ handler' \in [Requests -> LessonHandlers \cup ReportHandlers \cup OtherHandlers]
  /\ \A g \in Requests \ {h} : handler'[g] = handler[g]

KeepsOn(h) ==
  /\ OnlyMoves(h) /\ handler[h] \in LessonHandlers /\ handler'[h] \in LessonHandlers
  /\ handler'[h].owner = handler[h].owner /\ handler'[h].epoch = handler[h].epoch
  /\ handler'[h].topic = handler[h].topic /\ handler'[h].action = handler[h].action

LEMMA GoesMoves ==
  ASSUME LessonsType, NEW h \in Requests, handler[h] \in LessonHandlers,
         NEW stage \in LessonStages, Goes(h, stage)
  PROVE  /\ KeepsOn(h) /\ handler'[h].stage = stage /\ handler'[h].code = handler[h].code
         /\ handler'[h].bound = handler[h].bound /\ handler'[h].stale = handler[h].stale
         /\ handler'[h].data = handler[h].data /\ handler'[h].born = handler[h].born
  BY DEF LessonsType, Goes, KeepsOn, OnlyMoves, LessonHandlers, LessonStages

LEMMA RepliesMoves ==
  ASSUME LessonsType, NEW h \in Requests, handler[h] \in LessonHandlers,
         NEW code \in Codes, Replies(h, code)
  PROVE  /\ KeepsOn(h) /\ handler'[h].stage = "replying" /\ handler'[h].code = code
         /\ handler'[h].bound = handler[h].bound /\ handler'[h].stale = handler[h].stale
  BY DEF LessonsType, Replies, KeepsOn, OnlyMoves, LessonHandlers, LessonStages

LEMMA ShownMoves ==
  ASSUME LessonsType, NEW h \in Requests, handler[h] \in LessonHandlers, Id(h) \in Known, Shown(h)
  PROVE  /\ KeepsOn(h) /\ handler'[h].stage = "replying" /\ handler'[h].code = "ok"
         /\ handler'[h].bound = handler[h].bound /\ handler'[h].stale = handler[h].stale
         /\ handler'[h].data = artifacts[Id(h)].data /\ handler'[h].born = artifacts[Id(h)].born
<1> DEFINE data == artifacts[Id(h)].data
           born == artifacts[Id(h)].born
<1>1. data \in Nat /\ born \in Nat
  BY DEF LessonsType
<1>2. handler' = [handler EXCEPT ![h].stage = "replying", ![h].code = "ok", ![h].data = data, ![h].born = born]
  BY DEF Shown
<1> HIDE DEF data, born
<1>3. /\ KeepsOn(h) /\ handler'[h].stage = "replying" /\ handler'[h].code = "ok"
      /\ handler'[h].bound = handler[h].bound /\ handler'[h].stale = handler[h].stale
      /\ handler'[h].data = data /\ handler'[h].born = born
  BY <1>1, <1>2 DEF LessonsType, KeepsOn, OnlyMoves, LessonHandlers, LessonStages, Codes
<1>4. QED
  BY <1>3 DEF data, born
-----------------------------------------------------------------------------
(* The ways in which a handler of a lesson moves after its intent *)

Quietly(h) ==
  /\ KeepsOn(h) /\ handler[h].stage # "intending"
  /\ handler'[h].bound = handler[h].bound /\ handler'[h].stale = handler[h].stale
  /\ handler'[h].code = handler[h].code
  /\ handler[h].stage \in {"checking", "looking", "generated", "saving"}
  /\ handler[h].stage = "generated" => Authorized(handler[h].owner, handler[h].epoch)
  /\ handler'[h].stage \in {"looking", "generating", "saving", "rereading"}

Refuses(h) ==
  /\ KeepsOn(h) /\ handler[h].stage \notin {"intending", "replying"}
  /\ handler'[h].bound = handler[h].bound /\ handler'[h].stale = handler[h].stale
  /\ handler'[h].stage = "replying"
  /\ handler'[h].code \notin {"ok", "AI_LIMIT_REACHED", "IDEMPOTENCY_CONFLICT"}

Shows(h) ==
  /\ KeepsOn(h) /\ handler[h].stage \in {"looking", "rereading"}
  /\ handler'[h].bound = handler[h].bound /\ handler'[h].stale = handler[h].stale
  /\ handler'[h].stage = "replying" /\ handler'[h].code = "ok"
  /\ Id(h) \in Known
  /\ handler'[h].data = artifacts[Id(h)].data /\ handler'[h].born = artifacts[Id(h)].born

Speaks(h) ==
  /\ KeepsOn(h) /\ handler[h].stage = "generated" /\ Spoken(h)
  /\ handler'[h].bound = handler[h].bound /\ handler'[h].stale = handler[h].stale
  /\ Authorized(handler[h].owner, handler[h].epoch)
  /\ handler'[h].stage = "replying" /\ handler'[h].code = "ok"

Generates(h) ==
  /\ KeepsOn(h) /\ handler[h].stage = "generating"
  /\ handler'[h].bound = handler[h].bound /\ handler'[h].code = handler[h].code
  /\ handler'[h].stale = ~Authorized(handler[h].owner, handler[h].epoch)
  /\ handler'[h].stage = "generated"

Ends(h) == OnlyMoves(h) /\ handler'[h] \in OtherHandlers

Moves(h) == Quietly(h) \/ Refuses(h) \/ Shows(h) \/ Speaks(h) \/ Generates(h) \/ Ends(h)

LEMMA EndMoves ==
  ASSUME LessonsType, NEW h \in Requests, handler' = [handler EXCEPT ![h] = Idle]
  PROVE  Ends(h)
  BY DEF LessonsType, Ends, OnlyMoves, Idle, OtherHandlers

LEMMA CheckedMoves ==
  ASSUME LessonsType, AskersWait, ProbeIsAlone, NEW h \in Requests, Checked(h)
  PROVE  Moves(h)
<1>1. handler[h].stage \in {"capabilities", "checking"}
  BY DEF Checked, AskersWait
<1>2. CASE handler[h].stage = "capabilities"
  BY <1>2, EndMoves DEF Checked, At, Moves
<1>3. CASE handler[h].stage = "checking"
  <2>1. handler[h] \in LessonHandlers
    BY <1>3, KindOfHandler DEF LessonStages
  <2>2. CASE ask[h].verdict # "ok"
    <3>1. ask[h].verdict \in Codes \ {"ok", "AI_LIMIT_REACHED", "IDEMPOTENCY_CONFLICT"}
      BY <2>2 DEF ProbeIsAlone, AskStates, Codes, Verdicts, None
    <3>2. Replies(h, ask[h].verdict)
      BY <1>3, <2>2 DEF Checked, At
    <3>3. QED
      BY <1>3, <2>1, <3>1, <3>2, RepliesMoves DEF Moves, Refuses
  <2>3. CASE ask[h].verdict = "ok"
    <3>1. Goes(h, "generating") \/ Goes(h, "looking")
      BY <1>3, <2>3 DEF Checked, At
    <3>2. QED
      BY <1>3, <2>1, <3>1, GoesMoves DEF Moves, Quietly, LessonStages
  <2>4. QED
    BY <2>2, <2>3
<1>4. QED
  BY <1>1, <1>2, <1>3

LEMMA GenerateMoves ==
  ASSUME LessonsType, NEW h \in Requests, NEW data \in 1..MaxMade, Generate(h, data)
  PROVE  Moves(h)
<1> DEFINE stale == ~Authorized(handler[h].owner, handler[h].epoch)
<1>1. handler[h] \in LessonHandlers /\ handler[h].stage = "generating"
  BY KindOfHandler DEF Generate, At, LessonStages
<1>2. data \in Nat /\ stale \in BOOLEAN
  BY LessonsAssumption
<1>3. handler' = [handler EXCEPT ![h].stage = "generated", ![h].data = data, ![h].stale = stale]
  BY DEF Generate
<1> HIDE DEF stale
<1>4. /\ KeepsOn(h) /\ handler'[h].stage = "generated" /\ handler'[h].stale = stale
      /\ handler'[h].bound = handler[h].bound /\ handler'[h].code = handler[h].code
  BY <1>1, <1>2, <1>3 DEF LessonsType, KeepsOn, OnlyMoves, LessonHandlers, LessonStages
<1>5. QED
  BY <1>1, <1>4 DEF Moves, Generates, stale

LEMMA LessonMoves ==
  ASSUME LessonsType, NEW h \in Requests,
         \/ Look(h) \/ GenerationFails(h) \/ KeyRefused(h)
         \/ Reauthorize(h) \/ Save(h) \/ Reread(h) \/ Reply(h)
  PROVE  Moves(h)
<1>1. CASE Look(h)
  <2>1. handler[h] \in LessonHandlers /\ handler[h].stage = "looking"
    BY <1>1, KindOfHandler DEF Look, At, LessonStages
  <2>2. QED
    BY <1>1, <2>1, ShownMoves, GoesMoves DEF Look, Moves, Shows, Quietly, LessonStages
<1>2. CASE GenerationFails(h) \/ KeyRefused(h)
  <2>1. handler[h] \in LessonHandlers /\ handler[h].stage = "generating"
    BY <1>2, KindOfHandler DEF GenerationFails, KeyRefused, At, LessonStages
  <2>2. QED
    BY <1>2, <2>1, RepliesMoves DEF GenerationFails, KeyRefused, Moves, Refuses, Codes, Verdicts
<1>3. CASE Reauthorize(h)
  <2>1. handler[h] \in LessonHandlers /\ handler[h].stage = "generated"
    BY <1>3, KindOfHandler DEF Reauthorize, At, LessonStages
  <2>2. CASE ~Authorized(handler[h].owner, handler[h].epoch)
    BY <1>3, <2>1, <2>2, RepliesMoves DEF Reauthorize, Moves, Refuses, Codes
  <2>3. CASE Authorized(handler[h].owner, handler[h].epoch) /\ Spoken(h)
    BY <1>3, <2>1, <2>3, RepliesMoves DEF Reauthorize, Moves, Speaks, Codes
  <2>4. CASE Authorized(handler[h].owner, handler[h].epoch) /\ ~Spoken(h)
    BY <1>3, <2>1, <2>4, GoesMoves DEF Reauthorize, Moves, Quietly, LessonStages
  <2>5. QED
    BY <2>2, <2>3, <2>4
<1>4. CASE Save(h)
  <2>1. handler[h] \in LessonHandlers /\ handler[h].stage = "saving"
    BY <1>4, KindOfHandler DEF Save, At, LessonStages
  <2>2. QED
    BY <1>4, <2>1, GoesMoves DEF Save, Moves, Quietly, LessonStages
<1>5. CASE Reread(h)
  <2>1. handler[h] \in LessonHandlers /\ handler[h].stage = "rereading"
    BY <1>5, KindOfHandler DEF Reread, At, LessonStages
  <2>2. QED
    BY <1>5, <2>1, ShownMoves, RepliesMoves DEF Reread, Moves, Shows, Refuses, Codes
<1>6. CASE Reply(h)
  BY <1>6, EndMoves DEF Reply, Moves
<1>7. QED
  BY <1>1, <1>2, <1>3, <1>4, <1>5, <1>6
-----------------------------------------------------------------------------
(* Its begin and its intent, and a report *)

Begins(h) ==
  /\ OnlyMoves(h) /\ handler'[h] \in LessonHandlers
  /\ handler'[h].epoch = epoch /\ progress[handler'[h].owner] # Out
  /\ handler'[h].code = None /\ handler'[h].stale = FALSE
  /\ handler'[h].stage = IF handler'[h].topic.kind = "pronunciation" THEN "checking" ELSE "intending"

LEMMA AskMoves ==
  ASSUME LessonsType, NEW h \in Requests, NEW o \in Owners, NEW topic \in Topics,
         NEW action \in Actions, Ask(h, o, topic, action)
  PROVE  Begins(h)
<1> DEFINE new == [stage |-> IF topic.kind = "pronunciation" THEN "checking" ELSE "intending",
                   owner |-> o, epoch |-> epoch, topic |-> topic, action |-> action,
                   code |-> None, data |-> 0, born |-> 0, bound |-> 0, stale |-> FALSE]
<1>1. handler' = [handler EXCEPT ![h] = new]
  BY DEF Ask
<1>2. /\ new \in LessonHandlers
      /\ new.epoch = epoch /\ new.owner = o /\ new.code = None /\ new.stale = FALSE
      /\ new.topic = topic
      /\ new.stage = IF topic.kind = "pronunciation" THEN "checking" ELSE "intending"
  BY DEF LessonsType, LessonHandlers, LessonStages, Codes
<1>3. progress[o] # Out
  BY DEF Ask, Authorized
<1> HIDE DEF new
<1>4. QED
  BY <1>1, <1>2, <1>3 DEF LessonsType, Begins, OnlyMoves

Intends(h) ==
  /\ KeepsOn(h) /\ handler[h].stage = "intending"
  /\ handler'[h].stale = handler[h].stale /\ handler'[h].bound = Opened(h).born
  /\ IF IntentReply(h) = "ok"
     THEN /\ handler'[h].stage = "checking" /\ handler'[h].code = handler[h].code
          /\ intents' = Put(intents, Book(h),
                            [Opened(h) EXCEPT !.bound = Put(@, handler[h].action, handler[h].topic)])
     ELSE /\ handler'[h].stage = "replying" /\ handler'[h].code = IntentReply(h)
          /\ intents' = intents

LEMMA IntendMoves ==
  ASSUME LessonsType, NEW h \in Requests, Intend(h)
  PROVE  Intends(h)
<1> DEFINE born == Opened(h).born
           code == IntentReply(h)
<1>1. handler[h] \in LessonHandlers /\ handler[h].stage = "intending"
  BY KindOfHandler DEF Intend, At, LessonStages
<1>2. born \in Nat
  BY DEF LessonsType, Opened
<1>3. code \in Codes
  BY DEF IntentReply, Codes
<1>4. IF code = "ok" THEN handler' = [handler EXCEPT ![h].stage = "checking", ![h].bound = born]
      ELSE handler' = [handler EXCEPT ![h].stage = "replying", ![h].code = code, ![h].bound = born]
  BY DEF Intend
<1> HIDE DEF born, code
<1>5. /\ KeepsOn(h) /\ handler'[h].stale = handler[h].stale /\ handler'[h].bound = born
      /\ IF code = "ok" THEN handler'[h].stage = "checking" /\ handler'[h].code = handler[h].code
         ELSE handler'[h].stage = "replying" /\ handler'[h].code = code
  BY <1>1, <1>2, <1>3, <1>4 DEF LessonsType, KeepsOn, OnlyMoves, LessonHandlers, LessonStages
<1>6. IF code = "ok"
      THEN intents' = Put(intents, Book(h),
                          [Opened(h) EXCEPT !.bound = Put(@, handler[h].action, handler[h].topic)])
      ELSE intents' = intents
  BY DEF Intend, code
<1>7. QED
  BY <1>1, <1>5, <1>6 DEF Intends, born, code

\* A handler of a report has read an artifact of its owner.
Reports(h) ==
  /\ OnlyMoves(h) /\ handler'[h] \in ReportHandlers
  /\ \/ handler'[h].id.owner = handler'[h].owner
     \/ /\ handler[h] \in ReportHandlers
        /\ handler'[h].id = handler[h].id /\ handler'[h].owner = handler[h].owner

LEMMA ReportMoves ==
  ASSUME LessonsType, NEW h \in Requests,
         AuthorizeReport(h) \/ \E o \in Owners, id \in Ids : ReadToReport(h, o, id)
  PROVE  Reports(h) \/ Ends(h)
<1>1. ASSUME NEW o \in Owners, NEW id \in Ids, ReadToReport(h, o, id)
      PROVE  Reports(h)
  <2> DEFINE new == [stage |-> "authorizing", owner |-> o, id |-> id]
  <2>1. handler' = [handler EXCEPT ![h] = new] /\ id.owner = o
    BY <1>1 DEF ReadToReport
  <2>2. new \in ReportHandlers /\ new.id = id /\ new.owner = o
    BY DEF ReportHandlers
  <2> HIDE DEF new
  <2>3. QED
    BY <2>1, <2>2 DEF LessonsType, Reports, OnlyMoves
<1>2. CASE AuthorizeReport(h) /\ handler' = [handler EXCEPT ![h] = Idle]
  BY <1>2, EndMoves
<1>3. CASE AuthorizeReport(h) /\ Goes(h, "filing")
  <2>1. handler[h] \in ReportHandlers
    BY <1>3, KindOfHandler DEF AuthorizeReport, At
  <2>2. QED
    BY <1>3, <2>1 DEF LessonsType, Goes, Reports, OnlyMoves, ReportHandlers
<1>4. QED
  BY <1>1, <1>2, <1>3 DEF AuthorizeReport
-----------------------------------------------------------------------------
(* Every step is one of these *)

Kept == <<artifacts, intents, reports, expiries>>

QuizGoes ==
  /\ UNCHANGED <<handler, Kept>>
  /\ \/ UNCHANGED quiz
     \/ epoch' = epoch /\ \E o \in Owners : progress' = [progress EXCEPT ![o] = @ + 1]
     \/ epoch' = epoch + 1 /\ progress' = [o \in Owners |-> Out]

KeyExpires ==
  /\ UNCHANGED <<handler, quiz>>
  /\ expiries' = expiries + 1
  /\ \/ UNCHANGED <<artifacts, intents>> /\ \E o \in Owners : reports' = [reports EXCEPT ![o] = {}]
     \/ UNCHANGED <<artifacts, reports>> /\ \E b \in DOMAIN intents : intents' = Drop(intents, b)
     \/ UNCHANGED <<intents, reports>> /\ \E id \in Known : artifacts' = Drop(artifacts, id)

Saves(h) ==
  /\ Quietly(h) /\ Id(h) \notin Known
  /\ artifacts' = Put(artifacts, Id(h), [data |-> handler[h].data, born |-> expiries])

Files(h) ==
  /\ Ends(h) /\ handler[h] \in ReportHandlers
  /\ reports' = [reports EXCEPT ![handler[h].owner] = @ \cup {handler[h].id}]

Kinds ==
  \/ QuizGoes \/ KeyExpires
  \/ \E h \in Requests :
       \/ (Begins(h) \/ Moves(h) \/ Reports(h)) /\ UNCHANGED <<quiz, Kept>>
       \/ Intends(h) /\ UNCHANGED <<quiz, artifacts, reports, expiries>>
       \/ Saves(h) /\ UNCHANGED <<quiz, intents, reports, expiries>>
       \/ Files(h) /\ UNCHANGED <<quiz, artifacts, intents, expiries>>

LEMMA SaveMoves ==
  ASSUME LessonsType, NEW h \in Requests, Save(h)
  PROVE  Kinds
<1>1. handler[h] \in LessonHandlers /\ handler[h].stage = "saving"
  BY KindOfHandler DEF Save, At, LessonStages
<1>2. Quietly(h)
  BY <1>1, GoesMoves DEF Save, Quietly, LessonStages
<1>3. CASE Id(h) \in Known
  BY <1>2, <1>3 DEF Save, Moves, Kinds, Kept, quiz, saved
<1>4. CASE Id(h) \notin Known
  BY <1>2, <1>4 DEF Save, Saves, Kinds, quiz
<1>5. QED
  BY <1>3, <1>4

LEMMA FileMoves ==
  ASSUME LessonsType, NEW h \in Requests, File(h)
  PROVE  Kinds
<1>1. handler[h] \in ReportHandlers
  BY KindOfHandler DEF File, At
<1>2. Ends(h)
  BY EndMoves DEF File
<1>3. CASE UNCHANGED reports
  BY <1>2, <1>3 DEF File, Moves, Kinds, Kept, quiz
<1>4. CASE reports' = [reports EXCEPT ![handler[h].owner] = @ \cup {handler[h].id}]
  BY <1>1, <1>2, <1>4 DEF File, Files, Kinds, quiz
<1>5. QED
  BY <1>3, <1>4 DEF File

LEMMA StepKinds ==
  ASSUME LessonsType, AskersWait, ProbeIsAlone, [Next]_vars
  PROVE  Kinds
<1>1. ASSUME NEW h \in Requests, NEW o \in Owners, NEW topic \in Topics, NEW action \in Actions,
             Ask(h, o, topic, action)
      PROVE  Kinds
  BY <1>1, AskMoves DEF Ask, Kinds, Kept, quiz, saved
<1>2. ASSUME NEW h \in Requests, AuthorizeReport(h) \/ \E o \in Owners, id \in Ids : ReadToReport(h, o, id)
      PROVE  Kinds
  BY <1>2, ReportMoves DEF AuthorizeReport, ReadToReport, Kinds, Kept, Moves, quiz, saved
<1>3. ASSUME NEW h \in Requests, AskCapabilities(h)
      PROVE  Kinds
  <2>1. OnlyMoves(h) /\ handler'[h] \in OtherHandlers
    BY <1>3 DEF AskCapabilities, LessonsType, At, OnlyMoves, OtherHandlers, LessonHandlers,
                ReportHandlers, LessonStages
  <2>2. QED
    BY <1>3, <2>1 DEF AskCapabilities, Kinds, Kept, Moves, Ends, quiz, saved
<1>4. ASSUME NEW h \in Requests, Intend(h)
      PROVE  Kinds
  BY <1>4, IntendMoves DEF Intend, Kinds, quiz
<1>5. ASSUME NEW h \in Requests, Checked(h)
      PROVE  Kinds
  BY <1>5, CheckedMoves DEF Checked, Kinds, Kept, quiz, saved
<1>6. ASSUME NEW h \in Requests, NEW data \in 1..MaxMade, Generate(h, data)
      PROVE  Kinds
  BY <1>6, GenerateMoves DEF Generate, Kinds, Kept, quiz, saved
<1>7. ASSUME NEW h \in Requests,
             \/ Look(h) \/ GenerationFails(h) \/ KeyRefused(h)
             \/ Reauthorize(h) \/ Reread(h) \/ Reply(h)
      PROVE  Kinds
  BY <1>7, LessonMoves DEF Look, GenerationFails, KeyRefused, Reauthorize, Reread, Reply,
                           Kinds, Kept, quiz, saved
<1>8. ASSUME NEW h \in Requests, CheckProvider(h)
      PROVE  Kinds
  BY <1>8 DEF CheckProvider, Kinds, Kept, QuizGoes, quiz, saved
<1>9. CASE \/ \E o \in Owners : Play(o)
           \/ ResetQuiz
           \/ VerdictExpires /\ UNCHANGED <<quiz, saved, made, handler>>
           \/ UNCHANGED vars
  BY <1>9 DEF Play, ResetQuiz, VerdictExpires, vars, Kinds, Kept, QuizGoes, quiz, saved
<1>10. CASE \/ \E o \in Owners : ReportsExpire(o)
            \/ \E id \in Ids : ArtifactExpires(id)
            \/ \E b \in Owners \X (1..MaxEpoch) : IntentsExpire(b)
  BY <1>10 DEF ReportsExpire, ArtifactExpires, IntentsExpire, Expires, Kinds, KeyExpires, quiz
<1>11. ASSUME NEW h \in Requests, Serve(h)
       PROVE  Kinds
  BY <1>2, <1>4, <1>5, <1>6, <1>7, <1>8, <1>11, SaveMoves, FileMoves DEF Serve
<1>12. CASE \E h \in Requests :
             \/ AskCapabilities(h) \/ Serve(h)
             \/ \E o \in Owners, topic \in Topics, action \in Actions : Ask(h, o, topic, action)
             \/ \E o \in Owners, id \in Ids : ReadToReport(h, o, id)
  BY <1>1, <1>2, <1>3, <1>11, <1>12
<1>13. QED
  BY <1>9, <1>10, <1>12 DEF Next
-----------------------------------------------------------------------------
(* The types *)

LEMMA TypesStay ==
  ASSUME LessonsType, Kinds
  PROVE  LessonsType'
<1> DEFINE HandlerType == handler \in [Requests -> LessonHandlers \cup ReportHandlers \cup OtherHandlers]
           StoredType == /\ expiries \in Nat
                         /\ \A id \in Known : artifacts[id].data \in Nat /\ artifacts[id].born \in Nat
                         /\ \A b \in DOMAIN intents : intents[b].born \in Nat
                         /\ reports \in [Owners -> SUBSET Ids]
           QuizType == epoch \in Nat /\ progress \in [Owners -> Nat \cup {Out}]
<1>1. HandlerType'
  BY DEF LessonsType, Kinds, QuizGoes, KeyExpires, Begins, Moves, Reports, Intends, Saves, Files,
         Quietly, Refuses, Shows, Speaks, Generates, Ends, KeepsOn, OnlyMoves
<1>2. QuizType'
  <2>1. CASE \E o \in Owners : epoch' = epoch /\ progress' = [progress EXCEPT ![o] = @ + 1]
    BY <2>1 DEF LessonsType, Out
  <2>2. CASE epoch' = epoch + 1 /\ progress' = [o \in Owners |-> Out]
    BY <2>2 DEF LessonsType
  <2>3. CASE UNCHANGED quiz
    BY <2>3 DEF LessonsType, quiz
  <2>4. QuizGoes \/ UNCHANGED quiz
    BY DEF Kinds, KeyExpires
  <2>5. QED
    BY <2>1, <2>2, <2>3, <2>4 DEF QuizGoes
<1>3. StoredType'
  <2>1. CASE UNCHANGED Kept
    BY <2>1 DEF LessonsType, Kept, Known
  <2>2. CASE KeyExpires
    <3>1. expiries' \in Nat
      BY <2>2 DEF LessonsType, KeyExpires
    <3>2. ASSUME NEW id \in Known' PROVE id \in Known /\ artifacts'[id] = artifacts[id]
      BY <2>2, <3>2 DEF KeyExpires, Drop, Known
    <3>3. ASSUME NEW b \in DOMAIN intents' PROVE b \in DOMAIN intents /\ intents'[b] = intents[b]
      BY <2>2, <3>3 DEF KeyExpires, Drop
    <3>4. reports' \in [Owners -> SUBSET Ids]
      BY <2>2 DEF LessonsType, KeyExpires
    <3>5. QED
      BY <3>1, <3>2, <3>3, <3>4 DEF LessonsType
  <2>3. ASSUME NEW h \in Requests, Intends(h), UNCHANGED <<artifacts, reports, expiries>>
        PROVE  StoredType'
    <3>1. CASE intents' = intents
      BY <2>3, <3>1 DEF LessonsType, Known
    <3>2. ASSUME intents' = Put(intents, Book(h),
                   [Opened(h) EXCEPT !.bound = Put(@, handler[h].action, handler[h].topic)])
          PROVE  StoredType'
      <4> DEFINE opened == [Opened(h) EXCEPT !.bound = Put(@, handler[h].action, handler[h].topic)]
      <4>1. opened.born \in Nat
        BY DEF LessonsType, Opened
      <4> HIDE DEF opened
      <4>2. QED
        BY <2>3, <3>2, <4>1 DEF LessonsType, Put, Known, opened
    <3>3. QED
      BY <2>3, <3>1, <3>2 DEF Intends
  <2>4. ASSUME NEW h \in Requests, Saves(h), UNCHANGED <<intents, reports, expiries>>
        PROVE  StoredType'
    <3>1. handler[h].data \in Nat
      BY <2>4 DEF Saves, Quietly, KeepsOn, LessonHandlers
    <3>2. QED
      BY <2>4, <3>1 DEF LessonsType, Saves, Put, Known
  <2>5. ASSUME NEW h \in Requests, Files(h), UNCHANGED <<artifacts, intents, expiries>>
        PROVE  StoredType'
    BY <2>5 DEF LessonsType, Files, Known, ReportHandlers
  <2>6. QED
    BY <2>1, <2>2, <2>3, <2>4, <2>5 DEF Kinds, QuizGoes, Kept
<1>4. QED
  BY <1>1, <1>2, <1>3 DEF LessonsType

\* A request outside the check of the key moves.
LEMMA AskersStay ==
  ASSUME AskersWait, UNCHANGED ask, NEW h \in Requests,
         handler[h].stage \notin {"capabilities", "checking"},
         \A g \in Requests \ {h} : handler'[g] = handler[g]
  PROVE  AskersWait'
  BY DEF AskersWait

LEMMA AskersStep ==
  ASSUME LessonsType, AskersWait, ProbeIsAlone, [Next]_vars
  PROVE  AskersWait'
<1> USE DEF LessonsType
<1>1. ASSUME UNCHANGED <<ask, handler>> PROVE AskersWait'
  BY <1>1 DEF AskersWait
<1>2. ASSUME NEW h \in Requests, CheckProvider(h)
      PROVE  AskersWait'
  BY <1>2 DEF CheckProvider, Validate, Proceed, IsFresh, WaitForProbe, StartProbe, Wake, StopWaiting,
              EndProbe, AskersWait, ProbeIsAlone
<1>3. ASSUME NEW h \in Requests, NEW o \in Owners, NEW topic \in Topics, NEW action \in Actions,
             Ask(h, o, topic, action)
      PROVE  AskersWait'
  BY <1>3 DEF Ask, At, AskersWait, ProbeIsAlone
<1>4. ASSUME NEW h \in Requests, AskCapabilities(h) \/ Intend(h) \/ Checked(h)
      PROVE  AskersWait'
  <2>1. ask' = ask \/ ask' = [ask EXCEPT ![h] = Asking] \/ ask' = [ask EXCEPT ![h] = NotAsking]
    BY <1>4 DEF AskCapabilities, Intend, Checked
  <2>2. \A g \in Requests \ {h} : handler'[g] = handler[g]
    BY <1>4 DEF AskCapabilities, Intend, Checked, Replies, Goes
  <2>3. ask'[h].stage # "none" => handler'[h].stage \in {"capabilities", "checking"}
    <3>1. CASE AskCapabilities(h)
      BY <3>1 DEF AskCapabilities
    <3>2. CASE Intend(h)
      <4>1. handler[h].stage = "intending" /\ ask[h].stage = "none"
        BY <3>2 DEF Intend, At, AskersWait
      <4>2. CASE IntentReply(h) = "ok"
        BY <3>2, <4>2, IntendMoves DEF Intends
      <4>3. CASE IntentReply(h) # "ok"
        BY <3>2, <4>1, <4>3 DEF Intend
      <4>4. QED
        BY <4>2, <4>3
    <3>3. CASE Checked(h)
      BY <3>3, DoingType DEF Checked, ProbeIsAlone
    <3>4. QED
      BY <1>4, <3>1, <3>2, <3>3
  <2>4. \A g \in Requests \ {h} : ask'[g] = ask[g]
    BY <2>1 DEF ProbeIsAlone
  <2>5. QED
    BY <2>2, <2>3, <2>4 DEF AskersWait
<1>5. ASSUME NEW h \in Requests,
             \/ Look(h) \/ GenerationFails(h) \/ KeyRefused(h) \/ (\E data \in 1..MaxMade : Generate(h, data))
             \/ Reauthorize(h) \/ Save(h) \/ Reread(h) \/ Reply(h) \/ AuthorizeReport(h) \/ File(h)
             \/ \E o \in Owners, id \in Ids : ReadToReport(h, o, id)
      PROVE  AskersWait'
  <2>1. UNCHANGED ask /\ handler[h].stage \notin {"capabilities", "checking"}
    BY <1>5 DEF Look, GenerationFails, KeyRefused, Generate, Reauthorize, Save, Reread, Reply,
                AuthorizeReport, File, ReadToReport, At, credentialVars
  <2>2. \A g \in Requests \ {h} : handler'[g] = handler[g]
    BY <1>5 DEF Look, GenerationFails, KeyRefused, Generate, Reauthorize, Save, Reread, Reply,
                AuthorizeReport, File, ReadToReport, Shown, Goes, Replies
  <2>3. QED
    BY <2>1, <2>2, AskersStay
<1>6. CASE \/ \E o \in Owners : Play(o) \/ ReportsExpire(o)
           \/ \E id \in Ids : ArtifactExpires(id)
           \/ \E b \in Owners \X (1..MaxEpoch) : IntentsExpire(b)
           \/ ResetQuiz
           \/ VerdictExpires /\ UNCHANGED <<quiz, saved, made, handler>>
           \/ UNCHANGED vars
  BY <1>1, <1>6 DEF Play, ReportsExpire, ArtifactExpires, IntentsExpire, ResetQuiz, Expires,
                    VerdictExpires, vars, credentialVars
<1>7. QED
  BY <1>2, <1>3, <1>4, <1>5, <1>6 DEF Next, Serve
-----------------------------------------------------------------------------
(* Only current lessons *)

\* A lesson belongs to an epoch the quiz has reached, and one that is known to
\* be stale to an epoch that is over.
OwnLessons ==
  \A h \in Requests : handler[h] \in LessonHandlers =>
    /\ handler[h].epoch <= epoch
    /\ handler[h].epoch = epoch => progress[handler[h].owner] # Out
    /\ handler[h].stale => handler[h].epoch < epoch
    /\ handler[h].stale => handler[h].stage = "generated" \/ (handler[h].stage = "replying" /\ handler[h].code # "ok")

LEMMA HandlersDiffer ==
  \A r : ~(r \in LessonHandlers /\ r \in ReportHandlers) /\ ~(r \in LessonHandlers /\ r \in OtherHandlers)
         /\ ~(r \in ReportHandlers /\ r \in OtherHandlers)
  BY DEF LessonHandlers, ReportHandlers, OtherHandlers, LessonStages

\* A handler that moves without a change of the quiz keeps what makes it current.
LEMMA MovesStayCurrent ==
  ASSUME LessonsType, OwnLessons, NEW h \in Requests, Moves(h) \/ Intends(h), UNCHANGED quiz
  PROVE  OwnLessons'
<1>1. /\ UNCHANGED <<epoch, progress>>
      /\ \A g \in Requests \ {h} : handler'[g] = handler[g]
  BY DEF quiz, Moves, Quietly, Refuses, Shows, Speaks, Generates, Ends, Intends, KeepsOn, OnlyMoves
<1>2. CASE Ends(h)
  BY <1>1, <1>2, HandlersDiffer DEF OwnLessons, Ends
<1>3. CASE Generates(h)
  BY <1>1, <1>3 DEF OwnLessons, Generates, KeepsOn, Authorized, LessonsType, LessonHandlers
<1>4. CASE Quietly(h) \/ Speaks(h)
  BY <1>1, <1>4 DEF OwnLessons, Quietly, Speaks, KeepsOn, Authorized, LessonsType, LessonHandlers
<1>5. CASE Shows(h) \/ Refuses(h)
  BY <1>1, <1>5 DEF OwnLessons, Shows, Refuses, KeepsOn
<1>6. CASE Intends(h)
  BY <1>1, <1>6 DEF OwnLessons, Intends, KeepsOn
<1>7. QED
  BY <1>2, <1>3, <1>4, <1>5, <1>6 DEF Moves

LEMMA CurrentStep ==
  ASSUME LessonsType, OwnLessons, Kinds
  PROVE  OwnLessons'
<1>1. CASE QuizGoes
  <2>1. CASE \E o \in Owners : epoch' = epoch /\ progress' = [progress EXCEPT ![o] = @ + 1]
    BY <1>1, <2>1 DEF QuizGoes, OwnLessons, LessonsType, LessonHandlers, Out
  <2>2. CASE epoch' = epoch + 1
    BY <1>1, <2>2 DEF QuizGoes, OwnLessons, LessonsType, LessonHandlers
  <2>3. CASE UNCHANGED quiz
    BY <1>1, <2>3 DEF QuizGoes, OwnLessons, quiz
  <2>4. QED
    BY <1>1, <2>1, <2>2, <2>3 DEF QuizGoes
<1>2. CASE KeyExpires
  BY <1>2 DEF KeyExpires, OwnLessons, quiz
<1>3. ASSUME NEW h \in Requests, Begins(h), UNCHANGED quiz
      PROVE  OwnLessons'
  BY <1>3 DEF Begins, OnlyMoves, OwnLessons, quiz, LessonsType
<1>4. ASSUME NEW h \in Requests, Reports(h) \/ Files(h), UNCHANGED quiz
      PROVE  OwnLessons'
  BY <1>4, HandlersDiffer DEF Reports, Files, Ends, OnlyMoves, OwnLessons, quiz
<1>5. QED
  BY <1>1, <1>2, <1>3, <1>4, MovesStayCurrent DEF Kinds, Saves, Moves

LessonsInv == ProbeIsAlone /\ LessonsType /\ AskersWait /\ OwnLessons

LEMMA LessonsInvStart == Init => LessonsInv
<1> SUFFICES ASSUME Init PROVE LessonsInv
  OBVIOUS
<1>1. ProbeIsAlone
  BY DoingType DEF Init, CredentialsInit, ProbeIsAlone, Verdicts
<1>2. \A h \in Requests : handler[h] = Idle /\ ask[h] = NotAsking
  BY DEF Init, CredentialsInit
<1>3. Idle \in OtherHandlers
  BY DEF Idle, OtherHandlers
<1>4. DOMAIN artifacts = {} /\ DOMAIN intents = {}
  BY DEF Init
<1>5. LessonsType
  BY <1>3, <1>4 DEF Init, LessonsType, Known
<1>6. AskersWait
  BY <1>2, DoingType DEF AskersWait
<1>7. OwnLessons
  BY <1>2, <1>3, HandlersDiffer DEF Init, OwnLessons
<1>8. QED
  BY <1>1, <1>5, <1>6, <1>7 DEF LessonsInv

LEMMA LessonsInvStep == LessonsInv /\ [Next]_vars => LessonsInv' /\ Kinds
  BY ProbeStep, StepKinds, TypesStay, AskersStep, CurrentStep DEF LessonsInv

(***************************************************************************)
(* A generation that ends after the room was reset is neither saved nor    *)
(* shown, for every number of tabs, resets and lessons.                    *)
(***************************************************************************)
THEOREM NeverOutdated == Spec => []OnlyCurrent
<1>1. LessonsInv => OnlyCurrent
  BY KindOfHandler DEF LessonsInv, OwnLessons, OnlyCurrent, At
<1>2. QED
  BY <1>1, LessonsInvStart, LessonsInvStep, PTL DEF Spec
-----------------------------------------------------------------------------
(* One request per action id *)

Booked(h) == handler[h] \in LessonHandlers /\ ~Spoken(h) /\ handler[h].stage # "intending"
Refusals == {"AI_LIMIT_REACHED", "IDEMPOTENCY_CONFLICT"}

\* What the book says while it is the one the handler h was told of.
Named(h) ==
  LET bound == intents[Book(h)].bound
      action == handler[h].action
  IN CASE handler[h].code = "AI_LIMIT_REACHED" ->
            action \notin DOMAIN bound /\ Cardinality(DOMAIN bound) >= MaxIntents
       [] handler[h].code = "IDEMPOTENCY_CONFLICT" ->
            action \in DOMAIN bound /\ bound[action] # handler[h].topic
       [] OTHER -> action \in DOMAIN bound /\ bound[action] = handler[h].topic

\* Books get older: one that was opened after an expiry is another.
BookRight(h) ==
  /\ Booked(h) =>
       /\ handler[h].bound <= expiries
       /\ Book(h) \notin DOMAIN intents => handler[h].bound < expiries
       /\ (Book(h) \in DOMAIN intents /\ intents[Book(h)].born = handler[h].bound) => Named(h)
  /\ handler[h] \in LessonHandlers /\ handler[h].code \in Refusals => handler[h].stage = "replying"

BooksAge ==
  /\ \A b \in DOMAIN intents : intents[b].born <= expiries
  /\ \A h \in Requests : BookRight(h)

LEMMA OthersBooks ==
  ASSUME NEW h \in Requests, BookRight(h), handler'[h] = handler[h], UNCHANGED <<intents, expiries>>
  PROVE  BookRight(h)'
  BY DEF BookRight, Booked, Spoken, Book, Named

LEMMA BookedMoves ==
  ASSUME LessonsType, NEW h \in Requests, BookRight(h), Moves(h), UNCHANGED <<intents, expiries>>
  PROVE  BookRight(h)'
<1>1. CASE Ends(h)
  BY <1>1, HandlersDiffer DEF Ends, BookRight, Booked
<1>2. CASE ~Ends(h)
  <2>1. /\ KeepsOn(h) /\ handler[h].stage \notin {"intending", "replying"}
        /\ handler'[h].bound = handler[h].bound
        /\ handler'[h].code = handler[h].code \/ (handler'[h].stage = "replying" /\ handler'[h].code \notin Refusals)
    BY <1>2 DEF Moves, Quietly, Refuses, Shows, Speaks, Generates, Refusals
  <2>2. handler[h].code \notin Refusals /\ handler'[h].code \notin Refusals
    BY <2>1 DEF BookRight, KeepsOn
  <2>3. Booked(h)' => Booked(h)
    BY <2>1 DEF KeepsOn, Booked, Spoken
  <2>4. Book(h)' = Book(h)
    BY <2>1 DEF KeepsOn, Book
  <2>5. Named(h) => Named(h)'
    BY <2>1, <2>2, <2>4 DEF Named, KeepsOn, Refusals
  <2>6. QED
    BY <2>1, <2>2, <2>3, <2>4, <2>5 DEF BookRight
<1>3. QED
  BY <1>1, <1>2

\* Only the mover writes into a book, and no more than the limit allows.
LEMMA IntentBooks ==
  ASSUME LessonsType, BooksAge, NEW h \in Requests, Intends(h), UNCHANGED expiries
  PROVE  BooksAge'
<1> DEFINE b == Book(h)
           bound == Opened(h).bound
           action == handler[h].action
           topic == handler[h].topic
<1>1. \A g \in Requests \ {h} : handler'[g] = handler[g]
  BY DEF Intends, KeepsOn, OnlyMoves
<1>2. Opened(h).born \in Nat /\ Opened(h).born <= expiries
  BY DEF Opened, LessonsType, BooksAge
<1>3. Book(h)' = b
  BY DEF Intends, KeepsOn, Book
<1>4. ASSUME IntentReply(h) = "ok"
      PROVE  BooksAge'
  <2> DEFINE new == Put(bound, action, topic)
  <2>1. intents' = Put(intents, b, [Opened(h) EXCEPT !.bound = new])
    BY <1>4 DEF Intends
  <2>2. [Opened(h) EXCEPT !.bound = new].born = Opened(h).born /\ [Opened(h) EXCEPT !.bound = new].bound = new
    BY DEF Opened
  <2>3. /\ DOMAIN intents' = DOMAIN intents \cup {b}
        /\ \A k \in DOMAIN intents \ {b} : intents'[k] = intents[k]
        /\ intents'[b].born = Opened(h).born /\ intents'[b].bound = new
    BY <2>1, <2>2 DEF Put
  <2>4. /\ action \in DOMAIN new /\ new[action] = topic
        /\ \A a \in DOMAIN bound : a \in DOMAIN new /\ new[a] = bound[a]
        /\ Cardinality(DOMAIN bound) >= MaxIntents => DOMAIN new = DOMAIN bound
        /\ \A a \in DOMAIN new \ {action} : a \in DOMAIN bound
    BY <1>4 DEF IntentReply, Put
  <2>5. BookRight(h)'
    <3>1. handler'[h].stage = "checking" /\ handler'[h].code \notin Refusals
      BY <1>4 DEF Intends, BooksAge, BookRight, KeepsOn
    <3>2. handler'[h].bound = Opened(h).born /\ handler'[h].action = action /\ handler'[h].topic = topic
      BY DEF Intends, KeepsOn
    <3>3. Named(h)'
      BY <1>3, <2>3, <2>4, <3>1, <3>2 DEF Named, Refusals
    <3>4. QED
      BY <1>2, <1>3, <2>3, <3>1, <3>2, <3>3 DEF BookRight
  <2>6. ASSUME NEW g \in Requests \ {h} PROVE BookRight(g)'
    <3>1. /\ handler'[g] = handler[g] /\ BookRight(g)
          /\ Book(g)' = Book(g) /\ Booked(g)' = Booked(g)
      BY <1>1 DEF BooksAge, Book, Booked, Spoken
    <3>2. CASE Book(g) # b
      <4>1. Book(g) \in DOMAIN intents' <=> Book(g) \in DOMAIN intents
        BY <2>3, <3>2
      <4>2. Book(g) \in DOMAIN intents => intents'[Book(g)] = intents[Book(g)]
        BY <2>3, <3>2
      <4>3. QED
        BY <3>1, <4>1, <4>2 DEF BookRight, Named
    <3>3. CASE Book(g) = b /\ b \notin DOMAIN intents
      <4>1. Opened(h).born = expiries
        BY <3>3 DEF Opened
      <4>2. QED
        BY <2>3, <3>1, <3>3, <4>1 DEF BookRight, BooksAge, LessonsType, Booked, LessonHandlers
    <3>4. CASE Book(g) = b /\ b \in DOMAIN intents
      <4>1. Opened(h) = intents[b]
        BY <3>4 DEF Opened
      <4>2. Named(g) => Named(g)'
        BY <2>3, <2>4, <3>1, <3>4, <4>1 DEF Named
      <4>3. QED
        BY <2>3, <3>1, <3>4, <4>1, <4>2 DEF BookRight
    <3>5. QED
      BY <3>2, <3>3, <3>4
  <2>7. \A k \in DOMAIN intents' : intents'[k].born <= expiries'
    BY <1>2, <2>3 DEF BooksAge
  <2>8. QED
    BY <2>5, <2>6, <2>7 DEF BooksAge
<1>5. ASSUME IntentReply(h) # "ok"
      PROVE  BooksAge'
  <2>1. /\ intents' = intents /\ handler'[h].stage = "replying" /\ handler'[h].code = IntentReply(h)
        /\ handler'[h].bound = Opened(h).born /\ handler'[h].action = action /\ handler'[h].topic = topic
    BY <1>5 DEF Intends, KeepsOn
  <2>2. b \in DOMAIN intents
    <3>1. SUFFICES ASSUME b \notin DOMAIN intents PROVE FALSE
      OBVIOUS
    <3>2. DOMAIN bound = {}
      BY <3>1 DEF Opened
    <3>3. Cardinality(DOMAIN bound) = 0
      BY <3>2, FS_EmptySet
    <3>4. QED
      BY <1>5, <3>2, <3>3, LessonsAssumption DEF IntentReply
  <2>3. Opened(h) = intents[b]
    BY <2>2 DEF Opened
  <2>4. Named(h)'
    BY <1>3, <1>5, <2>1, <2>3 DEF Named, IntentReply
  <2>5. BookRight(h)'
    BY <1>2, <1>3, <2>1, <2>2, <2>4 DEF BookRight
  <2>6. QED
    BY <1>1, <2>1, <2>5, OthersBooks DEF BooksAge
<1>6. QED
  BY <1>4, <1>5

LEMMA BooksStep ==
  ASSUME LessonsType, BooksAge, Kinds
  PROVE  BooksAge'
<1>1. ASSUME UNCHANGED <<intents, expiries>>, NEW h \in Requests, BookRight(h)',
             \A g \in Requests \ {h} : handler'[g] = handler[g]
      PROVE  BooksAge'
  BY <1>1, OthersBooks DEF BooksAge
<1>2. CASE QuizGoes
  BY <1>2, OthersBooks DEF QuizGoes, Kept, BooksAge
<1>3. CASE KeyExpires
  <2>1. expiries' = expiries + 1 /\ UNCHANGED handler
    BY <1>3 DEF KeyExpires
  <2>2. \A b \in DOMAIN intents' : b \in DOMAIN intents /\ intents'[b] = intents[b]
    BY <1>3 DEF KeyExpires, Drop
  <2>3. ASSUME NEW h \in Requests PROVE BookRight(h)'
    <3>1. /\ Booked(h)' = Booked(h) /\ Book(h)' = Book(h) /\ BookRight(h)
          /\ Booked(h) => handler[h].bound \in Nat
      BY <2>1 DEF Booked, Spoken, Book, BooksAge, LessonHandlers
    <3>2. Book(h) \in DOMAIN intents' => Named(h)' = Named(h)
      BY <2>1, <2>2, <3>1 DEF Named
    <3>3. QED
      BY <2>1, <2>2, <3>1, <3>2 DEF BookRight, LessonsType
  <2>4. QED
    BY <2>1, <2>2, <2>3 DEF BooksAge, LessonsType
<1>4. ASSUME NEW h \in Requests, Begins(h), UNCHANGED Kept
      PROVE  BooksAge'
  <2>1. ~Booked(h)' /\ handler'[h].code \notin Refusals
    BY <1>4 DEF Begins, Booked, Spoken, Refusals, None
  <2>2. QED
    BY <1>1, <1>4, <2>1 DEF Begins, OnlyMoves, Kept, BookRight
<1>5. ASSUME NEW h \in Requests, Moves(h) \/ Saves(h), UNCHANGED <<intents, expiries>>
      PROVE  BooksAge'
  <2>1. Moves(h)
    BY <1>5 DEF Saves, Moves
  <2>2. \A g \in Requests \ {h} : handler'[g] = handler[g]
    BY <2>1 DEF Moves, Quietly, Refuses, Shows, Speaks, Generates, Ends, KeepsOn, OnlyMoves
  <2>3. QED
    BY <1>1, <1>5, <2>1, <2>2, BookedMoves DEF BooksAge
<1>6. ASSUME NEW h \in Requests, Reports(h) \/ Files(h), UNCHANGED <<intents, expiries>>
      PROVE  BooksAge'
  <2>1. handler'[h] \notin LessonHandlers
    BY <1>6, HandlersDiffer DEF Reports, Files, Ends
  <2>2. QED
    BY <1>1, <1>6, <2>1 DEF Reports, Files, Ends, OnlyMoves, BookRight, Booked
<1>7. QED
  BY <1>2, <1>3, <1>4, <1>5, <1>6, IntentBooks DEF Kinds, Kept

(***************************************************************************)
(* As long as the book of an owner and epoch lives, an action id stands    *)
(* for one request, for every number of tabs and any limit.                *)
(***************************************************************************)
THEOREM ActionsNameRequests == Spec => []IntentNamesOneRequest
<1>1. Init => BooksAge
  BY DEF Init, BooksAge, BookRight, Booked, LessonHandlers, Idle
<1>2. LessonsInv /\ BooksAge /\ [Next]_vars => BooksAge'
  BY LessonsInvStep, BooksStep DEF LessonsInv
<1>3. LessonsInv /\ BooksAge => IntentNamesOneRequest
  <2> SUFFICES ASSUME LessonsInv, BooksAge, NEW h \in Requests, Lesson(h), ~Spoken(h), ~At(h, "intending"),
                      Book(h) \in DOMAIN intents, intents[Book(h)].born = handler[h].bound
               PROVE  LET bound == intents[Book(h)].bound
                          action == handler[h].action
                      IN CASE handler[h].code = "AI_LIMIT_REACHED" -> action \notin DOMAIN bound
                           [] handler[h].code = "IDEMPOTENCY_CONFLICT" ->
                                action \in DOMAIN bound /\ bound[action] # handler[h].topic
                           [] OTHER -> action \in DOMAIN bound /\ bound[action] = handler[h].topic
    BY DEF IntentNamesOneRequest
  <2>1. Named(h)
    BY KindOfHandler DEF LessonsInv, BooksAge, BookRight, Booked, At
  <2>2. QED
    BY <2>1 DEF Named
<1>4. QED
  BY <1>1, <1>2, <1>3, LessonsInvStart, LessonsInvStep, PTL DEF Spec
-----------------------------------------------------------------------------
(* One lesson per life of an artifact *)

\* What the handler h shows belongs to the artifact that lives, or to an older one.
LifeRight(h) == ShowsLesson(h) =>
  /\ handler[h].born <= expiries
  /\ Id(h) \notin Known => handler[h].born < expiries
  /\ SameLife(h, artifacts, Id(h)) => handler[h].data = artifacts[Id(h)].data

Twins(g, h) ==
  (/\ ShowsLesson(g) /\ ShowsLesson(h) /\ Id(g) = Id(h)
   /\ handler[g].born = handler[h].born) => handler[g].data = handler[h].data

LivesAge ==
  /\ \A id \in Known : artifacts[id].born <= expiries
  /\ \A h \in Requests : LifeRight(h)
  /\ \A g, h \in Requests : Twins(g, h)

LEMMA OthersShow ==
  ASSUME NEW h \in Requests, handler'[h] = handler[h]
  PROVE  ShowsLesson(h)' = ShowsLesson(h) /\ Id(h)' = Id(h)
  BY DEF ShowsLesson, At, Lesson, Spoken, Id

\* Whoever moves shows an artifact that is there, or nothing.
LEMMA MoverShows ==
  ASSUME LessonsType, NEW h \in Requests,
         Begins(h) \/ Moves(h) \/ Intends(h) \/ Saves(h) \/ Reports(h) \/ Files(h)
  PROVE  /\ \A g \in Requests \ {h} : handler'[g] = handler[g]
         /\ ShowsLesson(h)' => Shows(h)
<1>1. \A g \in Requests \ {h} : handler'[g] = handler[g]
  BY DEF Begins, Moves, Quietly, Refuses, Shows, Speaks, Generates, Ends, Intends, Saves, Reports, Files,
         KeepsOn, OnlyMoves
<1>2. CASE Begins(h)
  BY <1>1, <1>2 DEF Begins, ShowsLesson, At
<1>3. CASE Quietly(h) \/ Refuses(h) \/ Generates(h) \/ Saves(h)
  BY <1>1, <1>3 DEF Quietly, Refuses, Generates, Saves, ShowsLesson, At
<1>4. CASE Speaks(h)
  BY <1>1, <1>4 DEF Speaks, KeepsOn, ShowsLesson, Spoken
<1>5. CASE Intends(h)
  BY <1>1, <1>5 DEF Intends, ShowsLesson, At, IntentReply
<1>6. CASE Ends(h) \/ Reports(h) \/ Files(h)
  <2>1. handler'[h].stage # "replying"
    BY <1>6 DEF Ends, Reports, Files, OtherHandlers, ReportHandlers
  <2>2. QED
    BY <1>1, <2>1 DEF ShowsLesson, At
<1>7. QED
  BY <1>1, <1>2, <1>3, <1>4, <1>5, <1>6 DEF Moves

LEMMA ShowLives ==
  ASSUME LessonsType, LivesAge, NEW h \in Requests, UNCHANGED <<artifacts, expiries>>,
         \A g \in Requests \ {h} : handler'[g] = handler[g],
         ShowsLesson(h)' => Shows(h)
  PROVE  LivesAge'
<1>1. ASSUME NEW g \in Requests \ {h} PROVE LifeRight(g)'
  BY <1>1, OthersShow DEF LivesAge, LifeRight, SameLife, Known
<1>2. ASSUME ShowsLesson(h)'
      PROVE  /\ Id(h)' = Id(h) /\ Id(h) \in Known
             /\ handler'[h].data = artifacts[Id(h)].data /\ handler'[h].born = artifacts[Id(h)].born
  BY <1>2 DEF Shows, KeepsOn, Id
<1>3. LifeRight(h)'
  BY <1>2 DEF LifeRight, LivesAge, SameLife, Known
<1>4. ASSUME NEW g \in Requests \ {h} PROVE Twins(g, h)' /\ Twins(h, g)'
  <2> SUFFICES ASSUME ShowsLesson(g)', ShowsLesson(h)', Id(g)' = Id(h)', handler'[g].born = handler'[h].born
               PROVE  handler'[g].data = handler'[h].data
    BY DEF Twins
  <2>1. ShowsLesson(g) /\ Id(g) = Id(h)
    BY <1>2, OthersShow
  <2>2. handler[g].born = artifacts[Id(h)].born /\ Id(h) \in Known
    BY <1>2
  <2>3. handler[g].data = artifacts[Id(h)].data
    BY <2>1, <2>2 DEF LivesAge, LifeRight, SameLife, Known
  <2>4. QED
    BY <1>2, <2>3
<1>5. ASSUME NEW f \in Requests \ {h}, NEW g \in Requests \ {h} PROVE Twins(f, g)'
  BY <1>5, OthersShow DEF LivesAge, Twins
<1>6. Twins(h, h)'
  BY DEF Twins
<1>7. \A id \in Known' : artifacts'[id].born <= expiries'
  BY DEF LivesAge, Known
<1>8. QED
  BY <1>1, <1>3, <1>4, <1>5, <1>6, <1>7 DEF LivesAge

LEMMA LivesStep ==
  ASSUME LessonsType, LivesAge, Kinds
  PROVE  LivesAge'
<1>1. ASSUME UNCHANGED handler, NEW g \in Requests, NEW h \in Requests
      PROVE  Twins(g, h)' /\ ShowsLesson(h)' = ShowsLesson(h) /\ Id(h)' = Id(h)
             /\ (ShowsLesson(h) => handler[h].born \in Nat)
  <2>1. ShowsLesson(h) => handler[h].born \in Nat
    BY KindOfHandler DEF ShowsLesson, LessonHandlers
  <2>2. QED
    BY <1>1, <2>1, OthersShow DEF LivesAge, Twins
<1>2. CASE QuizGoes \/ (KeyExpires /\ UNCHANGED artifacts)
  <2>1. UNCHANGED <<handler, artifacts>> /\ (expiries' = expiries \/ expiries' = expiries + 1)
    BY <1>2 DEF QuizGoes, KeyExpires, Kept
  <2>2. ASSUME NEW h \in Requests PROVE LifeRight(h)'
    BY <1>1, <2>1 DEF LivesAge, LifeRight, SameLife, Known, LessonsType
  <2>3. QED
    BY <1>1, <2>1, <2>2 DEF LivesAge, LessonsType, Known
<1>3. ASSUME KeyExpires, NEW id \in Known, artifacts' = Drop(artifacts, id)
      PROVE  LivesAge'
  <2>1. /\ UNCHANGED handler /\ expiries' = expiries + 1
        /\ \A k \in Known' : k \in Known /\ artifacts'[k] = artifacts[k]
    BY <1>3 DEF KeyExpires, Drop, Known
  <2>2. ASSUME NEW h \in Requests PROVE LifeRight(h)'
    BY <1>1, <2>1 DEF LivesAge, LifeRight, SameLife, Known, LessonsType
  <2>3. QED
    BY <1>1, <2>1, <2>2 DEF LivesAge, LessonsType
<1>4. ASSUME NEW h \in Requests, Saves(h), UNCHANGED expiries
      PROVE  LivesAge'
  <2>1. ~ShowsLesson(h)' /\ \A g \in Requests \ {h} : handler'[g] = handler[g]
    BY <1>4, MoverShows DEF Saves, Quietly, ShowsLesson, At
  <2>2. /\ Known' = Known \cup {Id(h)} /\ Id(h) \notin Known /\ artifacts'[Id(h)].born = expiries
        /\ \A k \in Known : artifacts'[k] = artifacts[k]
    BY <1>4 DEF Saves, Put, Known
  <2>3. ASSUME NEW g \in Requests PROVE LifeRight(g)'
    <3>1. CASE g = h
      BY <2>1, <3>1 DEF LifeRight
    <3>2. CASE g # h
      <4>1. /\ LifeRight(g) /\ handler'[g] = handler[g] /\ ShowsLesson(g)' = ShowsLesson(g) /\ Id(g)' = Id(g)
            /\ ShowsLesson(g) => handler[g].born \in Nat
        BY <2>1, <3>2, OthersShow, KindOfHandler DEF LivesAge, ShowsLesson, LessonHandlers
      <4>2. QED
        BY <1>4, <2>2, <4>1 DEF LifeRight, SameLife, Known, LessonsType
    <3>3. QED
      BY <3>1, <3>2
  <2>4. ASSUME NEW f \in Requests, NEW g \in Requests PROVE Twins(f, g)'
    BY <2>1, <2>4, OthersShow DEF LivesAge, Twins
  <2>5. \A id \in Known' : artifacts'[id].born <= expiries'
    BY <1>4, <2>2 DEF LivesAge, LessonsType
  <2>6. QED
    BY <2>3, <2>4, <2>5 DEF LivesAge
<1>5. ASSUME NEW h \in Requests, UNCHANGED <<artifacts, expiries>>,
             Begins(h) \/ Moves(h) \/ Intends(h) \/ Reports(h) \/ Files(h)
      PROVE  LivesAge'
  BY <1>5, MoverShows, ShowLives
<1>6. QED
  BY <1>2, <1>3, <1>4, <1>5 DEF Kinds, KeyExpires, Kept

(***************************************************************************)
(* While an artifact lives, all who are shown it are shown one lesson, for *)
(* every number of tabs and of lessons generated for one id.               *)
(***************************************************************************)
THEOREM OneLessonShown == Spec => []OneLessonPerLife
<1>1. Init => LivesAge
  BY DEF Init, LivesAge, LifeRight, Twins, ShowsLesson, At, Idle, Known
<1>2. LessonsInv /\ LivesAge /\ [Next]_vars => LivesAge'
  BY LessonsInvStep, LivesStep DEF LessonsInv
<1>3. LivesAge => OneLessonPerLife
  BY DEF LivesAge, LifeRight, Twins, OneLessonPerLife, SameLife, Known
<1>4. QED
  BY <1>1, <1>2, <1>3, LessonsInvStart, LessonsInvStep, PTL DEF Spec
-----------------------------------------------------------------------------
(* The parser of Provider: what its state says of the parts heard so far.  *)

\* A non-empty set of naturals has a least element.
LEMMA LeastUnder ==
  ASSUME NEW R, IsWellFoundedOn(R, Nat),
         \A x, y \in Nat : y < x => <<y, x>> \in R,
         NEW T, T \subseteq Nat, T # {}
  PROVE  \E x \in T : \A y \in T : x <= y
<1>1. PICK x \in T : \A y \in T : ~ (<<y, x>> \in R)
  BY WFMin, Zenon
<1>2. ASSUME NEW y \in T PROVE x <= y
  <2>1. x \in Nat /\ y \in Nat
    OBVIOUS
  <2>2. ~ (<<y, x>> \in R)
    BY <1>1, Zenon
  <2>3. ~ (y < x)
    BY <2>1, <2>2, Zenon
  <2>4. QED
    BY <2>1, <2>3
<1>3. QED
  BY <1>2

LEMMA LeastOf ==
  ASSUME NEW T, T \subseteq Nat, T # {}
  PROVE  \E x \in T : \A y \in T : x <= y
<1>1. \A i, j \in Nat : i < j => <<i, j>> \in OpToRel(<, Nat)
  BY DEF OpToRel
<1>2. QED
  BY <1>1, LeastUnder, NatLessThanWellFounded, Zenon

(***************************************************************************)
(* A walk up to n: where every place leads to the next one, there is a     *)
(* walk from any place to start from.                                      *)
(***************************************************************************)
GoesUp(f, k, start, V, steps) ==
  f[0] = start /\ (\A i \in 0..k : f[i] \in V) /\ \A i \in 1..k : f[i] = steps[i][f[i - 1]]

LEMMA WalksUp ==
  ASSUME NEW n \in Nat, NEW V, NEW start \in V, NEW steps, \A i \in 1..n : \A v \in V : steps[i][v] \in V
  PROVE  \E f : GoesUp(f, n, start, V, steps)
<1> DEFINE far == {k \in 0..n : ~ \E f : GoesUp(f, k, start, V, steps)}
<1>1. far = {}
  <2>1. SUFFICES ASSUME far # {} PROVE FALSE
    OBVIOUS
  <2>2. PICK k \in far : \A j \in far : k <= j
    <3>1. far \subseteq Nat
      OBVIOUS
    <3> HIDE DEF far
    <3>2. QED
      BY <2>1, <3>1, LeastOf
  <2>3. k \in 0..n /\ ~ \E f : GoesUp(f, k, start, V, steps)
    OBVIOUS
  <2>4. k # 0
    <3> DEFINE g == [i \in 0..0 |-> start]
    <3>1. GoesUp(g, 0, start, V, steps)
      BY DEF GoesUp
    <3>2. QED
      BY <2>3, <3>1
  <2>5. k - 1 \in 0..n /\ k \in 1..n /\ k - 1 < k
    BY <2>3, <2>4
  <2>6. PICK f : GoesUp(f, k - 1, start, V, steps)
    <3>1. k - 1 \notin far
      <4> HIDE DEF far
      <4>1. QED
        BY <2>2, <2>3, <2>5
    <3>2. QED
      BY <2>5, <3>1
  <2> DEFINE g == [i \in 0..k |-> IF i = k THEN steps[k][f[k - 1]] ELSE f[i]]
  <2>7. g[k] = steps[k][f[k - 1]] /\ \A i \in 0..(k - 1) : g[i] = f[i]
    BY <2>5
  <2> HIDE DEF g, far
  <2>8. \A i \in 0..(k - 1) : f[i] \in V
    BY <2>6 DEF GoesUp
  <2>9. steps[k][f[k - 1]] \in V
    BY <2>5, <2>8
  <2>10. g[0] = start /\ \A i \in 0..k : g[i] \in V
    BY <2>5, <2>6, <2>7, <2>8, <2>9 DEF GoesUp
  <2>11. ASSUME NEW i \in 1..k PROVE g[i] = steps[i][g[i - 1]]
    <3>1. i - 1 \in 0..(k - 1) /\ (i = k \/ i \in 1..(k - 1))
      BY <2>5
    <3>2. QED
      BY <2>5, <2>6, <2>7, <3>1 DEF GoesUp
  <2>12. GoesUp(g, k, start, V, steps)
    BY <2>10, <2>11 DEF GoesUp
  <2>13. QED
    BY <2>3, <2>12
<1>2. QED
  BY <1>1

(***************************************************************************)
(* The two loops of the parser, over the parts of a message and over the   *)
(* messages of an answer.                                                  *)
(***************************************************************************)
ParserStates ==
  [text : {"json", "prose", "empty"}, error : {"none", "AI_REFUSED", "AI_INVALID_OUTPUT"}]

LEMMA PartType == \A s \in ParserStates : \A p \in Parts : Part(s, p) \in ParserStates
  BY DEF Part, Failed, ParserStates, Parts, Texts

OverParts(f, s, c) == f[0] = s /\ \A k \in 1..Len(c) : f[k] = Part(f[k - 1], c[k])

LEMMA ItemLoops ==
  ASSUME NEW s \in ParserStates, NEW i, i.content \in Seq(Parts), s.error = "none", i.message, i.sound
  PROVE  \E f : OverParts(f, s, i.content) /\ Item(s, i) = f[Len(i.content)]
<1> DEFINE c == i.content
           n == Len(c)
           Loops(g) == g = [k \in 0..n |-> IF k = 0 THEN s ELSE Part(g[k - 1], c[k])]
           h == CHOOSE g : Loops(g)
           steps == [k \in 1..n |-> [v \in ParserStates |-> Part(v, c[k])]]
<1>1. n \in Nat /\ \A k \in 1..n : c[k] \in Parts
  OBVIOUS
<1>2. Item(s, i) = h[n]
  BY DEF Item
<1>3. \E g : Loops(g)
  <2>1. PICK f : GoesUp(f, n, s, ParserStates, steps)
    <3>1. \A k \in 1..n : \A v \in ParserStates : steps[k][v] \in ParserStates
      <4> HIDE DEF c
      <4>1. QED
        BY <1>1, PartType
    <3> HIDE DEF steps, n
    <3>2. QED
      BY <1>1, <3>1, WalksUp
  <2> DEFINE g == [k \in 0..n |-> f[k]]
  <2>2. ASSUME NEW k \in 0..n PROVE g[k] = IF k = 0 THEN s ELSE Part(g[k - 1], c[k])
    <3>1. CASE k = 0
      BY <2>1, <3>1 DEF GoesUp
    <3>2. CASE k # 0
      <4> HIDE DEF c
      <4>1. k \in 1..n /\ k - 1 \in 0..n
        BY <1>1, <3>2
      <4>2. f[k - 1] \in ParserStates /\ f[k] = steps[k][f[k - 1]]
        <5> HIDE DEF steps, n
        <5>1. QED
          BY <2>1, <4>1 DEF GoesUp
      <4>3. f[k] = Part(f[k - 1], c[k])
        <5> HIDE DEF n
        <5>1. QED
          BY <4>1, <4>2
      <4>4. g[k] = f[k] /\ g[k - 1] = f[k - 1]
        BY <4>1
      <4> HIDE DEF g, n
      <4>5. QED
        BY <3>2, <4>3, <4>4
    <3>3. QED
      BY <3>1, <3>2
  <2>3. g = [k \in 0..n |-> g[k]]
    OBVIOUS
  <2> HIDE DEF g, c, n, steps
  <2>4. Loops(g)
    BY <2>2, <2>3
  <2>5. QED
    BY <2>4, Zenon
<1>4. Loops(h)
  <2> HIDE DEF Loops
  <2>1. QED
    BY <1>3, Zenon
<1> HIDE DEF h
<1>5. h[0] = s /\ \A k \in 1..n : h[k] = Part(h[k - 1], c[k])
  <2> HIDE DEF n, c
  <2>1. 0 \in 0..n /\ \A k \in 1..n : k \in 0..n /\ k # 0
    BY <1>1
  <2>2. QED
    BY <1>4, <2>1
<1>6. OverParts(h, s, c)
  BY <1>5 DEF OverParts
<1>7. QED
  BY <1>2, <1>6

LEMMA OverPartsType ==
  ASSUME NEW s \in ParserStates, NEW c \in Seq(Parts), NEW f, OverParts(f, s, c)
  PROVE  \A k \in 0..Len(c) : f[k] \in ParserStates
<1> DEFINE out == {k \in 0..Len(c) : f[k] \notin ParserStates}
<1>1. out = {}
  <2>1. SUFFICES ASSUME out # {} PROVE FALSE
    OBVIOUS
  <2>2. PICK k \in out : \A j \in out : k <= j
    <3>1. out \subseteq Nat
      OBVIOUS
    <3> HIDE DEF out
    <3>2. QED
      BY <2>1, <3>1, LeastOf
  <2>3. k \in 0..Len(c) /\ f[k] \notin ParserStates
    OBVIOUS
  <2>4. k # 0
    BY <2>3 DEF OverParts
  <2>5. k \in 1..Len(c) /\ k - 1 \in 0..Len(c) /\ k - 1 < k
    BY <2>3, <2>4
  <2>6. f[k - 1] \in ParserStates
    <3>1. k - 1 \notin out
      <4> HIDE DEF out
      <4>1. QED
        BY <2>2, <2>3, <2>5
    <3>2. QED
      BY <2>5, <3>1
  <2>7. c[k] \in Parts
    BY <2>5
  <2>8. f[k] = Part(f[k - 1], c[k])
    BY <2>5 DEF OverParts
  <2>9. QED
    BY <2>3, <2>6, <2>7, <2>8, PartType
<1>2. QED
  BY <1>1

IsItem(i) == i.message \in BOOLEAN /\ i.sound \in BOOLEAN /\ i.content \in Seq(Parts)

LEMMA ItemType ==
  ASSUME NEW s \in ParserStates, NEW i, IsItem(i)
  PROVE  Item(s, i) \in ParserStates
<1>1. CASE s.error # "none" \/ ~i.message
  BY <1>1 DEF Item
<1>2. CASE s.error = "none" /\ i.message /\ ~i.sound
  BY <1>2 DEF Item, Failed, ParserStates
<1>3. CASE s.error = "none" /\ i.message /\ i.sound
  <2>1. PICK f : OverParts(f, s, i.content) /\ Item(s, i) = f[Len(i.content)]
    BY <1>3, ItemLoops DEF IsItem
  <2>2. PICK c : c = i.content
    OBVIOUS
  <2>3. c \in Seq(Parts) /\ Len(c) \in 0..Len(c)
    BY <2>2 DEF IsItem
  <2>4. \A k \in 0..Len(c) : f[k] \in ParserStates
    BY <2>1, <2>2, <2>3, OverPartsType
  <2>5. QED
    BY <2>1, <2>2, <2>3, <2>4
<1>4. QED
  BY <1>1, <1>2, <1>3 DEF IsItem

OverItems(f, out) == f[0] = Start /\ \A k \in 1..Len(out) : f[k] = Item(f[k - 1], out[k])

Outcome(answer, found) ==
  IF answer.status = "error"            THEN "AI_UNAVAILABLE"
  ELSE IF answer.status = "incomplete"  THEN "AI_INCOMPLETE"
  ELSE IF found.error # "none"          THEN found.error
  ELSE IF found.text = "json"           THEN "ok"
  ELSE "AI_INVALID_OUTPUT"

LEMMA TextLoops ==
  ASSUME NEW answer, NEW I, \A i \in I : IsItem(i), answer.output \in Seq(I)
  PROVE  \E f : OverItems(f, answer.output) /\ Text(answer) = Outcome(answer, f[Len(answer.output)])
<1> DEFINE out == answer.output
           n == Len(out)
           Loops(g) == g = [k \in 0..n |-> IF k = 0 THEN Start ELSE Item(g[k - 1], out[k])]
           h == CHOOSE g : Loops(g)
           steps == [k \in 1..n |-> [v \in ParserStates |-> Item(v, out[k])]]
<1>1. n \in Nat /\ \A k \in 1..n : IsItem(out[k])
  OBVIOUS
<1>2. Text(answer) = Outcome(answer, h[n])
  BY DEF Text, Outcome
<1>3. \E g : Loops(g)
  <2>1. PICK f : GoesUp(f, n, Start, ParserStates, steps)
    <3>1. \A k \in 1..n : \A v \in ParserStates : steps[k][v] \in ParserStates
      <4> HIDE DEF out
      <4>1. QED
        BY <1>1, ItemType
    <3>2. Start \in ParserStates
      BY DEF Start, ParserStates
    <3> HIDE DEF steps, n
    <3>3. QED
      BY <1>1, <3>1, <3>2, WalksUp
  <2> DEFINE g == [k \in 0..n |-> f[k]]
  <2>2. ASSUME NEW k \in 0..n PROVE g[k] = IF k = 0 THEN Start ELSE Item(g[k - 1], out[k])
    <3>1. CASE k = 0
      BY <2>1, <3>1 DEF GoesUp
    <3>2. CASE k # 0
      <4> HIDE DEF out
      <4>1. k \in 1..n /\ k - 1 \in 0..n
        BY <1>1, <3>2
      <4>2. f[k - 1] \in ParserStates /\ f[k] = steps[k][f[k - 1]]
        <5> HIDE DEF steps, n
        <5>1. QED
          BY <2>1, <4>1 DEF GoesUp
      <4>3. f[k] = Item(f[k - 1], out[k])
        <5> HIDE DEF n
        <5>1. QED
          BY <4>1, <4>2
      <4>4. g[k] = f[k] /\ g[k - 1] = f[k - 1]
        BY <4>1
      <4> HIDE DEF g, n
      <4>5. QED
        BY <3>2, <4>3, <4>4
    <3>3. QED
      BY <3>1, <3>2
  <2>3. g = [k \in 0..n |-> g[k]]
    OBVIOUS
  <2> HIDE DEF g, out, n, steps
  <2>4. Loops(g)
    BY <2>2, <2>3
  <2>5. QED
    BY <2>4, Zenon
<1>4. Loops(h)
  <2> HIDE DEF Loops
  <2>1. QED
    BY <1>3, Zenon
<1> HIDE DEF h
<1>5. h[0] = Start /\ \A k \in 1..n : h[k] = Item(h[k - 1], out[k])
  <2> HIDE DEF n, out
  <2>1. 0 \in 0..n /\ \A k \in 1..n : k \in 0..n /\ k # 0
    BY <1>1
  <2>2. QED
    BY <1>4, <2>1
<1>6. OverItems(h, out)
  BY <1>5 DEF OverItems
<1>7. QED
  BY <1>2, <1>6
-----------------------------------------------------------------------------
(* What the parser has found so far *)

Place(answer, x) == answer.output[x[1]].content[x[2]]
Before(x, y) == x[1] < y[1] \/ (x[1] = y[1] /\ x[2] < y[2])

\* The parts read when k parts of message i are, or all of the messages up to i.
Heard(answer, i, k) == {x \in Said(answer) : x[1] < i \/ (x[1] = i /\ x[2] <= k)}
SoundTo(answer, i) == \A j \in 1..i : answer.output[j].message => answer.output[j].sound

\* No refusal, and after a text no other.
Fine(answer, T) ==
  /\ \A x \in T : Place(answer, x) # "refusal"
  /\ \A x, y \in T : Before(x, y) /\ Place(answer, x) \in Texts => Place(answer, y) \notin Texts \cup {"empty"}

Parsed(answer, s, T, sound) ==
  /\ s \in ParserStates
  /\ s.error = "none" <=> sound /\ Fine(answer, T)
  /\ s.error = "none" =>
       /\ s.text = "empty" => \A x \in T : Place(answer, x) \notin Texts
       /\ s.text # "empty" => \E x \in T : Place(answer, x) = s.text

LEMMA BeforeIs ==
  ASSUME NEW x \in Nat \X Nat, NEW y \in Nat \X Nat
  PROVE  Before(x, y) => ~Before(y, x)
  BY DEF Before

LEMMA PartStep ==
  ASSUME NEW answer, NEW s, NEW T, NEW x, NEW sound \in BOOLEAN, Parsed(answer, s, T, sound),
         Place(answer, x) \in Parts, \A y \in T : Before(y, x) /\ ~Before(x, y), ~Before(x, x)
  PROVE  Parsed(answer, Part(s, Place(answer, x)), T \cup {x}, sound)
<1> DEFINE r == Part(s, Place(answer, x))
           U == T \cup {x}
<1>1. s \in ParserStates /\ r \in ParserStates
  BY PartType DEF Parsed
<1>2. CASE s.error # "none"
  <2>1. r = s
    BY <1>2 DEF Part
  <2>2. ~(sound /\ Fine(answer, T))
    BY <1>2 DEF Parsed
  <2>3. ~(sound /\ Fine(answer, U))
    BY <2>2 DEF Fine
  <2>4. QED
    BY <1>1, <1>2, <2>1, <2>3 DEF Parsed
<1>3. CASE s.error = "none" /\ Place(answer, x) = "refusal"
  <2>1. r.error # "none"
    BY <1>1, <1>3 DEF Part, Failed, ParserStates
  <2>2. ~Fine(answer, U)
    BY <1>3 DEF Fine
  <2>3. QED
    BY <1>1, <2>1, <2>2 DEF Parsed
<1>4. CASE s.error = "none" /\ Place(answer, x) = "unknown"
  <2>1. r = s
    BY <1>4 DEF Part, Texts
  <2>2. sound /\ Fine(answer, T)
    BY <1>4 DEF Parsed
  <2>3. Fine(answer, U)
    BY <1>4, <2>2 DEF Fine, Texts
  <2>4. QED
    BY <1>1, <1>4, <2>1, <2>2, <2>3 DEF Parsed, Texts
<1>5. CASE s.error = "none" /\ Place(answer, x) \in Texts \cup {"empty"} /\ s.text # "empty"
  <2>1. r.error # "none"
    BY <1>1, <1>5 DEF Part, Failed, ParserStates, Texts
  <2>2. PICK y \in T : Place(answer, y) = s.text
    BY <1>5 DEF Parsed
  <2>3. Place(answer, y) \in Texts
    BY <1>1, <1>5, <2>2 DEF ParserStates, Texts
  <2>4. ~Fine(answer, U)
    BY <1>5, <2>2, <2>3 DEF Fine
  <2>5. QED
    BY <1>1, <2>1, <2>4 DEF Parsed
<1>6. CASE s.error = "none" /\ Place(answer, x) \in Texts \cup {"empty"} /\ s.text = "empty"
  <2>1. r.error = "none" /\ r.text = Place(answer, x)
    BY <1>1, <1>6 DEF Part, ParserStates, Texts
  <2>2. sound /\ Fine(answer, T) /\ \A y \in T : Place(answer, y) \notin Texts
    BY <1>6 DEF Parsed
  <2>3. Place(answer, x) # "refusal"
    BY <1>6 DEF Texts
  <2>4. Fine(answer, U)
    BY <2>2, <2>3 DEF Fine
  <2>5. r.text = "empty" => \A y \in U : Place(answer, y) \notin Texts
    BY <2>1, <2>2 DEF Texts
  <2>6. QED
    BY <1>1, <2>1, <2>2, <2>4, <2>5 DEF Parsed
<1>7. QED
  BY <1>2, <1>3, <1>4, <1>5, <1>6 DEF Parts

Shaped(answer) ==
  /\ answer.output \in Seq({i \in Items : IsItem(i) /\ Len(i.content) <= MaxParts})
  /\ Len(answer.output) <= MaxItems

LEMMA ShapedIs ==
  ASSUME NEW answer, Shaped(answer)
  PROVE  /\ Len(answer.output) \in Nat /\ DOMAIN answer.output = 1..Len(answer.output)
         /\ \A i \in 1..Len(answer.output) :
              /\ IsItem(answer.output[i]) /\ Len(answer.output[i].content) \in 0..MaxParts
              /\ DOMAIN answer.output[i].content = 1..Len(answer.output[i].content)
<1> DEFINE I == {i \in Items : IsItem(i) /\ Len(i.content) <= MaxParts}
<1>1. PICK out : out = answer.output
  OBVIOUS
<1>2. out \in Seq(I)
  BY <1>1 DEF Shaped
<1>3. \A i \in I : /\ IsItem(i) /\ Len(i.content) \in 0..MaxParts
                   /\ DOMAIN i.content = 1..Len(i.content)
  <2>1. ASSUME NEW i \in I
        PROVE  IsItem(i) /\ Len(i.content) \in 0..MaxParts /\ DOMAIN i.content = 1..Len(i.content)
    <3>1. PICK c : c = i.content
      OBVIOUS
    <3>2. c \in Seq(Parts) /\ Len(c) <= MaxParts
      BY <3>1 DEF IsItem
    <3>3. QED
      BY <3>1, <3>2, ProviderAssumption
  <2>2. QED
    BY <2>1
<1> HIDE DEF I
<1>4. Len(out) \in Nat /\ DOMAIN out = 1..Len(out) /\ \A i \in 1..Len(out) : out[i] \in I
  BY <1>2
<1>5. QED
  BY <1>1, <1>3, <1>4

\* The parts that were said, by their places.
LEMMA SaidIs ==
  ASSUME NEW answer, Shaped(answer)
  PROVE  /\ \A x \in Said(answer) :
              /\ x = <<x[1], x[2]>> /\ x[1] \in 1..Len(answer.output) /\ answer.output[x[1]].message
              /\ x[2] \in 1..Len(answer.output[x[1]].content)
         /\ \A i \in 1..Len(answer.output) :
              answer.output[i].message =>
                \A k \in 1..Len(answer.output[i].content) : <<i, k>> \in Said(answer)
<1>1. /\ Len(answer.output) \in Nat /\ DOMAIN answer.output = 1..Len(answer.output)
      /\ Len(answer.output) <= MaxItems
      /\ \A i \in 1..Len(answer.output) :
              /\ IsItem(answer.output[i]) /\ Len(answer.output[i].content) \in 0..MaxParts
              /\ DOMAIN answer.output[i].content = 1..Len(answer.output[i].content)
  BY ShapedIs DEF Shaped
<1>2. ASSUME NEW x \in Said(answer)
      PROVE  /\ x = <<x[1], x[2]>> /\ x[1] \in 1..Len(answer.output) /\ answer.output[x[1]].message
             /\ x[2] \in 1..Len(answer.output[x[1]].content)
  <2>1. /\ x \in (1..MaxItems) \X (1..MaxParts)
        /\ x[1] \in DOMAIN answer.output /\ answer.output[x[1]].message
        /\ x[2] \in DOMAIN answer.output[x[1]].content
    BY DEF Said
  <2>2. QED
    BY <1>1, <2>1
<1>3. ASSUME NEW i \in 1..Len(answer.output), answer.output[i].message,
             NEW k \in 1..Len(answer.output[i].content)
      PROVE  <<i, k>> \in Said(answer)
  <2>1. i \in 1..MaxItems /\ k \in 1..MaxParts
    BY <1>1, ProviderAssumption
  <2>2. i \in DOMAIN answer.output /\ k \in DOMAIN answer.output[i].content
    BY <1>1
  <2>3. QED
    BY <1>3, <2>1, <2>2 DEF Said
<1>4. QED
  BY <1>2, <1>3

(***************************************************************************)
(* One message: its parts one by one.                                      *)
(***************************************************************************)
LEMMA MessageStep ==
  ASSUME NEW answer, Shaped(answer), NEW i \in 1..Len(answer.output), NEW s, NEW sound \in BOOLEAN,
         Parsed(answer, s, Heard(answer, i, 0), sound),
         s.error = "none", answer.output[i].message, answer.output[i].sound
  PROVE  Parsed(answer, Item(s, answer.output[i]), Heard(answer, i, Len(answer.output[i].content)), sound)
<1> PICK c : c = answer.output[i].content
  OBVIOUS
<1>1. c \in Seq(Parts) /\ Len(c) \in Nat
  BY ShapedIs DEF IsItem
<1>2. PICK f : OverParts(f, s, c) /\ Item(s, answer.output[i]) = f[Len(c)]
  <2>1. IsItem(answer.output[i]) /\ s \in ParserStates
    BY ShapedIs DEF Parsed
  <2>2. QED
    BY <2>1, ItemLoops DEF IsItem
<1> DEFINE bad == {k \in 0..Len(c) : ~Parsed(answer, f[k], Heard(answer, i, k), sound)}
<1>3. bad = {}
  <2>1. SUFFICES ASSUME bad # {} PROVE FALSE
    OBVIOUS
  <2>2. PICK k \in bad : \A j \in bad : k <= j
    <3>1. bad \subseteq Nat
      BY <1>1
    <3> HIDE DEF bad
    <3>2. QED
      BY <2>1, <3>1, LeastOf
  <2>3. k \in 0..Len(c) /\ ~Parsed(answer, f[k], Heard(answer, i, k), sound)
    OBVIOUS
  <2>4. k # 0
    BY <1>2, <2>3 DEF OverParts
  <2>5. k \in 1..Len(c) /\ k - 1 \in 0..Len(c) /\ k - 1 < k
    BY <1>1, <2>3, <2>4
  <2>6. Parsed(answer, f[k - 1], Heard(answer, i, k - 1), sound)
    <3>1. k - 1 \notin bad
      <4> HIDE DEF bad
      <4>1. QED
        BY <1>1, <2>2, <2>3, <2>5
    <3>2. QED
      BY <2>5, <3>1
  <2>7. PICK x : x = <<i, k>>
    OBVIOUS
  <2>8. Place(answer, x) = c[k] /\ c[k] \in Parts /\ f[k] = Part(f[k - 1], c[k])
    BY <1>1, <1>2, <2>5, <2>7 DEF Place, OverParts
  <2>9. x \in Said(answer)
    BY <2>5, <2>7, SaidIs
  <2>10. /\ \A y \in Said(answer) : y = <<y[1], y[2]>> /\ y[1] \in Nat /\ y[2] \in Nat
         /\ i \in Nat /\ k \in Nat /\ Len(c) \in Nat
    <3>1. \A y \in Said(answer) : /\ y = <<y[1], y[2]>> /\ y[1] \in 1..Len(answer.output)
                                  /\ y[2] \in 1..Len(answer.output[y[1]].content)
      BY SaidIs
    <3>2. Len(answer.output) \in Nat /\ \A j \in 1..Len(answer.output) : Len(answer.output[j].content) \in Nat
      BY ShapedIs, ProviderAssumption
    <3>3. QED
      BY <1>1, <2>5, <3>1, <3>2
  <2>11. Heard(answer, i, k) = Heard(answer, i, k - 1) \cup {x}
    <3>1. ASSUME NEW y \in Said(answer)
          PROVE  (y[1] < i \/ (y[1] = i /\ y[2] <= k)) <=> (y[1] < i \/ (y[1] = i /\ y[2] <= k - 1) \/ y = x)
      <4>1. y = <<y[1], y[2]>> /\ y[1] \in Nat /\ y[2] \in Nat /\ i \in Nat /\ k \in Nat
        BY <2>10
      <4>2. PICK a, b : a = y[1] /\ b = y[2]
        OBVIOUS
      <4>3. y = x <=> a = i /\ b = k
        BY <2>7, <4>1, <4>2
      <4>4. QED
        BY <4>1, <4>2, <4>3
    <3>2. QED
      BY <2>9, <3>1 DEF Heard
  <2>12. ~Before(x, x) /\ \A y \in Heard(answer, i, k - 1) : Before(y, x) /\ ~Before(x, y)
    <3>1. x[1] = i /\ x[2] = k
      BY <2>7
    <3>2. QED
      BY <2>10, <3>1 DEF Before, Heard
  <2>13. Parsed(answer, Part(f[k - 1], Place(answer, x)), Heard(answer, i, k - 1) \cup {x}, sound)
    <3>1. PICK T, r : T = Heard(answer, i, k - 1) /\ r = f[k - 1]
      OBVIOUS
    <3>2. /\ Parsed(answer, r, T, sound) /\ Place(answer, x) \in Parts /\ ~Before(x, x)
          /\ \A y \in T : Before(y, x) /\ ~Before(x, y)
      BY <2>6, <2>8, <2>12, <3>1
    <3>3. Parsed(answer, Part(r, Place(answer, x)), T \cup {x}, sound)
      BY <3>2, PartStep
    <3>4. QED
      BY <3>1, <3>3
  <2>14. QED
    BY <2>3, <2>8, <2>11, <2>13
<1>4. Len(c) \in 0..Len(c)
  BY <1>1
<1>5. QED
  BY <1>2, <1>3, <1>4

(***************************************************************************)
(* All messages.                                                           *)
(***************************************************************************)
HeardTo(answer, i) == {x \in Said(answer) : x[1] <= i}
ParsedTo(answer, s, i) == Parsed(answer, s, HeardTo(answer, i), SoundTo(answer, i))

LEMMA ItemStep ==
  ASSUME NEW answer, Shaped(answer), NEW i \in 1..Len(answer.output), NEW s, ParsedTo(answer, s, i - 1)
  PROVE  ParsedTo(answer, Item(s, answer.output[i]), i)
<1> PICK it, r : it = answer.output[i] /\ r = Item(s, answer.output[i])
  OBVIOUS
<1>1. IsItem(it) /\ i \in Nat /\ i - 1 \in Nat /\ s \in ParserStates
  BY ShapedIs DEF ParsedTo, Parsed
<1>2. r \in ParserStates
  BY <1>1, ItemType
<1>3. HeardTo(answer, i - 1) \subseteq HeardTo(answer, i) /\ (SoundTo(answer, i) => SoundTo(answer, i - 1))
  <2>1. \A x \in Said(answer) : x[1] \in 1..Len(answer.output)
    BY SaidIs
  <2>2. QED
    BY <1>1, <2>1 DEF HeardTo, SoundTo
<1>4. SoundTo(answer, i) <=> SoundTo(answer, i - 1) /\ (it.message => it.sound)
  <2>1. \A j \in 1..i : j = i \/ j \in 1..(i - 1)
    BY <1>1
  <2>2. i \in 1..i /\ \A j \in 1..(i - 1) : j \in 1..i
    BY <1>1
  <2>3. QED
    BY <2>1, <2>2 DEF SoundTo
<1>5. CASE s.error # "none"
  <2>1. r = s
    BY <1>5 DEF Item
  <2>2. ~(SoundTo(answer, i - 1) /\ Fine(answer, HeardTo(answer, i - 1)))
    BY <1>5 DEF ParsedTo, Parsed
  <2>3. ~(SoundTo(answer, i) /\ Fine(answer, HeardTo(answer, i)))
    BY <1>3, <2>2 DEF Fine
  <2>4. QED
    BY <1>1, <1>5, <2>1, <2>3 DEF ParsedTo, Parsed
<1>6. CASE s.error = "none" /\ ~it.message
  <2>1. r = s
    BY <1>6 DEF Item
  <2>2. HeardTo(answer, i) = HeardTo(answer, i - 1)
    <3>1. \A x \in Said(answer) : x[1] \in Nat /\ x[1] # i
      BY <1>6, SaidIs, ShapedIs
    <3>2. QED
      BY <1>1, <3>1 DEF HeardTo
  <2>3. SoundTo(answer, i) <=> SoundTo(answer, i - 1)
    BY <1>4, <1>6
  <2>4. QED
    BY <2>1, <2>2, <2>3 DEF ParsedTo, Parsed
<1>7. CASE s.error = "none" /\ it.message /\ ~it.sound
  <2>1. r.error # "none"
    BY <1>1, <1>7 DEF Item, Failed, ParserStates
  <2>2. ~SoundTo(answer, i)
    BY <1>4, <1>7
  <2>3. QED
    BY <1>2, <2>1, <2>2 DEF ParsedTo, Parsed
<1>8. CASE s.error = "none" /\ it.message /\ it.sound
  <2>1. SoundTo(answer, i) <=> SoundTo(answer, i - 1)
    BY <1>4, <1>8
  <2>2. /\ \A x \in Said(answer) : x[1] \in Nat /\ x[2] \in Nat
        /\ \A x \in Said(answer) : x[1] = i => x[2] \in 1..Len(it.content)
    <3>1. /\ \A x \in Said(answer) : /\ x[1] \in 1..Len(answer.output)
                                     /\ x[2] \in 1..Len(answer.output[x[1]].content)
      BY SaidIs
    <3>2. Len(answer.output) \in Nat /\ \A j \in 1..Len(answer.output) : Len(answer.output[j].content) \in Nat
      BY ShapedIs, ProviderAssumption
    <3>3. QED
      BY <3>1, <3>2
  <2>3. Heard(answer, i, 0) = HeardTo(answer, i - 1)
    <3>1. \A x \in Said(answer) : (x[1] < i \/ (x[1] = i /\ x[2] <= 0)) <=> x[1] <= i - 1
      <4>1. \A x \in Said(answer) : x[1] = i => ~(x[2] <= 0)
        BY <2>2
      <4>2. QED
        BY <1>1, <2>2, <4>1
    <3>2. QED
      BY <3>1 DEF Heard, HeardTo
  <2>4. Heard(answer, i, Len(it.content)) = HeardTo(answer, i)
    <3>1. \A x \in Said(answer) : (x[1] < i \/ (x[1] = i /\ x[2] <= Len(it.content))) <=> x[1] <= i
      BY <1>1, <2>2
    <3>2. QED
      BY <3>1 DEF Heard, HeardTo
  <2>5. SoundTo(answer, i - 1) \in BOOLEAN
    BY DEF SoundTo
  <2>6. PICK b \in BOOLEAN : b = SoundTo(answer, i - 1)
    BY <2>5
  <2>7. Parsed(answer, s, Heard(answer, i, 0), b)
    BY <2>3, <2>6 DEF ParsedTo
  <2>8. Parsed(answer, r, Heard(answer, i, Len(it.content)), b)
    BY <1>8, <2>7, MessageStep
  <2>9. QED
    BY <2>1, <2>4, <2>6, <2>8 DEF ParsedTo, Parsed
<1>9. QED
  BY <1>1, <1>5, <1>6, <1>7, <1>8 DEF IsItem

LEMMA AnswerParsed ==
  ASSUME NEW answer, Shaped(answer)
  PROVE  \E s : /\ Text(answer) = Outcome(answer, s)
                /\ Parsed(answer, s, Said(answer), SoundTo(answer, Len(answer.output)))
<1> DEFINE I == {i \in Items : IsItem(i) /\ Len(i.content) <= MaxParts}
<1>1. (\A i \in I : IsItem(i)) /\ answer.output \in Seq(I)
  BY DEF Shaped
<1>2. PICK f : OverItems(f, answer.output) /\ Text(answer) = Outcome(answer, f[Len(answer.output)])
  <2> HIDE DEF I
  <2>1. QED
    BY <1>1, TextLoops
<1>3. PICK n \in Nat : n = Len(answer.output)
  BY ShapedIs
<1> DEFINE bad == {k \in 0..n : ~ParsedTo(answer, f[k], k)}
<1>4. bad = {}
  <2>1. SUFFICES ASSUME bad # {} PROVE FALSE
    OBVIOUS
  <2>2. PICK k \in bad : \A j \in bad : k <= j
    <3>1. bad \subseteq Nat
      OBVIOUS
    <3> HIDE DEF bad
    <3>2. QED
      BY <2>1, <3>1, LeastOf
  <2>3. k \in 0..n /\ ~ParsedTo(answer, f[k], k)
    OBVIOUS
  <2>4. k # 0
    <3>1. SUFFICES ASSUME k = 0 PROVE FALSE
      OBVIOUS
    <3>2. f[k] = Start
      BY <1>2, <3>1 DEF OverItems
    <3>3. \A x \in Said(answer) : ~(x[1] <= 0)
      <4>1. \A x \in Said(answer) : x[1] \in 1..n
        BY <1>3, SaidIs
      <4>2. QED
        BY <4>1
    <3>4. HeardTo(answer, k) = {}
      BY <3>1, <3>3 DEF HeardTo
    <3>5. SoundTo(answer, k)
      BY <3>1 DEF SoundTo
    <3>6. Parsed(answer, Start, {}, TRUE)
      BY DEF Parsed, Start, ParserStates, Fine
    <3>7. QED
      BY <2>3, <3>2, <3>4, <3>5, <3>6 DEF ParsedTo, Parsed
  <2>5. k \in 1..n /\ k - 1 \in 0..n /\ k - 1 < k
    BY <2>3, <2>4
  <2>6. ParsedTo(answer, f[k - 1], k - 1)
    <3>1. k - 1 \notin bad
      <4> HIDE DEF bad
      <4>1. QED
        BY <2>2, <2>3, <2>5
    <3>2. QED
      BY <2>5, <3>1
  <2>7. f[k] = Item(f[k - 1], answer.output[k])
    BY <1>2, <1>3, <2>5 DEF OverItems
  <2>8. ParsedTo(answer, Item(f[k - 1], answer.output[k]), k)
    BY <1>3, <2>5, <2>6, ItemStep
  <2>9. QED
    BY <2>3, <2>7, <2>8
<1>5. ParsedTo(answer, f[n], n)
  BY <1>4
<1>6. HeardTo(answer, n) = Said(answer)
  <2>1. \A x \in Said(answer) : x[1] \in 1..n
    BY <1>3, SaidIs
  <2>2. QED
    BY <2>1 DEF HeardTo
<1>7. Parsed(answer, f[n], Said(answer), SoundTo(answer, n))
  BY <1>5, <1>6 DEF ParsedTo
<1>8. QED
  BY <1>2, <1>3, <1>7

LEMMA AnswersAreShaped == \A answer \in Answers : Shaped(answer)
<1>1. ASSUME NEW S, NEW n \in Nat, NEW s \in BoundedSeq(S, n) PROVE s \in Seq(S) /\ Len(s) <= n
  <2>1. PICK m \in 0..n : s \in [1..m -> S]
    BY DEF BoundedSeq, SeqOf
  <2>2. m \in Nat
    BY <2>1
  <2>3. QED
    BY <2>1, <2>2
<1> DEFINE I == {i \in Items : IsItem(i) /\ Len(i.content) <= MaxParts}
<1>2. ASSUME NEW i \in Items PROVE i \in I
  <2>1. i.message \in BOOLEAN /\ i.sound \in BOOLEAN /\ i.content \in BoundedSeq(Parts, MaxParts)
    BY DEF Items
  <2>2. i.content \in Seq(Parts) /\ Len(i.content) <= MaxParts
    BY <1>1, <2>1, ProviderAssumption
  <2>3. QED
    BY <2>1, <2>2 DEF IsItem
<1>3. ASSUME NEW answer \in Answers PROVE Shaped(answer)
  <2>1. answer.output \in BoundedSeq(Items, MaxItems)
    BY DEF Answers
  <2>2. answer.output \in Seq(Items) /\ Len(answer.output) <= MaxItems
    BY <1>1, <2>1, ProviderAssumption
  <2>3. I = Items
    BY <1>2
  <2> HIDE DEF I
  <2>4. answer.output \in Seq(I)
    BY <2>2, <2>3
  <2>5. QED
    BY <2>2, <2>4 DEF Shaped, I
<1>4. QED
  BY <1>3

(***************************************************************************)
(* An answer of any length is accepted exactly when it is complete, its    *)
(* messages are sound and do not refuse, and they hold one text, of JSON,  *)
(* with no empty one after it.                                             *)
(***************************************************************************)
THEOREM AnswersHoldOneText == OneTextOnly
<1> SUFFICES ASSUME NEW answer \in Answers
             PROVE  LET part(x) == answer.output[x[1]].content[x[2]]
                        texts == {x \in Said(answer) : part(x) \in Texts}
                    IN Text(answer) = "ok" <=>
                         /\ answer.status = "completed"
                         /\ \A i \in DOMAIN answer.output : answer.output[i].message => answer.output[i].sound
                         /\ \A x \in Said(answer) : part(x) # "refusal"
                         /\ \E x \in texts :
                              /\ texts = {x} /\ part(x) = "json"
                              /\ \A y \in Said(answer) :
                                   part(y) = "empty" => y[1] < x[1] \/ (y[1] = x[1] /\ y[2] < x[2])
  BY Zenon DEF OneTextOnly
<1> DEFINE texts == {x \in Said(answer) : Place(answer, x) \in Texts}
           Single(x) == /\ texts = {x} /\ Place(answer, x) = "json"
                        /\ \A y \in Said(answer) : Place(answer, y) = "empty" => Before(y, x)
           sound == \A i \in DOMAIN answer.output : answer.output[i].message => answer.output[i].sound
           unrefused == \A x \in Said(answer) : Place(answer, x) # "refusal"
<1>1. Shaped(answer) /\ answer.status \in {"completed", "incomplete", "error"}
  BY AnswersAreShaped DEF Answers
<1>2. PICK s : /\ Text(answer) = Outcome(answer, s)
               /\ Parsed(answer, s, Said(answer), SoundTo(answer, Len(answer.output)))
  BY <1>1, AnswerParsed
<1>3. SoundTo(answer, Len(answer.output)) <=> sound
  BY <1>1, ShapedIs DEF SoundTo
<1>4. \A x, y \in Said(answer) : x = y \/ Before(x, y) \/ Before(y, x)
  <2>1. \A x \in Said(answer) : x = <<x[1], x[2]>> /\ x[1] \in Nat /\ x[2] \in Nat
    <3>1. \A x \in Said(answer) : /\ x = <<x[1], x[2]>> /\ x[1] \in 1..Len(answer.output)
                                  /\ x[2] \in 1..Len(answer.output[x[1]].content)
      BY <1>1, SaidIs
    <3>2. Len(answer.output) \in Nat /\ \A j \in 1..Len(answer.output) : Len(answer.output[j].content) \in Nat
      BY <1>1, ShapedIs, ProviderAssumption
    <3>3. QED
      BY <3>1, <3>2
  <2>2. ASSUME NEW x \in Said(answer), NEW y \in Said(answer) PROVE x = y \/ Before(x, y) \/ Before(y, x)
    <3>1. PICK a, b, c, d \in Nat : x = <<a, b>> /\ y = <<c, d>>
      BY <2>1
    <3>2. x[1] = a /\ x[2] = b /\ y[1] = c /\ y[2] = d
      BY <3>1
    <3>3. QED
      BY <3>1, <3>2 DEF Before
  <2>3. QED
    BY <2>2
<1>5. \A x, y \in Said(answer) : Before(x, y) => ~Before(y, x)
  <2>1. \A x \in Said(answer) : x[1] \in Nat /\ x[2] \in Nat
    <3>1. \A x \in Said(answer) : /\ x[1] \in 1..Len(answer.output)
                                  /\ x[2] \in 1..Len(answer.output[x[1]].content)
      BY <1>1, SaidIs
    <3>2. Len(answer.output) \in Nat /\ \A j \in 1..Len(answer.output) : Len(answer.output[j].content) \in Nat
      BY <1>1, ShapedIs, ProviderAssumption
    <3>3. QED
      BY <3>1, <3>2
  <2>2. QED
    BY <2>1 DEF Before
<1>6. Text(answer) = "ok" <=> answer.status = "completed" /\ s.error = "none" /\ s.text = "json"
  <2>1. s.error \in {"none", "AI_REFUSED", "AI_INVALID_OUTPUT"}
    BY <1>2 DEF Parsed, ParserStates
  <2>2. QED
    BY <1>1, <1>2, <2>1 DEF Outcome
<1>7. ASSUME s.error = "none", s.text = "json" PROVE sound /\ unrefused /\ \E x \in texts : Single(x)
  <2>1. sound /\ Fine(answer, Said(answer))
    BY <1>2, <1>3, <1>7 DEF Parsed
  <2>2. PICK x \in Said(answer) : Place(answer, x) = "json"
    BY <1>2, <1>7 DEF Parsed
  <2>3. x \in texts
    BY <2>2 DEF Texts
  <2>4. ASSUME NEW y \in Said(answer), y # x PROVE Place(answer, y) \notin Texts
    BY <1>4, <2>1, <2>2, <2>4 DEF Fine, Texts
  <2>5. ASSUME NEW y \in Said(answer), Place(answer, y) = "empty" PROVE Before(y, x)
    <3>1. y # x
      BY <2>2, <2>5
    <3>2. ~Before(x, y)
      BY <2>1, <2>2, <2>5 DEF Fine, Texts
    <3>3. QED
      BY <1>4, <3>1, <3>2
  <2>6. texts = {x}
    BY <2>3, <2>4
  <2>7. Single(x)
    BY <2>2, <2>5, <2>6
  <2>8. unrefused
    BY <2>1 DEF Fine
  <2>9. QED
    BY <2>1, <2>3, <2>7, <2>8
<1>8. ASSUME sound, unrefused, NEW x \in texts, Single(x) PROVE s.error = "none" /\ s.text = "json"
  <2>1. x \in Said(answer) /\ Place(answer, x) = "json"
    BY <1>8
  <2>2. \A y \in Said(answer) : Place(answer, y) \in Texts => y = x
    BY <1>8
  <2>3. \A y, z \in Said(answer) : Before(y, z) /\ Place(answer, y) \in Texts => Place(answer, z) \notin Texts \cup {"empty"}
    <3>1. ASSUME NEW y \in Said(answer), NEW z \in Said(answer), Before(y, z), Place(answer, y) \in Texts
          PROVE  Place(answer, z) \notin Texts \cup {"empty"}
      <4>1. y = x
        BY <2>2, <3>1
      <4>2. ~Before(z, x)
        BY <1>5, <3>1, <4>1
      <4>3. z # x
        BY <1>5, <3>1, <4>1
      <4>4. Place(answer, z) \notin Texts
        BY <2>2, <4>3
      <4>5. Place(answer, z) # "empty"
        BY <1>8, <4>2
      <4>6. QED
        BY <4>4, <4>5
    <3>2. QED
      BY <3>1
  <2>4. Fine(answer, Said(answer))
    BY <1>8, <2>3 DEF Fine
  <2>5. s.error = "none"
    BY <1>2, <1>3, <1>8, <2>4 DEF Parsed
  <2>6. s.text # "empty"
    BY <1>2, <2>1, <2>5 DEF Parsed, Texts
  <2>7. PICK y \in Said(answer) : Place(answer, y) = s.text
    BY <1>2, <2>5, <2>6 DEF Parsed
  <2>8. s.text \in Texts
    BY <1>2, <2>6 DEF Parsed, ParserStates, Texts
  <2>9. y = x
    BY <2>2, <2>7, <2>8
  <2>10. QED
    BY <2>1, <2>5, <2>7, <2>9
<1>9. Text(answer) = "ok" <=> answer.status = "completed" /\ sound /\ unrefused /\ \E x \in texts : Single(x)
  <2> HIDE DEF sound, unrefused, texts, Single
  <2>1. QED
    BY <1>6, <1>7, <1>8
<1>10. QED
  BY <1>9, Zenon DEF Place, Before

(***************************************************************************)
(* Whatever a provider answers, a lesson is made of one text: the property *)
(* as the run states it, of every behaviour.                               *)
(***************************************************************************)
THEOREM OneTextIsTaken == Spec => []TextIsOne
<1>1. TextIsOne
  BY AnswersHoldOneText DEF TextIsOne
<1>2. QED
  BY <1>1, PTL
=============================================================================
