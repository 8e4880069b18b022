------------------------------ MODULE MCServing ------------------------------
(* Finite instances of Lessons and Limiter for TLC, in one run. *)
EXTENDS Lessons, Limiter

CONSTANTS h1, h2, alice, bob, a1, a2, x, y, z

Reports(h) == "id" \in DOMAIN handler[h]
Learns(h) == Lesson(h) /\ handler[h].action = a1 /\ handler[h].topic.kind = "explanation"
Busy == {h \in Requests : handler[h] # Idle}

\* One probe and what it finds; nobody gives up and no key is refused.
OneProbe(found) ==
  /\ version = 0 /\ (fresh => verdict = found)
  /\ probe = 0 \/ (probe = 1 /\ (fresh \/ prober # NoOne))
  /\ \A h \in Requests : ask[h].verdict # "CANCELLED"

(***************************************************************************)
(* Four scenarios of the lessons.  The key is probed, refused and probed   *)
(* again by requests that save nothing; two tabs use two action ids for    *)
(* two requests while the provider is down; two tabs ask for one lesson    *)
(* and keep being answered, with a reset and an expiry; one tab has made a *)
(* lesson that two participants report.                                    *)
(***************************************************************************)
Probing ==
  /\ intents = << >> /\ progress[alice] <= (IF epoch = 1 THEN 0 ELSE Out) /\ progress[bob] = Out
  /\ \A id \in Ids : made[id] <= 1
Intending ==
  /\ OneProbe("AI_UNAVAILABLE")
  /\ epoch = 1 /\ progress[bob] = Out
  /\ \A h \in Busy : Lesson(h) /\ ~Spoken(h)
Generating ==
  /\ OneProbe("ok")
  /\ progress[bob] = Out
  /\ \A h \in Busy : Learns(h)
  /\ \A e \in 1..epoch : (\E id \in Ids : id.epoch = e /\ made[id] > 0) => <<alice, e>> \in DOMAIN intents
Reporting ==
  /\ OneProbe("ok")
  /\ IF epoch = 1 THEN progress[bob] = 0 ELSE progress = [o \in Owners |-> Out]
  /\ \A id \in Ids : made[id] <= 1
  /\ handler[h2] = Idle \/ Reports(h2)
  /\ handler[h1] = Idle \/ Reports(h1) \/ (Learns(h1) /\ reports = [o \in Owners |-> {}] /\ handler[h2] = Idle)
  /\ Known # {} => intents # << >> /\ ~(Learns(h1) /\ handler[h1].stage \in {"intending", "looking", "generating"})
Within == Probing \/ Intending \/ Generating \/ Reporting

\* Or only the limiter works.
ServingInit == Init /\ LimiterInit
ServingNext ==
  \/ LimiterAtStart /\ Next /\ Within' /\ UNCHANGED limiterVars
  \/ LessonsAtStart /\ LimiterNext /\ UNCHANGED vars
ServingVars == <<vars, limiterVars>>

Serving ==
  /\ ServingInit /\ [][ServingNext]_ServingVars
  /\ \A h \in Requests :
       WF_ServingVars(Proceed(h) /\ UNCHANGED <<quiz, saved, made, handler, limiterVars>> /\ Within')
=============================================================================
