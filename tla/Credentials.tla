---------------------------- MODULE Credentials ----------------------------
(***************************************************************************)
(* Whether the provider accepts the configured key: one verdict for the    *)
(* whole process, kept for a while, and one probe at a time to renew it.   *)
(* A request that needs the provider first asks for the verdict.  An       *)
(* action is one hold of credentialCheck.mu; the probe itself runs         *)
(* outside, under the context of the request that happened to start it.    *)
(***************************************************************************)
EXTENDS Integers

CONSTANTS
  Requests,         \* handlers that need the provider
  NoOne,
  MaxProbes,        \* bound: probes ever started
  MaxRejections     \* bound: generations the provider answers with 401

ASSUME CredentialsAssumption == NoOne \notin Requests

Verdicts == {"ok", "AI_UNAVAILABLE", "AI_CREDENTIALS_INVALID"}

VARIABLES
  verdict, fresh,   \* credentialCheck.err, and now < expires
  version,          \* rejections so far
  probe,            \* probes started so far: the number of the latest wait channel
  prober,           \* the request whose probe is under way (wait # nil)
  ask               \* Request -> [stage, on, verdict]: where it is in ValidateCredentials

check == <<verdict, fresh, version, probe, prober>>
credentialVars == <<check, ask>>

Doing(stage, on) == [stage |-> stage, on |-> on, verdict |-> "none"]
NotAsking == Doing("none", 0)
Asking == Doing("asking", 0)
Told(v) == [stage |-> "told", on |-> 0, verdict |-> v]

CredentialsInit ==
  /\ verdict = "ok" /\ fresh = FALSE
  /\ version = 0 /\ probe = 0 /\ prober = NoOne
  /\ ask = [r \in Requests |-> NotAsking]

IsFresh(r) ==
  /\ ask[r].stage = "asking" /\ fresh
  /\ ask' = [ask EXCEPT ![r] = Told(verdict)]
  /\ UNCHANGED check

WaitForProbe(r) ==
  /\ ask[r].stage = "asking" /\ ~fresh /\ prober # NoOne
  /\ ask' = [ask EXCEPT ![r] = Doing("waiting", probe)]
  /\ UNCHANGED check

\* The version is remembered: what the probe finds counts only while it stands.
StartProbe(r) ==
  /\ ask[r].stage = "asking" /\ ~fresh /\ prober = NoOne
  /\ prober' = r /\ probe' = probe + 1
  /\ ask' = [ask EXCEPT ![r] = Doing("probing", version)]
  /\ UNCHANGED <<verdict, fresh, version>>

\* The wait channel is closed when its probe ends.
Wake(r) ==
  /\ ask[r].stage = "waiting" /\ (prober = NoOne \/ probe # ask[r].on)
  /\ ask' = [ask EXCEPT ![r] = Asking]
  /\ UNCHANGED check

\* A waiter's own context ends.
StopWaiting(r) ==
  /\ ask[r].stage = "waiting"
  /\ ask' = [ask EXCEPT ![r] = Told("CANCELLED")]
  /\ UNCHANGED check

\* Mutation: what the probe found is stored whatever happened meanwhile.
EndProbeBlindly(r, found) ==
  /\ ask[r].stage = "probing"
  /\ verdict' = found /\ fresh' = TRUE /\ prober' = NoOne
  /\ ask' = [ask EXCEPT ![r] = Told(found)]
  /\ UNCHANGED <<version, probe>>

\* Mutation: a probe that was cut off leaves without closing the channel.
EndProbeOnResult(r, found) ==
  /\ ask[r].stage = "probing"
  /\ IF ask[r].on = version /\ found # "AI_UNAVAILABLE"
     THEN verdict' = found /\ fresh' = TRUE ELSE UNCHANGED <<verdict, fresh>>
  /\ prober' = IF found = "AI_UNAVAILABLE" THEN prober ELSE NoOne
  /\ ask' = [ask EXCEPT ![r] = Told(found)]
  /\ UNCHANGED <<version, probe>>

\* The probe answers, fails, or ends with the context of the request that runs
\* it, which is AI_UNAVAILABLE too.  The prober returns the verdict that stands.
EndProbe(r, found) ==
  /\ ask[r].stage = "probing"
  /\ IF ask[r].on = version THEN verdict' = found /\ fresh' = TRUE ELSE UNCHANGED <<verdict, fresh>>
  /\ prober' = NoOne
  /\ ask' = [ask EXCEPT ![r] = Told(verdict')]
  /\ UNCHANGED <<version, probe>>

\* A generation was answered with 401.
RejectCredentials ==
  /\ version < MaxRejections
  /\ version' = version + 1
  /\ verdict' = "AI_CREDENTIALS_INVALID" /\ fresh' = TRUE
  /\ UNCHANGED <<probe, prober>>

\* 15 seconds, one minute or five minutes pass.
VerdictExpires ==
  /\ fresh /\ probe < MaxProbes
  /\ fresh' = FALSE
  /\ UNCHANGED <<verdict, version, probe, prober, ask>>

\* What a request does by itself, or the provider within two seconds.
Proceed(r) ==
  \/ IsFresh(r) \/ WaitForProbe(r) \/ StartProbe(r) \/ Wake(r)
  \/ \E found \in Verdicts : EndProbe(r, found)

Validate(r) == Proceed(r) \/ StopWaiting(r)
-----------------------------------------------------------------------------
(***************************************************************************)
(* A verdict stands until it expires: only a rejection replaces it, so     *)
(* the answer of a probe that was under way when the provider refused the  *)
(* key cannot declare the key good again.                                  *)
(***************************************************************************)
FreshVerdictStands ==
  [][fresh /\ fresh' /\ verdict' # verdict =>
       version' > version /\ verdict' = "AI_CREDENTIALS_INVALID"]_credentialVars

(***************************************************************************)
(* Every request is told a verdict without giving up, also when the one    *)
(* that runs the probe for it goes away or the provider does not answer.   *)
(***************************************************************************)
EveryRequestTold ==
  \A r \in Requests : ask[r].stage # "none" ~> ask[r].stage \in {"told", "none"}
=============================================================================
