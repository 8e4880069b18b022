------------------------------ MODULE Provider ------------------------------
(***************************************************************************)
(* What the adapter makes of one HTTP answer of the AI provider.  The text *)
(* of a structured answer is put together from the parts of its messages;  *)
(* a part is named for what the adapter looks at: a refusal, an output     *)
(* text that holds JSON, something else or nothing, or a part of a type it *)
(* does not know.                                                          *)
(***************************************************************************)
EXTENDS Integers, Sequences, SequencesExt

CONSTANTS
  MaxItems,         \* bound: output items of an answer
  MaxParts          \* bound: parts of a message

ASSUME ProviderAssumption == MaxItems \in Nat /\ MaxParts \in Nat

Texts == {"json", "prose"}
Parts == {"refusal", "empty", "unknown"} \cup Texts

\* A message is sound when the assistant wrote and completed it; reasoning
\* and other items are skipped whatever they hold.
Items == [message : BOOLEAN, sound : BOOLEAN, content : BoundedSeq(Parts, MaxParts)]

Answers == [status : {"completed", "incomplete", "error"}, output : BoundedSeq(Items, MaxItems)]

\* The parser's state: the text found so far, and the error that ended it.
Start == [text |-> "empty", error |-> "none"]

Failed(s, code) == [s EXCEPT !.error = code]

\* Mutation: a later text takes the place of an earlier one.
PartLastWins(s, p) ==
  IF s.error # "none"                  THEN s
  ELSE IF p = "refusal"                THEN Failed(s, "AI_REFUSED")
  ELSE IF p \in Texts \cup {"empty"}   THEN [s EXCEPT !.text = p]
  ELSE s

Part(s, p) ==
  IF s.error # "none"                       THEN s
  ELSE IF p = "refusal"                     THEN Failed(s, "AI_REFUSED")
  ELSE IF p \notin Texts \cup {"empty"}     THEN s
  ELSE IF s.text # "empty"                  THEN Failed(s, "AI_INVALID_OUTPUT")
  ELSE [s EXCEPT !.text = p]

Item(s, i) ==
  IF s.error # "none" \/ ~i.message  THEN s
  ELSE IF ~i.sound                   THEN Failed(s, "AI_INVALID_OUTPUT")
  ELSE LET after[k \in 0..Len(i.content)] == IF k = 0 THEN s ELSE Part(after[k - 1], i.content[k])
       IN  after[Len(i.content)]

\* The text of an answer, or why there is none.
Text(answer) ==
  LET after[k \in 0..Len(answer.output)] ==
        IF k = 0 THEN Start ELSE Item(after[k - 1], answer.output[k])
      found == after[Len(answer.output)] IN
  IF answer.status = "error"            THEN "AI_UNAVAILABLE"
  ELSE IF answer.status = "incomplete"  THEN "AI_INCOMPLETE"
  ELSE IF found.error # "none"          THEN found.error
  ELSE IF found.text = "json"           THEN "ok"
  ELSE "AI_INVALID_OUTPUT"
-----------------------------------------------------------------------------
Said(answer) ==
  {x \in (1..MaxItems) \X (1..MaxParts) :
     /\ x[1] \in DOMAIN answer.output /\ answer.output[x[1]].message
     /\ x[2] \in DOMAIN answer.output[x[1]].content}

(***************************************************************************)
(* A lesson is made of one text only: the answer is accepted exactly when  *)
(* it is complete, every message is the assistant's own, none of them      *)
(* refuses, and their output texts hold one text, which is JSON.  (Empty   *)
(* texts may come before it and not after.)                                *)
(***************************************************************************)
OneTextOnly ==
  \A answer \in Answers :
    LET part(x) == answer.output[x[1]].content[x[2]]
        texts == {x \in Said(answer) : part(x) \in Texts}
    IN Text(answer) = "ok" <=>
         /\ answer.status = "completed"
         /\ \A i \in DOMAIN answer.output : answer.output[i].message => answer.output[i].sound
         /\ \A x \in Said(answer) : part(x) # "refusal"
         /\ \E x \in texts :
              /\ texts = {x} /\ part(x) = "json"
              /\ \A y \in Said(answer) :
                   part(y) = "empty" => y[1] < x[1] \/ (y[1] = x[1] /\ y[2] < x[2])
=============================================================================
