-------------------------------- MODULE Review --------------------------------
(***************************************************************************)
(* The review session of one participant: a document per epoch of the quiz *)
(* that handlers read, change in memory and write back with a script that  *)
(* compares the whole document and the epoch (reviewCAS).  Between the     *)
(* read and the write come a round trip and, for starting and for hints, a *)
(* call of the AI provider, so that answers, advances, hints, duplicated   *)
(* requests, the expiry of the document and a reset of the quiz interleave *)
(* freely.                                                                 *)
(***************************************************************************)
EXTENDS Integers, Sequences, FiniteSets

CONSTANTS
  Missed,           \* how many questions were selected for review: 1 to 3, by question number
  Handlers,         \* concurrent requests
  MaxActionIds,     \* bound: clientActionIds in use at a time
  MaxCards,         \* cards of a session, reinforcement included (6)
  MaxIntents,       \* intents a document keeps (24)
  MaxTries,         \* attempts to write a document (6)
  MaxEpoch,         \* bound: resets of the quiz
  MaxBirths         \* bound: documents created

ASSUME ReviewAssumption ==
  /\ Missed \in 1..3 /\ MaxCards \in Nat /\ Missed <= MaxCards /\ 2 * MaxCards <= MaxIntents
  /\ MaxActionIds \in Nat /\ MaxIntents \in Nat /\ MaxTries \in Nat \ {0} /\ MaxEpoch \in Nat \ {0} /\ MaxBirths \in Nat

Stages == {"idle", "retrying", "writing", "generating"}
CardIds == (1..Missed) \X BOOLEAN           \* the second part marks the reinforcement of a card
Absent == [born |-> 0]                     \* no document under the key
Idle == [stage |-> "idle"]

Intents == 1..MaxActionIds                 \* clientActionIds, numbered as they come into use

\* "invalid" stands for an option of another question and for a skip with an option.
Requests ==
  [operation : {"answers"}, card : CardIds, choice : {"right", "wrong", "skip", "invalid"}, intent : Intents]
    \cup [operation : {"advance"}, card : CardIds, intent : Intents]
    \cup [operation : {"hint"}, card : CardIds]
    \cup [operation : {"start"}]

VARIABLES
  epoch,            \* epoch of the quiz room
  docs,             \* epoch -> the review document of that epoch, or Absent
  births,           \* documents created so far; a document's ExpiresAt tells it from an earlier one
  handler           \* Handler -> its request and what it has read

vars == <<epoch, docs, births, handler>>

Put(f, k, v) == [x \in DOMAIN f \cup {k} |-> IF x = k THEN v ELSE f[x]]

Completed(d) == d.cursor >= Len(d.cards)
IsCurrent(d, card) == ~Completed(d) /\ d.cards[d.cursor + 1] = card
Answered(d, card) == card \in DOMAIN d.responses

Init ==
  /\ epoch = 1
  /\ docs = [e \in 1..MaxEpoch |-> Absent]
  /\ births = 0
  /\ handler = [h \in Handlers |-> Idle]
-----------------------------------------------------------------------------
(* What the handlers make of the document they have read. *)

\* The response, and one more look at a missed card.
WithAnswer(d, r) ==
  LET response == [choice |-> r.choice, hinted |-> r.card \in d.hints] IN
  [d EXCEPT !.responses = Put(@, r.card, response),
            !.cards = IF r.choice = "wrong" /\ ~r.card[2] /\ Len(@) < MaxCards
                      THEN Append(@, <<r.card[1], TRUE>>) ELSE @]

WithAdvance(d) == [d EXCEPT !.cursor = @ + 1]

\* Mutation: an intent that was carried out before is carried out again.
ActsTwice(d, r) ==
  /\ Cardinality(d.intents) < MaxIntents
  /\ IsCurrent(d, r.card)
  /\ IF r.operation = "answers" THEN ~Answered(d, r.card) /\ r.choice # "invalid"
     ELSE Answered(d, r.card)

\* Mutation: a card need not be answered to be left behind.
ActsUnanswered(d, r) ==
  /\ r.intent \notin d.intents
  /\ Cardinality(d.intents) < MaxIntents
  /\ IsCurrent(d, r.card)
  /\ r.operation = "answers" => ~Answered(d, r.card) /\ r.choice # "invalid"

\* The requests ReviewAction goes on to write for; it returns early from all others.
Acts(d, r) ==
  /\ r.intent \notin d.intents
  /\ Cardinality(d.intents) < MaxIntents
  /\ IsCurrent(d, r.card)
  /\ IF r.operation = "answers" THEN ~Answered(d, r.card) /\ r.choice # "invalid"
     ELSE Answered(d, r.card)

Acted(d, r) ==
  [(IF r.operation = "answers" THEN WithAnswer(d, r) ELSE WithAdvance(d))
     EXCEPT !.intents = @ \cup {r.intent}, !.version = @ + 1]

Hintable(d, card) == IsCurrent(d, card) /\ ~Answered(d, card) /\ card \notin d.hints
Hinted(d, card) == [d EXCEPT !.hints = @ \cup {card}, !.version = @ + 1]

Fresh ==
  [born |-> births + 1, version |-> 1, cursor |-> 0,
   cards |-> [i \in 1..Missed |-> <<i, FALSE>>],
   responses |-> << >>, hints |-> {}, intents |-> {}]
-----------------------------------------------------------------------------
(* Handlers.  A request names the epoch its client knows, which gives the  *)
(* key of the document; Authorize refuses it once the quiz has another.    *)

Return(h) == handler' = [handler EXCEPT ![h] = Idle]
Goes(h, stage, r, before, tries) ==
  handler' = [handler EXCEPT ![h] = [stage |-> stage, request |-> r, epoch |-> epoch,
                                     before |-> before, tries |-> tries]]

\* A handler takes a request, or goes round again with its own.
Tries(h) == IF handler[h] = Idle THEN 0 ELSE handler[h].tries
Serves(h, r) ==
  \/ handler[h] = Idle
  \/ handler[h].stage = "retrying" /\ handler[h].request = r

Readable(h) == handler[h] = Idle \/ handler[h].epoch = epoch

\* StartReview: an existing session is returned, otherwise one is generated.
Start(h, r) ==
  /\ r.operation = "start" /\ handler[h] = Idle
  /\ docs[epoch] = Absent
  /\ Goes(h, "generating", r, Absent, 0)
  /\ UNCHANGED <<epoch, docs, births>>

\* The new document, generated or canonical, is written only if there still is none.
CreateSession(h) ==
  /\ handler[h].stage = "generating" /\ handler[h].request.operation = "start"
  /\ births < MaxBirths
  /\ IF Readable(h) /\ docs[epoch] = Absent
     THEN /\ docs' = [docs EXCEPT ![epoch] = Fresh]
          /\ births' = births + 1
     ELSE UNCHANGED <<docs, births>>
  /\ Return(h)
  /\ UNCHANGED epoch

\* ReviewAction reads, and returns early or prepares its write.
ReadForAction(h, r) ==
  LET d == docs[epoch] IN
  /\ r.operation \in {"answers", "advance"} /\ Serves(h, r)
  /\ IF Readable(h) /\ d # Absent /\ Acts(d, r)
     THEN Goes(h, "writing", r, d, Tries(h))
     ELSE Return(h)
  /\ UNCHANGED <<epoch, docs, births>>

\* ReviewHint reads once before it calls the provider.
ReadForHint(h, r) ==
  LET d == docs[epoch] IN
  /\ r.operation = "hint" /\ handler[h] = Idle
  /\ d # Absent /\ Hintable(d, r.card)
  /\ Goes(h, "generating", r, Absent, 0)
  /\ UNCHANGED <<epoch, docs, births>>

\* With the hint in hand it reads again before each attempt to write.
ReadForHintWrite(h) ==
  LET r == handler[h].request
      d == docs[epoch]
  IN
  /\ handler[h].stage \in {"generating", "retrying"} /\ r.operation = "hint"
  /\ IF Readable(h) /\ d # Absent /\ Hintable(d, r.card)
     THEN Goes(h, "writing", r, d, Tries(h))
     ELSE Return(h)
  /\ UNCHANGED <<epoch, docs, births>>

\* The provider or the artifact store fails: a hint and a session are not written.
GenerationFails(h) ==
  /\ handler[h].stage = "generating"
  /\ Return(h)
  /\ UNCHANGED <<epoch, docs, births>>

Changed(d, r) == IF r.operation = "hint" THEN Hinted(d, r.card) ELSE Acted(d, r)

\* Mutation: the script compares the epoch but not the document.
SwapsAnyDocument(h) == Readable(h) /\ docs[epoch] # Absent

\* reviewCAS
Swaps(h) == Readable(h) /\ docs[epoch] = handler[h].before

Write(h) ==
  /\ handler[h].stage = "writing" /\ Swaps(h)
  /\ docs' = [docs EXCEPT ![epoch] = Changed(handler[h].before, handler[h].request)]
  /\ Return(h)
  /\ UNCHANGED <<epoch, births>>

\* VERSION_CONFLICT is tried again from the read, a few times; EPOCH_MISMATCH is not.
Conflict(h) ==
  /\ handler[h].stage = "writing" /\ ~Swaps(h)
  /\ IF Readable(h) /\ handler[h].tries + 1 < MaxTries
     THEN Goes(h, "retrying", handler[h].request, Absent, handler[h].tries + 1)
     ELSE Return(h)
  /\ UNCHANGED <<epoch, docs, births>>

\* The document is kept for 24 hours (KEEPTTL: no write prolongs it).
Expire ==
  \E e \in 1..MaxEpoch :
    /\ docs[e] # Absent
    /\ docs' = [docs EXCEPT ![e] = Absent]
    /\ UNCHANGED <<epoch, births, handler>>

ResetQuiz ==
  /\ epoch < MaxEpoch
  /\ epoch' = epoch + 1
  /\ UNCHANGED <<docs, births, handler>>
-----------------------------------------------------------------------------
\* A client takes an id that is in use, or a new one: which new one makes no difference.
InUse ==
  UNION ({docs[e].intents : e \in {f \in 1..MaxEpoch : docs[f] # Absent}}
           \cup {{handler[h].request.intent} :
                  h \in {g \in Handlers : handler[g] # Idle /\ handler[g].request.operation \in {"answers", "advance"}}})
Offered ==
  LET known == InUse IN
  {r \in Requests : r.operation \in {"answers", "advance"} => 1..(r.intent - 1) \subseteq known}

Next ==
  \/ \E h \in Handlers, r \in Offered : Start(h, r) \/ ReadForAction(h, r) \/ ReadForHint(h, r)
  \/ \E h \in Handlers : ReadForHintWrite(h) \/ GenerationFails(h) \/ Write(h) \/ Conflict(h) \/ CreateSession(h)
  \/ Expire
  \/ ResetQuiz

Spec == Init /\ [][Next]_vars
-----------------------------------------------------------------------------
Live == {e \in 1..MaxEpoch : docs[e] # Absent}

\* A missed card comes back at most once, after it was answered wrong, and never
\* a card that was skipped or was itself a second look.
OneSecondLook ==
  \A e \in Live :
    LET d == docs[e] IN
    /\ \A i, j \in DOMAIN d.cards : d.cards[i] = d.cards[j] => i = j
    /\ \A i \in DOMAIN d.cards :
         d.cards[i][2] => LET first == <<d.cards[i][1], FALSE>> IN
                          /\ first \in DOMAIN d.responses
                          /\ d.responses[first].choice = "wrong"

\* The types of the documents and handlers.
TypeOK ==
  /\ epoch \in 1..MaxEpoch /\ births \in 0..MaxBirths
  /\ \A e \in Live :
       LET d == docs[e] IN
       /\ d.born \in 1..births /\ d.version \in Nat /\ d.cursor \in Nat
       /\ d.cards \in Seq(CardIds) /\ Len(d.cards) <= MaxCards /\ d.cursor <= Len(d.cards)
       /\ DOMAIN d.responses \subseteq CardIds /\ d.hints \subseteq CardIds
       /\ d.intents \subseteq Intents
  /\ \A h \in Handlers : handler[h].stage \in Stages

(***************************************************************************)
(* No update is lost and none is applied twice: the version counts the     *)
(* recorded intents and the hints, and the intents are the answers given   *)
(* and the cards left behind, whatever was retried or raced.  Hence a      *)
(* session that is not complete never runs out of intents.  The feedback   *)
(* says a hint was used exactly when the card has one: a hint that was     *)
(* still being generated when the card was answered is dropped.            *)
(***************************************************************************)
EveryChangeOnce ==
  TypeOK /\ \A e \in Live :
    LET d == docs[e] IN
    /\ d.version = 1 + Cardinality(d.intents) + Cardinality(d.hints)
    /\ Cardinality(d.intents) = Cardinality(DOMAIN d.responses) + d.cursor
    /\ ~Completed(d) => Cardinality(d.intents) < 2 * Len(d.cards)
    /\ \A card \in DOMAIN d.responses : d.responses[card].hinted <=> card \in d.hints
    /\ \A card \in d.hints : Answered(d, card) \/ IsCurrent(d, card)

(***************************************************************************)
(* Cards are answered in order: the answered cards are those before the    *)
(* cursor and possibly the one under it.  A card missed at first, and no   *)
(* other, comes back once.                                                 *)
(***************************************************************************)
AnsweredInOrder ==
  OneSecondLook /\ \A e \in Live :
    LET d == docs[e]
        before == {d.cards[i] : i \in 1..d.cursor}
    IN DOMAIN d.responses \in {before, before \cup {d.cards[i] : i \in 1..Len(d.cards) \cap {d.cursor + 1}}}

(***************************************************************************)
(* While a document lives, feedback once given, cards once dealt and       *)
(* hints once bought stay, and the cursor never moves back.  A session of  *)
(* an earlier epoch is never written again: it can only expire.            *)
(***************************************************************************)
SessionOnlyGrows ==
  [][\A e \in 1..MaxEpoch :
       LET d == docs[e]
           n == docs'[e]
       IN /\ e # epoch => n \in {d, Absent}
          /\ d # Absent /\ n # Absent /\ d # n =>
               /\ n.born = d.born /\ n.version = d.version + 1 /\ n.cursor \in d.cursor..(d.cursor + 1)
               /\ SubSeq(n.cards, 1, Len(d.cards)) = d.cards /\ d.hints \subseteq n.hints
               /\ \A card \in DOMAIN d.responses :
                    card \in DOMAIN n.responses /\ n.responses[card] = d.responses[card]]_vars
=============================================================================
