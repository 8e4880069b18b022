----------------------------- MODULE ReviewProofs -----------------------------
(***************************************************************************)
(* Proofs about the review sessions, for any number of handlers, client    *)
(* action ids, epochs and documents.  The invariant Sessions says that     *)
(* every document is Sound - a predicate of one document, kept by each     *)
(* kind of change - and that a handler about to write has read a document  *)
(* that allows its request.  As reviewCAS writes only over the document    *)
(* that was read, every write is then an allowed change of a sound one.    *)
(***************************************************************************)
EXTENDS Review, FiniteSetTheorems, TLAPS

(***************************************************************************)
(* Cards: a card and its second look.                                      *)
(***************************************************************************)
Second(card) == card[2]
First(card) == <<card[1], FALSE>>
Again(card) == <<card[1], TRUE>>

LEMMA CardsAre ==
  /\ \A q \in 1..Missed : <<q, FALSE>> \in CardIds /\ ~Second(<<q, FALSE>>)
  /\ \A card \in CardIds : /\ Again(card) \in CardIds /\ Second(Again(card))
                           /\ ~Second(card) => First(Again(card)) = card
<1>1. \A q \in 1..Missed : <<q, FALSE>> \in CardIds /\ ~Second(<<q, FALSE>>)
  BY DEF CardIds, Second
<1>2. ASSUME NEW card \in CardIds
      PROVE  /\ Again(card) \in CardIds /\ Second(Again(card))
             /\ ~Second(card) => First(Again(card)) = card
  <2>1. PICK q \in 1..Missed, b \in BOOLEAN : card = <<q, b>>
    BY DEF CardIds
  <2>2. Again(card) = <<q, TRUE>> /\ First(Again(card)) = <<q, FALSE>>
    BY <2>1 DEF Again, First
  <2>3. <<q, TRUE>> \in CardIds /\ Second(<<q, TRUE>>)
    BY DEF CardIds, Second
  <2>4. Second(card) <=> b
    BY <2>1 DEF Second
  <2>5. CASE b = TRUE
    BY <2>2, <2>3, <2>4, <2>5
  <2>6. CASE b = FALSE
    BY <2>1, <2>2, <2>3, <2>6
  <2>7. QED
    BY <2>1, <2>5, <2>6
<1>3. QED
  BY <1>1, <1>2

LEMMA RequestsAre ==
  ASSUME NEW r \in Requests
  PROVE  /\ r.operation \in {"answers", "advance", "hint", "start"}
         /\ r.operation \in {"answers", "advance", "hint"} => r.card \in CardIds
         /\ r.operation \in {"answers", "advance"} => r.intent \in Intents
         /\ r.operation = "answers" => r.choice \in {"right", "wrong", "skip", "invalid"}
  BY DEF Requests

LEMMA Limits ==
  /\ Missed \in Nat \ {0} /\ MaxCards \in Nat /\ Missed <= MaxCards
  /\ MaxTries \in Nat \ {0} /\ MaxEpoch \in Nat \ {0} /\ MaxBirths \in Nat
  BY ReviewAssumption
-----------------------------------------------------------------------------
(***************************************************************************)
(* Documents.                                                              *)
(***************************************************************************)
Feedback == [choice : {"right", "wrong", "skip", "invalid"}, hinted : BOOLEAN]
ResponseMaps == UNION {[S -> Feedback] : S \in SUBSET CardIds}
Docs == [born : Nat \ {0}, version : Nat, cursor : Nat, cards : Seq(CardIds),
         responses : ResponseMaps,
         hints : SUBSET CardIds, intents : SUBSET Intents]

LEMMA DocsArePresent == \A d \in Docs : d # Absent
  BY DEF Docs, Absent

LEMMA PutIs ==
  ASSUME NEW f, NEW k, NEW v
  PROVE  /\ DOMAIN Put(f, k, v) = DOMAIN f \cup {k}
         /\ Put(f, k, v)[k] = v
         /\ \A x \in DOMAIN f : x # k => Put(f, k, v)[x] = f[x]
  BY DEF Put

LEMMA PutType ==
  ASSUME NEW f \in ResponseMaps, NEW k \in CardIds, NEW v \in Feedback
  PROVE  Put(f, k, v) \in ResponseMaps
<1>1. PICK S \in SUBSET CardIds : f \in [S -> Feedback]
  BY DEF ResponseMaps
<1>2. Put(f, k, v) \in [S \cup {k} -> Feedback] /\ S \cup {k} \in SUBSET CardIds
  BY <1>1 DEF Put
<1>3. QED
  BY <1>2 DEF ResponseMaps

\* The document after an answer, an advance and a hint, field by field.
LEMMA AnswerIs ==
  ASSUME NEW d \in Docs, NEW r \in Requests, r.operation = "answers"
  PROVE  LET n == Acted(d, r) IN
         /\ n \in Docs
         /\ n.born = d.born /\ n.version = d.version + 1 /\ n.cursor = d.cursor
         /\ n.cards = IF r.choice = "wrong" /\ ~Second(r.card) /\ Len(d.cards) < MaxCards
                      THEN Append(d.cards, Again(r.card)) ELSE d.cards
         /\ n.responses = Put(d.responses, r.card, [choice |-> r.choice, hinted |-> r.card \in d.hints])
         /\ n.hints = d.hints /\ n.intents = d.intents \cup {r.intent}
<1> DEFINE response == [choice |-> r.choice, hinted |-> r.card \in d.hints]
           again == r.choice = "wrong" /\ ~Second(r.card) /\ Len(d.cards) < MaxCards
           cards == IF again THEN Append(d.cards, Again(r.card)) ELSE d.cards
           put == Put(d.responses, r.card, response)
           n == Acted(d, r)
<1>1. r.card \in CardIds /\ r.intent \in Intents /\ r.choice \in {"right", "wrong", "skip", "invalid"}
  BY RequestsAre
<1>2. response \in Feedback
  <2> DEFINE hinted == r.card \in d.hints
  <2>1. hinted \in BOOLEAN
    OBVIOUS
  <2> HIDE DEF hinted
  <2>2. [choice |-> r.choice, hinted |-> hinted] \in Feedback
    BY <1>1, <2>1 DEF Feedback
  <2>3. QED
    BY <2>2 DEF hinted
<1>3. /\ d.responses \in ResponseMaps /\ d.cards \in Seq(CardIds)
      /\ d.version \in Nat /\ d.intents \in SUBSET Intents
  BY DEF Docs
<1>4. put \in ResponseMaps
  BY <1>1, <1>2, <1>3, PutType
<1>5. cards \in Seq(CardIds)
  BY <1>1, <1>3, CardsAre
<1>6. n = [[d EXCEPT !.responses = put, !.cards = cards]
             EXCEPT !.intents = @ \cup {r.intent}, !.version = @ + 1]
  BY DEF Acted, WithAnswer, Second, Again
<1> HIDE DEF put, cards, n
<1>7. /\ n.born = d.born /\ n.version = d.version + 1 /\ n.cursor = d.cursor
      /\ n.cards = cards /\ n.responses = put /\ n.hints = d.hints
      /\ n.intents = d.intents \cup {r.intent}
  BY <1>6 DEF Docs
<1>8. n \in Docs
  <2>1. /\ n.born \in Nat \ {0} /\ n.version \in Nat /\ n.cursor \in Nat
        /\ n.hints \in SUBSET CardIds /\ n.intents \in SUBSET Intents
    BY <1>1, <1>3, <1>7 DEF Docs
  <2>2. n = [born |-> n.born, version |-> n.version, cursor |-> n.cursor, cards |-> n.cards,
             responses |-> n.responses, hints |-> n.hints, intents |-> n.intents]
    BY <1>6 DEF Docs
  <2>3. n.cards \in Seq(CardIds) /\ n.responses \in ResponseMaps
    BY <1>4, <1>5, <1>7
  <2>4. QED
    BY <2>1, <2>2, <2>3 DEF Docs
<1>9. QED
  BY <1>7, <1>8 DEF n, cards, put

LEMMA AdvanceIs ==
  ASSUME NEW d \in Docs, NEW r \in Requests, r.operation = "advance"
  PROVE  LET n == Acted(d, r) IN
         /\ n \in Docs
         /\ n.born = d.born /\ n.version = d.version + 1 /\ n.cursor = d.cursor + 1
         /\ n.cards = d.cards /\ n.responses = d.responses /\ n.hints = d.hints
         /\ n.intents = d.intents \cup {r.intent}
<1> DEFINE n == Acted(d, r)
<1>1. r.intent \in Intents
  BY RequestsAre
<1>2. n = [[d EXCEPT !.cursor = @ + 1] EXCEPT !.intents = @ \cup {r.intent}, !.version = @ + 1]
  BY DEF Acted, WithAdvance
<1> HIDE DEF n
<1>3. /\ n.born = d.born /\ n.version = d.version + 1 /\ n.cursor = d.cursor + 1
      /\ n.cards = d.cards /\ n.responses = d.responses /\ n.hints = d.hints
      /\ n.intents = d.intents \cup {r.intent}
  BY <1>2 DEF Docs
<1>4. n \in Docs
  <2>1. /\ n.born \in Nat \ {0} /\ n.version \in Nat /\ n.cursor \in Nat
        /\ n.hints \in SUBSET CardIds /\ n.intents \in SUBSET Intents
        /\ n.cards \in Seq(CardIds) /\ n.responses \in ResponseMaps
    BY <1>1, <1>3 DEF Docs
  <2>2. n = [born |-> n.born, version |-> n.version, cursor |-> n.cursor, cards |-> n.cards,
             responses |-> n.responses, hints |-> n.hints, intents |-> n.intents]
    BY <1>2 DEF Docs
  <2>3. QED
    BY <2>1, <2>2 DEF Docs
<1>5. QED
  BY <1>3, <1>4 DEF n

LEMMA HintIs ==
  ASSUME NEW d \in Docs, NEW card \in CardIds
  PROVE  LET n == Hinted(d, card) IN
         /\ n \in Docs
         /\ n.born = d.born /\ n.version = d.version + 1 /\ n.cursor = d.cursor
         /\ n.cards = d.cards /\ n.responses = d.responses /\ n.intents = d.intents
         /\ n.hints = d.hints \cup {card}
<1> DEFINE n == Hinted(d, card)
<1>1. card \in CardIds
  OBVIOUS
<1>2. n = [d EXCEPT !.hints = @ \cup {card}, !.version = @ + 1]
  BY DEF Hinted
<1> HIDE DEF n
<1>3. /\ n.born = d.born /\ n.version = d.version + 1 /\ n.cursor = d.cursor
      /\ n.cards = d.cards /\ n.responses = d.responses /\ n.intents = d.intents
      /\ n.hints = d.hints \cup {card}
  BY <1>2 DEF Docs
<1>4. n \in Docs
  <2>1. /\ n.born \in Nat \ {0} /\ n.version \in Nat /\ n.cursor \in Nat
        /\ n.hints \in SUBSET CardIds /\ n.intents \in SUBSET Intents
        /\ n.cards \in Seq(CardIds) /\ n.responses \in ResponseMaps
    BY <1>1, <1>3 DEF Docs
  <2>2. n = [born |-> n.born, version |-> n.version, cursor |-> n.cursor, cards |-> n.cards,
             responses |-> n.responses, hints |-> n.hints, intents |-> n.intents]
    BY <1>2 DEF Docs
  <2>3. QED
    BY <2>1, <2>2 DEF Docs
<1>5. QED
  BY <1>3, <1>4 DEF n

-----------------------------------------------------------------------------
(***************************************************************************)
(* What holds of every document.  Its cards differ, so that the set of the *)
(* cards left behind has as many members as the cursor has moved.          *)
(***************************************************************************)
Behind(d) == {d.cards[i] : i \in 1..d.cursor}
Under(d) == d.cards[d.cursor + 1]

Bounded(d) == Len(d.cards) <= MaxCards /\ d.cursor <= Len(d.cards)
Finite(d) ==
  /\ IsFiniteSet(d.intents) /\ IsFiniteSet(d.hints)
  /\ IsFiniteSet(DOMAIN d.responses) /\ IsFiniteSet(Behind(d))
AllDifferent(d) == \A i, j \in DOMAIN d.cards : d.cards[i] = d.cards[j] => i = j
SecondLooks(d) ==
  \A i \in DOMAIN d.cards :
    Second(d.cards[i]) => /\ First(d.cards[i]) \in DOMAIN d.responses
                          /\ d.responses[First(d.cards[i])].choice = "wrong"
InOrder(d) ==
  \/ DOMAIN d.responses = Behind(d)
  \/ ~Completed(d) /\ DOMAIN d.responses = Behind(d) \cup {Under(d)}
Counts(d) ==
  /\ d.version = 1 + Cardinality(d.intents) + Cardinality(d.hints)
  /\ Cardinality(d.intents) = Cardinality(DOMAIN d.responses) + d.cursor
  /\ Cardinality(Behind(d)) = d.cursor
HintsTold(d) ==
  /\ \A card \in DOMAIN d.responses : d.responses[card].hinted <=> card \in d.hints
  /\ \A card \in d.hints : Answered(d, card) \/ IsCurrent(d, card)
Sound(d) ==
  /\ Bounded(d) /\ Finite(d) /\ AllDifferent(d) /\ SecondLooks(d) /\ InOrder(d)
  /\ Counts(d) /\ HintsTold(d)

LEMMA DocIs ==
  ASSUME NEW d \in Docs
  PROVE  /\ d.cards \in Seq(CardIds) /\ Len(d.cards) \in Nat /\ DOMAIN d.cards = 1..Len(d.cards)
         /\ \A i \in DOMAIN d.cards : d.cards[i] \in CardIds
         /\ d.cursor \in Nat /\ d.version \in Nat /\ d.born \in Nat \ {0}
         /\ DOMAIN d.responses \subseteq CardIds /\ d.hints \subseteq CardIds
         /\ d.intents \subseteq Intents
<1>1. /\ d.cards \in Seq(CardIds) /\ d.cursor \in Nat /\ d.version \in Nat /\ d.born \in Nat \ {0}
      /\ d.hints \subseteq CardIds /\ d.intents \subseteq Intents /\ d.responses \in ResponseMaps
  BY DEF Docs
<1>2. DOMAIN d.responses \subseteq CardIds
  BY <1>1 DEF ResponseMaps
<1>3. Len(d.cards) \in Nat /\ DOMAIN d.cards = 1..Len(d.cards) /\ \A i \in DOMAIN d.cards : d.cards[i] \in CardIds
  BY <1>1
<1>4. QED
  BY <1>1, <1>2, <1>3

\* The card under the cursor is one not left behind.
LEMMA CurrentIs ==
  ASSUME NEW d \in Docs, NEW card, Sound(d), IsCurrent(d, card)
  PROVE  /\ d.cursor < Len(d.cards) /\ d.cursor + 1 \in DOMAIN d.cards
         /\ Under(d) = card /\ card \notin Behind(d)
<1>1. d.cursor < Len(d.cards) /\ d.cursor + 1 \in DOMAIN d.cards /\ d.cards[d.cursor + 1] = card
  BY DocIs DEF IsCurrent, Completed
<1>2. ASSUME NEW i \in 1..d.cursor PROVE d.cards[i] # card
  <2>1. i \in DOMAIN d.cards /\ i # d.cursor + 1
    BY <1>1, DocIs
  <2>2. QED
    BY <1>1, <2>1 DEF Sound, AllDifferent
<1>3. QED
  BY <1>1, <1>2 DEF Under, Behind

LEMMA AnswerSound ==
  ASSUME NEW d \in Docs, NEW r \in Requests, r.operation = "answers", Acts(d, r), Sound(d)
  PROVE  Sound(Acted(d, r))
<1> DEFINE n == Acted(d, r)
           c == r.card
           again == r.choice = "wrong" /\ ~Second(c) /\ Len(d.cards) < MaxCards
<1>1. /\ n \in Docs /\ n.version = d.version + 1 /\ n.cursor = d.cursor
      /\ n.cards = IF again THEN Append(d.cards, Again(c)) ELSE d.cards
      /\ n.responses = Put(d.responses, c, [choice |-> r.choice, hinted |-> c \in d.hints])
      /\ n.hints = d.hints /\ n.intents = d.intents \cup {r.intent}
  BY AnswerIs
<1>2. c \in CardIds
  BY RequestsAre
<1>3. IsCurrent(d, c) /\ c \notin DOMAIN d.responses /\ r.intent \notin d.intents
  BY DEF Acts, Answered
<1>4. /\ d.cursor < Len(d.cards) /\ d.cursor + 1 \in DOMAIN d.cards
      /\ Under(d) = c /\ c \notin Behind(d) /\ d.cards[d.cursor + 1] = c
  BY <1>3, CurrentIs DEF Under
<1>5. /\ DOMAIN n.responses = DOMAIN d.responses \cup {c}
      /\ n.responses[c].choice = r.choice /\ (n.responses[c].hinted <=> c \in d.hints)
      /\ \A x \in DOMAIN d.responses : n.responses[x] = d.responses[x]
  <2> DEFINE hinted == c \in d.hints
             v == [choice |-> r.choice, hinted |-> hinted]
  <2> HIDE DEF n
  <2>1. n.responses = Put(d.responses, c, v)
    BY <1>1, Zenon
  <2> HIDE DEF hinted
  <2>4. v.choice = r.choice /\ v.hinted = hinted
    OBVIOUS
  <2> HIDE DEF v
  <2>2. /\ DOMAIN n.responses = DOMAIN d.responses \cup {c} /\ n.responses[c] = v
        /\ \A x \in DOMAIN d.responses : x # c => n.responses[x] = d.responses[x]
    BY <2>1 DEF Put
  <2>3. QED
    BY <1>3, <2>2, <2>4 DEF hinted
<1> HIDE DEF n
<1>6. DOMAIN d.responses = Behind(d)
  BY <1>3, <1>4 DEF Sound, InOrder
<1>7. /\ Len(n.cards) >= Len(d.cards) /\ Len(n.cards) \in Nat /\ DOMAIN n.cards = 1..Len(n.cards)
      /\ \A i \in DOMAIN d.cards : i \in DOMAIN n.cards /\ n.cards[i] = d.cards[i]
      /\ \A i \in DOMAIN n.cards : i \in DOMAIN d.cards \/ (again /\ i = Len(d.cards) + 1 /\ n.cards[i] = Again(c))
  <2>1. CASE again
    <3>1. n.cards = Append(d.cards, Again(c))
      BY <1>1, <2>1
    <3>2. QED
      BY <2>1, <3>1, <1>2, CardsAre, DocIs
  <2>2. CASE ~again
    BY <1>1, <2>2, DocIs
  <2>3. QED
    BY <2>1, <2>2
<1>8. Bounded(n)
  <2>1. CASE again
    BY <1>1, <2>1, <1>7, <1>4, DocIs, Limits DEF Bounded, Sound
  <2>2. CASE ~again
    BY <1>1, <2>2 DEF Bounded, Sound
  <2>3. QED
    BY <2>1, <2>2
<1>9. Behind(n) = Behind(d)
  <2>1. \A i \in 1..d.cursor : i \in DOMAIN d.cards
    BY <1>4, DocIs
  <2>2. QED
    BY <1>1, <1>7, <2>1 DEF Behind
<1>10. Finite(n)
  <2>1. IsFiniteSet(d.intents) /\ IsFiniteSet(d.hints) /\ IsFiniteSet(DOMAIN d.responses) /\ IsFiniteSet(Behind(d))
    BY DEF Sound, Finite
  <2>2. IsFiniteSet(d.intents \cup {r.intent}) /\ IsFiniteSet(DOMAIN d.responses \cup {c})
    BY <2>1, FS_AddElement
  <2>3. QED
    BY <1>1, <1>5, <1>9, <2>1, <2>2 DEF Finite
<1>11. AllDifferent(n)
  <2>1. \A i \in DOMAIN d.cards : again => d.cards[i] # Again(c)
    <3>1. SUFFICES ASSUME NEW i \in DOMAIN d.cards, again, d.cards[i] = Again(c) PROVE FALSE
      OBVIOUS
    <3>2. Second(d.cards[i]) /\ First(d.cards[i]) = c
      BY <1>2, <3>1, CardsAre
    <3>3. QED
      BY <1>3, <3>2 DEF Sound, SecondLooks
  <2>2. QED
    BY <1>7, <2>1 DEF Sound, AllDifferent
<1>12. SecondLooks(n)
  <2>1. ASSUME NEW i \in DOMAIN n.cards, Second(n.cards[i])
        PROVE  /\ First(n.cards[i]) \in DOMAIN n.responses
               /\ n.responses[First(n.cards[i])].choice = "wrong"
    <3>1. CASE i \in DOMAIN d.cards
      <4>1. n.cards[i] = d.cards[i]
        BY <1>7, <3>1
      <4>2. First(d.cards[i]) \in DOMAIN d.responses /\ d.responses[First(d.cards[i])].choice = "wrong"
        BY <2>1, <3>1, <4>1 DEF Sound, SecondLooks
      <4>3. QED
        BY <1>5, <4>1, <4>2
    <3>2. CASE again /\ n.cards[i] = Again(c)
      <4>1. First(n.cards[i]) = c
        BY <1>2, <3>2, CardsAre
      <4>2. QED
        BY <1>5, <3>2, <4>1
    <3>3. QED
      BY <1>7, <3>1, <3>2
  <2>2. QED
    BY <2>1 DEF SecondLooks
<1>13. InOrder(n)
  <2>1. ~Completed(n)
    BY <1>1, <1>4, <1>7, DocIs DEF Completed
  <2>2. Under(n) = c
    BY <1>1, <1>4, <1>7 DEF Under
  <2>3. QED
    BY <1>5, <1>6, <1>9, <2>1, <2>2 DEF InOrder
<1>14. Counts(n)
  <2>1. IsFiniteSet(d.intents) /\ IsFiniteSet(DOMAIN d.responses) /\ IsFiniteSet(d.hints)
    BY DEF Sound, Finite
  <2>2. /\ Cardinality(n.intents) = Cardinality(d.intents) + 1
        /\ Cardinality(DOMAIN n.responses) = Cardinality(DOMAIN d.responses) + 1
    <3>1. Cardinality(d.intents \cup {r.intent}) = Cardinality(d.intents) + 1
      BY <1>3, <2>1, FS_AddElement
    <3>2. Cardinality(DOMAIN d.responses \cup {c}) = Cardinality(DOMAIN d.responses) + 1
      BY <1>3, <2>1, FS_AddElement
    <3>3. QED
      BY <1>1, <1>5, <3>1, <3>2
  <2>3. Cardinality(d.intents) \in Nat /\ Cardinality(DOMAIN d.responses) \in Nat /\ Cardinality(d.hints) \in Nat
    BY <2>1, FS_CardinalityType
  <2>4. QED
    BY <1>1, <1>9, <2>2, <2>3, DocIs DEF Sound, Counts
<1>15. HintsTold(n)
  <2>1. \A card \in DOMAIN n.responses : n.responses[card].hinted <=> card \in n.hints
    <3>1. n.responses[c].hinted <=> c \in n.hints
      BY <1>1, <1>5
    <3>2. \A card \in DOMAIN d.responses : d.responses[card].hinted <=> card \in d.hints
      BY DEF Sound, HintsTold
    <3>3. QED
      BY <1>1, <1>5, <3>1, <3>2
  <2>2. ASSUME NEW card \in n.hints PROVE Answered(n, card)
    <3>1. CASE card \in DOMAIN d.responses
      BY <1>5, <3>1 DEF Answered
    <3>2. CASE IsCurrent(d, card)
      <4>1. card = c
        BY <1>4, <3>2 DEF IsCurrent
      <4>2. QED
        BY <1>5, <4>1 DEF Answered
    <3>3. QED
      BY <1>1, <3>1, <3>2 DEF Sound, HintsTold, Answered
  <2>3. QED
    BY <2>1, <2>2 DEF HintsTold
<1>16. Sound(n)
  BY <1>8, <1>10, <1>11, <1>12, <1>13, <1>14, <1>15 DEF Sound
<1>17. QED
  BY <1>16 DEF n

LEMMA AdvanceSound ==
  ASSUME NEW d \in Docs, NEW r \in Requests, r.operation = "advance", Acts(d, r), Sound(d)
  PROVE  Sound(Acted(d, r))
<1> DEFINE n == Acted(d, r)
           c == r.card
<1>1. /\ n \in Docs /\ n.version = d.version + 1 /\ n.cursor = d.cursor + 1
      /\ n.cards = d.cards /\ n.responses = d.responses
      /\ n.hints = d.hints /\ n.intents = d.intents \cup {r.intent}
  BY AdvanceIs
<1>2. IsCurrent(d, c) /\ c \in DOMAIN d.responses /\ r.intent \notin d.intents
  BY DEF Acts, Answered
<1>3. /\ d.cursor < Len(d.cards) /\ d.cursor + 1 \in DOMAIN d.cards
      /\ Under(d) = c /\ c \notin Behind(d) /\ d.cards[d.cursor + 1] = c
  BY <1>2, CurrentIs DEF Under
<1> HIDE DEF n
<1>4. Behind(n) = Behind(d) \cup {c}
  <2>1. 1..(d.cursor + 1) = 1..d.cursor \cup {d.cursor + 1}
    BY DocIs
  <2>2. QED
    BY <1>1, <1>3, <2>1 DEF Behind
<1>5. DOMAIN d.responses = Behind(d) \cup {c}
  BY <1>2, <1>3 DEF Sound, InOrder
<1>6. Bounded(n)
  BY <1>1, <1>3, DocIs DEF Sound, Bounded
<1>7. Finite(n)
  <2>1. IsFiniteSet(d.intents) /\ IsFiniteSet(d.hints) /\ IsFiniteSet(DOMAIN d.responses) /\ IsFiniteSet(Behind(d))
    BY DEF Sound, Finite
  <2>2. IsFiniteSet(d.intents \cup {r.intent}) /\ IsFiniteSet(Behind(d) \cup {c})
    BY <2>1, FS_AddElement
  <2>3. QED
    BY <1>1, <1>4, <2>1, <2>2 DEF Finite
<1>8. AllDifferent(n) /\ SecondLooks(n)
  BY <1>1 DEF Sound, AllDifferent, SecondLooks
<1>9. InOrder(n)
  BY <1>1, <1>4, <1>5 DEF InOrder
<1>10. Counts(n)
  <2>1. IsFiniteSet(d.intents) /\ IsFiniteSet(DOMAIN d.responses) /\ IsFiniteSet(d.hints) /\ IsFiniteSet(Behind(d))
    BY DEF Sound, Finite
  <2>2. Cardinality(d.intents \cup {r.intent}) = Cardinality(d.intents) + 1
    BY <1>2, <2>1, FS_AddElement
  <2>3. Cardinality(Behind(d) \cup {c}) = Cardinality(Behind(d)) + 1
    BY <1>3, <2>1, FS_AddElement
  <2>4. Cardinality(d.intents) \in Nat /\ Cardinality(DOMAIN d.responses) \in Nat /\ Cardinality(d.hints) \in Nat
    BY <2>1, FS_CardinalityType
  <2>5. QED
    BY <1>1, <1>4, <2>2, <2>3, <2>4, DocIs DEF Sound, Counts
<1>11. HintsTold(n)
  <2>1. ASSUME NEW card \in d.hints PROVE card \in DOMAIN d.responses
    BY <1>2, <1>3, <2>1 DEF Sound, HintsTold, Answered, IsCurrent
  <2>2. QED
    BY <1>1, <2>1 DEF Sound, HintsTold, Answered
<1>12. Sound(n)
  BY <1>6, <1>7, <1>8, <1>9, <1>10, <1>11 DEF Sound
<1>13. QED
  BY <1>12 DEF n

LEMMA HintSound ==
  ASSUME NEW d \in Docs, NEW c \in CardIds, Hintable(d, c), Sound(d)
  PROVE  Sound(Hinted(d, c))
<1> DEFINE n == Hinted(d, c)
<1>1. /\ n \in Docs /\ n.version = d.version + 1 /\ n.cursor = d.cursor
      /\ n.cards = d.cards /\ n.responses = d.responses
      /\ n.intents = d.intents /\ n.hints = d.hints \cup {c}
  BY HintIs
<1>2. IsCurrent(d, c) /\ c \notin DOMAIN d.responses /\ c \notin d.hints
  BY DEF Hintable, Answered
<1> HIDE DEF n
<1>3. Behind(n) = Behind(d) /\ Under(n) = Under(d) /\ (Completed(n) <=> Completed(d))
  BY <1>1 DEF Behind, Under, Completed
<1>4. Bounded(n) /\ AllDifferent(n) /\ SecondLooks(n) /\ InOrder(n)
  BY <1>1, <1>3 DEF Sound, Bounded, AllDifferent, SecondLooks, InOrder
<1>5. IsFiniteSet(d.intents) /\ IsFiniteSet(d.hints) /\ IsFiniteSet(DOMAIN d.responses) /\ IsFiniteSet(Behind(d))
  BY DEF Sound, Finite
<1>6. IsFiniteSet(d.hints \cup {c}) /\ Cardinality(d.hints \cup {c}) = Cardinality(d.hints) + 1
  BY <1>2, <1>5, FS_AddElement
<1>7. Finite(n)
  BY <1>1, <1>3, <1>5, <1>6 DEF Finite
<1>8. Counts(n)
  <2>1. Cardinality(d.intents) \in Nat /\ Cardinality(d.hints) \in Nat
    BY <1>5, FS_CardinalityType
  <2>2. QED
    BY <1>1, <1>3, <1>6, <2>1, DocIs DEF Sound, Counts
<1>9. HintsTold(n)
  BY <1>1, <1>2 DEF Sound, HintsTold, Answered, IsCurrent, Completed
<1>10. Sound(n)
  BY <1>4, <1>7, <1>8, <1>9 DEF Sound
<1>11. QED
  BY <1>10 DEF n

\* A new document.
LEMMA FreshSound ==
  ASSUME births \in Nat
  PROVE  Fresh \in Docs /\ Sound(Fresh) /\ Fresh.born = births + 1
<1> DEFINE n == Fresh
           cards == [i \in 1..Missed |-> <<i, FALSE>>]
<1>1. /\ cards \in Seq(CardIds) /\ Len(cards) = Missed /\ DOMAIN cards = 1..Missed
      /\ \A i \in 1..Missed : cards[i] = <<i, FALSE>>
  <2> DEFINE first(i) == <<i, FALSE>>
  <2>1. \A i \in 1..Missed : first(i) \in CardIds
    BY CardsAre
  <2>2. cards = [i \in 1..Missed |-> first(i)]
    OBVIOUS
  <2> HIDE DEF first, cards
  <2>3. /\ cards \in Seq(CardIds) /\ Len(cards) = Missed /\ DOMAIN cards = 1..Missed
        /\ \A i \in 1..Missed : cards[i] = first(i)
    BY <2>1, <2>2, Limits
  <2>4. QED
    BY <2>3 DEF first
<1>2. << >> \in ResponseMaps /\ DOMAIN << >> = {}
  <2>1. << >> \in [{} -> Feedback]
    OBVIOUS
  <2>2. QED
    BY <2>1 DEF ResponseMaps
<1>3. n = [born |-> births + 1, version |-> 1, cursor |-> 0, cards |-> cards,
           responses |-> << >>, hints |-> {}, intents |-> {}]
  BY DEF Fresh
<1> HIDE DEF n, cards
<1>4. /\ n.born = births + 1 /\ n.version = 1 /\ n.cursor = 0 /\ n.cards = cards
      /\ n.responses = << >> /\ n.hints = {} /\ n.intents = {}
  BY <1>3
<1>5. n \in Docs
  BY <1>1, <1>2, <1>3 DEF Docs
<1>6. Behind(n) = {}
  BY <1>4 DEF Behind
<1>7. Bounded(n)
  BY <1>1, <1>4, Limits DEF Bounded
<1>8. Finite(n) /\ Counts(n)
  BY <1>2, <1>4, <1>6, FS_EmptySet DEF Finite, Counts
<1>9. AllDifferent(n)
  <2> DEFINE first(i) == <<i, FALSE>>
  <2>1. \A i \in 1..Missed : first(i)[1] = i /\ cards[i] = first(i)
    BY <1>1
  <2> HIDE DEF first
  <2>2. \A i, j \in 1..Missed : cards[i] = cards[j] => i = j
    BY <2>1
  <2>3. QED
    BY <1>1, <1>4, <2>2 DEF AllDifferent
<1>10. SecondLooks(n)
  BY <1>1, <1>4, CardsAre DEF SecondLooks
<1>11. InOrder(n) /\ HintsTold(n)
  BY <1>2, <1>4, <1>6 DEF InOrder, HintsTold
<1>12. Sound(n)
  BY <1>7, <1>8, <1>9, <1>10, <1>11 DEF Sound
<1>13. QED
  BY <1>4, <1>5, <1>12 DEF n

-----------------------------------------------------------------------------
(***************************************************************************)
(* The state: sound documents, and handlers about to write what the        *)
(* document they have read allows.                                         *)
(***************************************************************************)
Working == [stage : {"retrying", "writing", "generating"}, request : Requests, epoch : Nat,
            before : Docs \cup {Absent}, tries : Nat]
HandlersType == handler \in [Handlers -> Working \cup {Idle}]
StateType ==
  /\ epoch \in 1..MaxEpoch /\ births \in 0..MaxBirths
  /\ docs \in [1..MaxEpoch -> Docs \cup {Absent}]

Prepared(d, r) ==
  /\ d \in Docs /\ r \in Requests
  /\ \/ r.operation = "hint" /\ Hintable(d, r.card)
     \/ r.operation \in {"answers", "advance"} /\ Acts(d, r)
WritersPrepared ==
  \A h \in Handlers : handler[h].stage = "writing" => Prepared(handler[h].before, handler[h].request)
HandlersReady == HandlersType /\ WritersPrepared

DocsSound == \A e \in Live : Sound(docs[e]) /\ docs[e].born \in 1..births
Sessions == StateType /\ HandlersReady /\ DocsSound

LEMMA HandlerIs ==
  ASSUME HandlersType, NEW h \in Handlers
  PROVE  /\ handler[h].stage \in Stages
         /\ handler[h].stage # "idle" =>
              /\ handler[h] \in Working /\ handler[h].request \in Requests
              /\ handler[h].tries \in Nat /\ handler[h].epoch \in Nat
         /\ handler[h] = Idle <=> handler[h].stage = "idle"
<1>1. CASE handler[h] = Idle
  BY <1>1 DEF Idle, Stages
<1>2. CASE handler[h] \in Working
  BY <1>2 DEF Working, Stages, Idle
<1>3. QED
  BY <1>1, <1>2 DEF HandlersType

\* A handler that returns, and one that goes on.
LEMMA ReturnReady ==
  ASSUME HandlersReady, NEW h \in Handlers, Return(h)
  PROVE  HandlersReady'
<1>1. HandlersType'
  BY DEF HandlersReady, HandlersType, Return
<1>2. WritersPrepared'
  <2>1. handler'[h].stage = "idle" /\ \A g \in Handlers : g # h => handler'[g] = handler[g]
    BY DEF HandlersReady, HandlersType, Return, Idle
  <2>2. QED
    BY <2>1 DEF HandlersReady, WritersPrepared
<1>3. QED
  BY <1>1, <1>2 DEF HandlersReady

LEMMA GoesReady ==
  ASSUME HandlersReady, StateType, NEW h \in Handlers,
         NEW stage \in {"retrying", "writing", "generating"}, NEW r \in Requests,
         NEW d \in Docs \cup {Absent}, NEW n \in Nat,
         stage = "writing" => Prepared(d, r),
         Goes(h, stage, r, d, n)
  PROVE  HandlersReady'
<1> DEFINE w == [stage |-> stage, request |-> r, epoch |-> epoch, before |-> d, tries |-> n]
<1>1. epoch \in Nat
  BY Limits DEF StateType
<1>2. w \in Working /\ w.stage = stage /\ w.request = r /\ w.before = d
  BY <1>1 DEF Working
<1>3. handler' = [handler EXCEPT ![h] = w]
  BY DEF Goes
<1> HIDE DEF w
<1>4. HandlersType'
  BY <1>2, <1>3 DEF HandlersReady, HandlersType
<1>5. handler'[h] = w /\ \A g \in Handlers : g # h => handler'[g] = handler[g]
  BY <1>3 DEF HandlersReady, HandlersType
<1>6. WritersPrepared'
  BY <1>2, <1>5 DEF HandlersReady, WritersPrepared
<1>7. QED
  BY <1>4, <1>6 DEF HandlersReady

LEMMA TriesType ==
  ASSUME HandlersType, NEW h \in Handlers
  PROVE  Tries(h) \in Nat
  BY HandlerIs DEF Tries

LEMMA HandlersStep ==
  ASSUME StateType, HandlersReady, [Next]_vars
  PROVE  HandlersReady'
<1>1. HandlersType /\ docs[epoch] \in Docs \cup {Absent} /\ Absent \in Docs \cup {Absent} /\ 0 \in Nat
  BY DEF HandlersReady, StateType
<1>2. \A r \in Offered : r \in Requests
  BY DEF Offered
<1>3. ASSUME NEW h \in Handlers, NEW r \in Offered, Start(h, r) PROVE HandlersReady'
  BY <1>1, <1>2, <1>3, GoesReady DEF Start
<1>4. ASSUME NEW h \in Handlers, NEW r \in Offered, ReadForAction(h, r) PROVE HandlersReady'
  <2>1. CASE Return(h)
    BY <2>1, ReturnReady
  <2>2. CASE /\ docs[epoch] # Absent /\ Acts(docs[epoch], r)
             /\ Goes(h, "writing", r, docs[epoch], Tries(h))
    <3>1. Prepared(docs[epoch], r) /\ Tries(h) \in Nat
      BY <1>1, <1>2, <1>4, <2>2, TriesType DEF Prepared, ReadForAction
    <3>2. QED
      BY <1>1, <1>2, <2>2, <3>1, GoesReady
  <2>3. QED
    BY <1>4, <2>1, <2>2 DEF ReadForAction
<1>5. ASSUME NEW h \in Handlers, NEW r \in Offered, ReadForHint(h, r) PROVE HandlersReady'
  BY <1>1, <1>2, <1>5, GoesReady DEF ReadForHint
<1>6. ASSUME NEW h \in Handlers, ReadForHintWrite(h) PROVE HandlersReady'
  <2> DEFINE r == handler[h].request
  <2>1. CASE Return(h)
    BY <2>1, ReturnReady
  <2>2. CASE /\ docs[epoch] # Absent /\ Hintable(docs[epoch], r.card)
             /\ Goes(h, "writing", r, docs[epoch], Tries(h))
    <3>1. r \in Requests /\ Tries(h) \in Nat
      BY <1>1, <1>6, HandlerIs, TriesType DEF ReadForHintWrite
    <3>2. Prepared(docs[epoch], r)
      BY <1>1, <1>6, <2>2, <3>1 DEF Prepared, ReadForHintWrite
    <3>3. QED
      BY <1>1, <2>2, <3>1, <3>2, GoesReady
  <2>3. QED
    BY <1>6, <2>1, <2>2 DEF ReadForHintWrite
<1>7. ASSUME NEW h \in Handlers, GenerationFails(h) \/ Write(h) \/ CreateSession(h) PROVE HandlersReady'
  BY <1>7, ReturnReady DEF GenerationFails, Write, CreateSession
<1>8. ASSUME NEW h \in Handlers, Conflict(h) PROVE HandlersReady'
  <2>1. CASE Return(h)
    BY <2>1, ReturnReady
  <2>2. CASE Goes(h, "retrying", handler[h].request, Absent, handler[h].tries + 1)
    <3>1. handler[h].request \in Requests /\ handler[h].tries + 1 \in Nat
      BY <1>1, <1>8, HandlerIs DEF Conflict
    <3>2. QED
      BY <1>1, <2>2, <3>1, GoesReady
  <2>3. QED
    BY <1>8, <2>1, <2>2 DEF Conflict
<1>9. CASE Expire \/ ResetQuiz \/ UNCHANGED vars
  BY <1>9 DEF Expire, ResetQuiz, vars, HandlersReady, HandlersType, WritersPrepared
<1>10. QED
  BY <1>3, <1>4, <1>5, <1>6, <1>7, <1>8, <1>9 DEF Next

-----------------------------------------------------------------------------
(***************************************************************************)
(* What a step does to the documents: one prepared change of the current   *)
(* document, a new document where there was none, or documents go.         *)
(***************************************************************************)
Changes ==
  \E r \in Requests :
    /\ Prepared(docs[epoch], r)
    /\ docs' = [docs EXCEPT ![epoch] = Changed(docs[epoch], r)]
    /\ epoch' = epoch /\ births' = births
Creates ==
  /\ docs[epoch] = Absent /\ births < MaxBirths
  /\ docs' = [docs EXCEPT ![epoch] = Fresh]
  /\ epoch' = epoch /\ births' = births + 1
Keeps ==
  /\ docs' \in [1..MaxEpoch -> Docs \cup {Absent}]
  /\ \A e \in 1..MaxEpoch : docs'[e] \in {docs[e], Absent}
  /\ epoch' \in 1..MaxEpoch /\ births' = births

LEMMA DocsMove ==
  ASSUME Sessions, [Next]_vars
  PROVE  Changes \/ Creates \/ Keeps
<1>1. StateType /\ HandlersType /\ WritersPrepared
  BY DEF Sessions, HandlersReady
<1>2. CASE UNCHANGED <<epoch, docs, births>>
  BY <1>1, <1>2 DEF Keeps, StateType
<1>3. ASSUME NEW h \in Handlers, CreateSession(h) PROVE Changes \/ Creates \/ Keeps
  <2>1. CASE Readable(h) /\ docs[epoch] = Absent
    BY <1>3, <2>1 DEF CreateSession, Creates
  <2>2. CASE ~(Readable(h) /\ docs[epoch] = Absent)
    <3>1. UNCHANGED <<docs, births>> /\ UNCHANGED epoch
      BY <1>3, <2>2 DEF CreateSession
    <3>2. QED
      BY <1>2, <3>1
  <2>3. QED
    BY <2>1, <2>2
<1>4. ASSUME NEW h \in Handlers, Write(h) PROVE Changes
  <2>1. Prepared(handler[h].before, handler[h].request) /\ docs[epoch] = handler[h].before
    BY <1>1, <1>4 DEF Write, Swaps, WritersPrepared
  <2>2. handler[h].request \in Requests
    BY <2>1 DEF Prepared
  <2>3. QED
    BY <1>4, <2>1, <2>2 DEF Write, Changes
<1>5. CASE Expire
  <2>1. PICK e \in 1..MaxEpoch : docs' = [docs EXCEPT ![e] = Absent] /\ UNCHANGED <<epoch, births>>
    BY <1>5 DEF Expire
  <2>2. QED
    BY <1>1, <2>1 DEF Keeps, StateType
<1>6. CASE ResetQuiz
  BY <1>1, <1>6, Limits DEF ResetQuiz, Keeps, StateType
<1>7. CASE \/ \E h \in Handlers, r \in Offered : Start(h, r) \/ ReadForAction(h, r) \/ ReadForHint(h, r)
           \/ \E h \in Handlers : ReadForHintWrite(h) \/ GenerationFails(h) \/ Conflict(h)
           \/ UNCHANGED vars
  BY <1>2, <1>7 DEF Start, ReadForAction, ReadForHint, ReadForHintWrite, GenerationFails, Conflict, vars
<1>8. QED
  BY <1>3, <1>4, <1>5, <1>6, <1>7 DEF Next

\* A prepared change keeps the document sound and adds to it.
LEMMA ChangeIs ==
  ASSUME NEW d \in Docs, NEW r \in Requests, Prepared(d, r), Sound(d)
  PROVE  LET n == Changed(d, r) IN
         /\ n \in Docs /\ Sound(n)
         /\ n.born = d.born /\ n.version = d.version + 1 /\ n.cursor \in d.cursor..(d.cursor + 1)
         /\ SubSeq(n.cards, 1, Len(d.cards)) = d.cards /\ d.hints \subseteq n.hints
         /\ \A card \in DOMAIN d.responses :
              card \in DOMAIN n.responses /\ n.responses[card] = d.responses[card]
<1> DEFINE n == Changed(d, r)
<1>0. SubSeq(d.cards, 1, Len(d.cards)) = d.cards
  BY DocIs
<1>1. CASE r.operation = "hint" /\ Hintable(d, r.card)
  <2>1. n = Hinted(d, r.card) /\ r.card \in CardIds
    BY <1>1, RequestsAre DEF Changed
  <2>2. /\ n \in Docs /\ Sound(n)
        /\ n.born = d.born /\ n.version = d.version + 1 /\ n.cursor = d.cursor
        /\ n.cards = d.cards /\ n.responses = d.responses /\ n.hints = d.hints \cup {r.card}
    BY <1>1, <2>1, HintIs, HintSound
  <2>3. d.cursor \in d.cursor..(d.cursor + 1)
    BY DocIs
  <2> HIDE DEF n
  <2>4. QED
    BY <1>0, <2>2, <2>3 DEF n
<1>2. CASE r.operation = "advance" /\ Acts(d, r)
  <2>1. n = Acted(d, r)
    BY <1>2 DEF Changed
  <2>2. QED
    BY <1>0, <1>2, <2>1, AdvanceIs, AdvanceSound, DocIs
<1>3. CASE r.operation = "answers" /\ Acts(d, r)
  <2>1. n = Acted(d, r)
    BY <1>3 DEF Changed
  <2>2. /\ n \in Docs /\ Sound(n) /\ n.born = d.born /\ n.version = d.version + 1
        /\ n.cursor = d.cursor /\ n.hints = d.hints
    BY <1>3, <2>1, AnswerIs, AnswerSound
  <2>3. SubSeq(n.cards, 1, Len(d.cards)) = d.cards
    <3>1. n.cards = d.cards \/ n.cards = Append(d.cards, Again(r.card))
      BY <1>3, <2>1, AnswerIs
    <3>2. d.cards \in Seq(CardIds) /\ Again(r.card) \in CardIds
      BY <1>3, RequestsAre, CardsAre, DocIs
    <3>3. SubSeq(Append(d.cards, Again(r.card)), 1, Len(d.cards)) = d.cards
      BY <3>2
    <3>4. QED
      BY <1>0, <3>1, <3>3
  <2>4. ASSUME NEW card \in DOMAIN d.responses
        PROVE  card \in DOMAIN n.responses /\ n.responses[card] = d.responses[card]
    <3> DEFINE v == [choice |-> r.choice, hinted |-> r.card \in d.hints]
    <3>1. n.responses = Put(d.responses, r.card, v)
      BY <1>3, <2>1, AnswerIs
    <3> HIDE DEF v, n
    <3>2. r.card \notin DOMAIN d.responses
      BY <1>3 DEF Acts, Answered
    <3>3. QED
      BY <3>1, <3>2 DEF Put
  <2>5. QED
    BY <2>2, <2>3, <2>4, DocIs
<1>4. QED
  BY <1>1, <1>2, <1>3 DEF Prepared

-----------------------------------------------------------------------------
(***************************************************************************)
(* The theorems.                                                           *)
(***************************************************************************)
LEMMA SessionsInit == Init => Sessions
<1> SUFFICES ASSUME Init PROVE Sessions
  OBVIOUS
<1>1. /\ epoch = 1 /\ docs = [e \in 1..MaxEpoch |-> Absent] /\ births = 0
      /\ handler = [h \in Handlers |-> Idle]
  BY DEF Init
<1>2. StateType
  BY <1>1, Limits DEF StateType
<1>3. HandlersReady
  BY <1>1 DEF HandlersReady, HandlersType, WritersPrepared, Idle
<1>4. DocsSound
  BY <1>1 DEF DocsSound, Live
<1>5. QED
  BY <1>2, <1>3, <1>4 DEF Sessions

LEMMA SessionsStep == Sessions /\ [Next]_vars => Sessions'
<1> SUFFICES ASSUME Sessions, [Next]_vars PROVE Sessions'
  OBVIOUS
<1>1. HandlersReady'
  BY HandlersStep DEF Sessions
<1>2. StateType /\ DocsSound /\ births \in Nat
  BY Limits DEF Sessions, StateType
<1>3. epoch \in 1..MaxEpoch /\ docs \in [1..MaxEpoch -> Docs \cup {Absent}]
  BY <1>2 DEF StateType
<1>4. CASE Changes
  <2>1. PICK r \in Requests :
          /\ Prepared(docs[epoch], r)
          /\ docs' = [docs EXCEPT ![epoch] = Changed(docs[epoch], r)]
          /\ epoch' = epoch /\ births' = births
    BY <1>4 DEF Changes
  <2>2. docs[epoch] \in Docs /\ docs[epoch] # Absent
    BY <2>1, DocsArePresent DEF Prepared
  <2>3. Sound(docs[epoch]) /\ docs[epoch].born \in 1..births
    BY <1>2, <1>3, <2>2 DEF DocsSound, Live
  <2> DEFINE n == Changed(docs[epoch], r)
  <2>4. n \in Docs /\ Sound(n) /\ n.born = docs[epoch].born
    BY <2>1, <2>2, <2>3, ChangeIs
  <2> HIDE DEF n
  <2>5. docs'[epoch] = n /\ \A e \in 1..MaxEpoch : e # epoch => docs'[e] = docs[e]
    BY <1>3, <2>1 DEF n
  <2>6. StateType'
    BY <1>2, <1>3, <2>1, <2>4 DEF StateType, n
  <2>7. ASSUME NEW e \in 1..MaxEpoch, docs'[e] # Absent PROVE Sound(docs'[e]) /\ docs'[e].born \in 1..births'
    BY <1>2, <2>1, <2>3, <2>4, <2>5, <2>7 DEF DocsSound, Live
  <2>8. DocsSound'
    BY <2>7 DEF DocsSound, Live
  <2>9. QED
    BY <1>1, <2>6, <2>8 DEF Sessions
<1>5. CASE Creates
  <2>1. Fresh \in Docs /\ Sound(Fresh) /\ Fresh.born = births + 1
    BY <1>2, FreshSound
  <2> DEFINE n == Fresh
  <2> HIDE DEF n
  <2>2. /\ docs' = [docs EXCEPT ![epoch] = n] /\ epoch' = epoch /\ births' = births + 1
        /\ births < MaxBirths
    BY <1>5 DEF Creates, n
  <2>3. n \in Docs /\ Sound(n) /\ n.born = births + 1
    BY <2>1 DEF n
  <2>4. docs'[epoch] = n /\ \A e \in 1..MaxEpoch : e # epoch => docs'[e] = docs[e]
    BY <1>3, <2>2
  <2>5. StateType'
    BY <1>2, <1>3, <2>2, <2>3, Limits DEF StateType
  <2>6. ASSUME NEW e \in 1..MaxEpoch, docs'[e] # Absent PROVE Sound(docs'[e]) /\ docs'[e].born \in 1..births'
    <3>1. CASE e = epoch
      BY <1>2, <2>2, <2>3, <2>4, <3>1
    <3>2. CASE e # epoch
      <4>1. docs'[e] = docs[e] /\ Sound(docs[e]) /\ docs[e].born \in 1..births
        BY <1>2, <2>4, <2>6, <3>2 DEF DocsSound, Live
      <4>2. QED
        BY <1>2, <2>2, <4>1
    <3>3. QED
      BY <3>1, <3>2
  <2>7. DocsSound'
    BY <2>6 DEF DocsSound, Live
  <2>8. QED
    BY <1>1, <2>5, <2>7 DEF Sessions
<1>6. CASE Keeps
  <2>1. StateType'
    BY <1>2, <1>6 DEF StateType, Keeps
  <2>2. DocsSound'
    BY <1>2, <1>6 DEF DocsSound, Live, Keeps
  <2>3. QED
    BY <1>1, <2>1, <2>2 DEF Sessions
<1>7. QED
  BY <1>4, <1>5, <1>6, DocsMove

LEMMA SessionsAlways == Spec => []Sessions
  BY SessionsInit, SessionsStep, PTL DEF Spec

LEMMA LiveDocs ==
  ASSUME Sessions, NEW e \in Live
  PROVE  docs[e] \in Docs /\ Sound(docs[e]) /\ docs[e].born \in 1..births
  BY DEF Sessions, StateType, DocsSound, Live

LEMMA SessionsType == Sessions => TypeOK
<1> SUFFICES ASSUME Sessions PROVE TypeOK
  OBVIOUS
<1>1. epoch \in 1..MaxEpoch /\ births \in 0..MaxBirths
  BY DEF Sessions, StateType
<1>2. \A h \in Handlers : handler[h].stage \in Stages
  BY HandlerIs DEF Sessions, HandlersReady
<1>3. ASSUME NEW e \in Live
      PROVE  LET d == docs[e] IN
             /\ d.born \in 1..births /\ d.version \in Nat /\ d.cursor \in Nat
             /\ d.cards \in Seq(CardIds) /\ Len(d.cards) <= MaxCards /\ d.cursor <= Len(d.cards)
             /\ DOMAIN d.responses \subseteq CardIds /\ d.hints \subseteq CardIds
             /\ d.intents \subseteq Intents
  BY LiveDocs, DocIs DEF Sound, Bounded
<1>4. QED
  BY <1>1, <1>2, <1>3 DEF TypeOK

\* A session that is not complete has recorded fewer than two intents a card.
LEMMA RoomForIntents ==
  ASSUME NEW d \in Docs, Sound(d), ~Completed(d)
  PROVE  Cardinality(d.intents) < 2 * Len(d.cards)
<1>1. IsFiniteSet(Behind(d)) /\ Cardinality(Behind(d)) = d.cursor
      /\ Cardinality(d.intents) = Cardinality(DOMAIN d.responses) + d.cursor
  BY DEF Sound, Finite, Counts
<1>2. Cardinality(Behind(d) \cup {Under(d)}) \in {d.cursor, d.cursor + 1}
  BY <1>1, FS_AddElement
<1>3. Cardinality(DOMAIN d.responses) \in {d.cursor, d.cursor + 1}
  BY <1>1, <1>2 DEF Sound, InOrder
<1>4. d.cursor \in Nat /\ Len(d.cards) \in Nat /\ d.cursor < Len(d.cards)
  BY DocIs DEF Completed
<1>5. QED
  BY <1>1, <1>3, <1>4

(***************************************************************************)
(* Every change is recorded once.                                          *)
(***************************************************************************)
THEOREM ChangesCountOnce == Spec => []EveryChangeOnce
<1>1. ASSUME Sessions PROVE EveryChangeOnce
  <2>1. ASSUME NEW e \in Live
        PROVE  LET d == docs[e] IN
               /\ d.version = 1 + Cardinality(d.intents) + Cardinality(d.hints)
               /\ Cardinality(d.intents) = Cardinality(DOMAIN d.responses) + d.cursor
               /\ ~Completed(d) => Cardinality(d.intents) < 2 * Len(d.cards)
               /\ \A card \in DOMAIN d.responses : d.responses[card].hinted <=> card \in d.hints
               /\ \A card \in d.hints : Answered(d, card) \/ IsCurrent(d, card)
    <3>1. docs[e] \in Docs /\ Sound(docs[e])
      BY <1>1, LiveDocs
    <3>2. ~Completed(docs[e]) => Cardinality(docs[e].intents) < 2 * Len(docs[e].cards)
      BY <3>1, RoomForIntents
    <3>3. QED
      BY <3>1, <3>2 DEF Sound, Counts, HintsTold
  <2>2. QED
    BY <1>1, <2>1, SessionsType DEF EveryChangeOnce
<1>2. QED
  BY <1>1, SessionsAlways, PTL

(***************************************************************************)
(* Cards are answered in order, and only a missed card comes back.         *)
(***************************************************************************)
THEOREM CardsComeInOrder == Spec => []AnsweredInOrder
<1>1. ASSUME Sessions PROVE AnsweredInOrder
  <2>1. OneSecondLook
    <3>1. ASSUME NEW e \in Live, NEW i \in DOMAIN docs[e].cards, docs[e].cards[i][2]
          PROVE  /\ <<docs[e].cards[i][1], FALSE>> \in DOMAIN docs[e].responses
                 /\ docs[e].responses[<<docs[e].cards[i][1], FALSE>>].choice = "wrong"
      BY <1>1, <3>1, LiveDocs DEF Sound, SecondLooks, Second, First
    <3>2. \A e \in Live : \A i, j \in DOMAIN docs[e].cards :
            docs[e].cards[i] = docs[e].cards[j] => i = j
      BY <1>1, LiveDocs DEF Sound, AllDifferent
    <3>3. QED
      BY <3>1, <3>2 DEF OneSecondLook
  <2>2. ASSUME NEW e \in Live
        PROVE  LET d == docs[e]
                   before == {d.cards[i] : i \in 1..d.cursor}
               IN DOMAIN d.responses \in {before, before \cup {d.cards[i] : i \in 1..Len(d.cards) \cap {d.cursor + 1}}}
    <3> DEFINE d == docs[e]
    <3>1. d \in Docs /\ InOrder(d)
      BY <1>1, LiveDocs DEF Sound
    <3>2. CASE DOMAIN d.responses = Behind(d)
      BY <3>2 DEF Behind
    <3>3. CASE ~Completed(d) /\ DOMAIN d.responses = Behind(d) \cup {Under(d)}
      <4>1. d.cursor + 1 \in 1..Len(d.cards)
        BY <3>1, <3>3, DocIs DEF Completed
      <4>2. {d.cards[i] : i \in 1..Len(d.cards) \cap {d.cursor + 1}} = {Under(d)}
        BY <4>1 DEF Under
      <4>3. QED
        BY <3>3, <4>2 DEF Behind
    <3>4. QED
      BY <3>1, <3>2, <3>3 DEF InOrder
  <2>3. QED
    BY <2>1, <2>2 DEF AnsweredInOrder
<1>2. QED
  BY <1>1, SessionsAlways, PTL

(***************************************************************************)
(* A session only grows, and one of an earlier epoch only expires.         *)
(***************************************************************************)
Grows(d, n) ==
  /\ n.born = d.born /\ n.version = d.version + 1 /\ n.cursor \in d.cursor..(d.cursor + 1)
  /\ SubSeq(n.cards, 1, Len(d.cards)) = d.cards /\ d.hints \subseteq n.hints
  /\ \A card \in DOMAIN d.responses :
       card \in DOMAIN n.responses /\ n.responses[card] = d.responses[card]
OnlyGrows ==
  \A e \in 1..MaxEpoch :
    /\ e # epoch => docs'[e] \in {docs[e], Absent}
    /\ docs[e] # Absent /\ docs'[e] # Absent /\ docs[e] # docs'[e] => Grows(docs[e], docs'[e])

LEMMA StepGrows == Sessions /\ [Next]_vars => OnlyGrows
<1> SUFFICES ASSUME Sessions, [Next]_vars PROVE OnlyGrows
  OBVIOUS
<1>1. epoch \in 1..MaxEpoch /\ docs \in [1..MaxEpoch -> Docs \cup {Absent}]
  BY DEF Sessions, StateType
<1>2. CASE Changes
  <2>1. PICK r \in Requests :
          /\ Prepared(docs[epoch], r)
          /\ docs' = [docs EXCEPT ![epoch] = Changed(docs[epoch], r)]
    BY <1>2 DEF Changes
  <2>2. docs[epoch] \in Docs /\ docs[epoch] # Absent
    BY <2>1, DocsArePresent DEF Prepared
  <2>3. Sound(docs[epoch])
    BY <1>1, <2>2 DEF Sessions, DocsSound, Live
  <2>4. Grows(docs[epoch], Changed(docs[epoch], r))
    BY <2>1, <2>2, <2>3, ChangeIs DEF Grows
  <2>5. docs'[epoch] = Changed(docs[epoch], r) /\ \A e \in 1..MaxEpoch : e # epoch => docs'[e] = docs[e]
    BY <1>1, <2>1
  <2>6. QED
    BY <2>4, <2>5 DEF OnlyGrows
<1>3. CASE Creates
  <2>1. docs[epoch] = Absent /\ \A e \in 1..MaxEpoch : e # epoch => docs'[e] = docs[e]
    BY <1>1, <1>3 DEF Creates
  <2>2. QED
    BY <2>1 DEF OnlyGrows
<1>4. CASE Keeps
  BY <1>4 DEF Keeps, OnlyGrows
<1>5. QED
  BY <1>2, <1>3, <1>4, DocsMove

THEOREM SessionsOnlyGrow == Spec => SessionOnlyGrows
<1>1. ASSUME Sessions, [Next]_vars
      PROVE  \A e \in 1..MaxEpoch :
               LET d == docs[e]
                   n == docs'[e]
               IN /\ e # epoch => n \in {d, Absent}
                  /\ d # Absent /\ n # Absent /\ d # n =>
                       /\ n.born = d.born /\ n.version = d.version + 1 /\ n.cursor \in d.cursor..(d.cursor + 1)
                       /\ SubSeq(n.cards, 1, Len(d.cards)) = d.cards /\ d.hints \subseteq n.hints
                       /\ \A card \in DOMAIN d.responses :
                            card \in DOMAIN n.responses /\ n.responses[card] = d.responses[card]
  BY <1>1, StepGrows DEF OnlyGrows, Grows
<1>2. QED
  BY <1>1, SessionsAlways, PTL DEF Spec, SessionOnlyGrows
===============================================================================
