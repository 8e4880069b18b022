------------------------------ MODULE RoomProofs ------------------------------
(***************************************************************************)
(* Theorems about Room, for every value of its constants.  TypeOK is       *)
(* inductive thanks to the preflight every script repeats; the other       *)
(* invariants are proved relative to it and to one another:                *)
(*   Consistent  the keys agree with each other and with the rules, which  *)
(*               is all that the preflight and the snapshot ask for;       *)
(*   Counted     the version counts players and receipts;                  *)
(*   Dated, Chained   a player's receipts follow one another, each adding  *)
(*               its points to the total of the one before.                *)
(* Seen from its seven keys a step restarts the room, upgrades it, joins,  *)
(* starts, answers, or leaves them alone (Kinds); the refinement of Quiz   *)
(* goes through the same kinds.                                            *)
(* The last two sections are about AttemptPlan: shuffles of any number of  *)
(* items are fair, what they draw is accepted, and ranks are exact.        *)
(***************************************************************************)
EXTENDS Room, FiniteSetTheorems, WellFoundedInduction, TLAPS

LEMMA NType == IsFiniteSet(Questions) /\ N \in 1..8 /\ N \in Nat
  BY RoomAssumption

LEMMA CapacityType == Capacities \subseteq 1..200
  BY RoomAssumption

LEMMA DurationType == Duration \in Nat \ {0}
  BY RoomAssumption

\* Put sets one field and keeps the others.
LEMMA PutType ==
  ASSUME NEW f, NEW D, NEW S, NEW k, NEW v,
         f \in [DOMAIN f -> S], DOMAIN f \subseteq D, k \in D, v \in S
  PROVE  /\ Put(f, k, v) \in [DOMAIN Put(f, k, v) -> S]
         /\ DOMAIN Put(f, k, v) \subseteq D
  BY DEF Put

\* A non-empty set of naturals has a least element.
LEMMA LeastUnder ==
  ASSUME NEW R, IsWellFoundedOn(R, Nat),
         \A x, y \in Nat : y < x => <<y, x>> \in R,
         NEW T, T \subseteq Nat, T # {}
  PROVE  \E x \in T : \A y \in T : x <= y
<1>1. PICK x \in T : \A y \in T : ~ (<<y, x>> \in R)
  BY WFMin, Zenon
<1>2. ASSUME NEW y \in T PROVE x <= y
  <2>1. x \in Nat /\ y \in Nat
    OBVIOUS
  <2>2. ~ (<<y, x>> \in R)
    BY <1>1, Zenon
  <2>3. ~ (y < x)
    BY <2>1, <2>2, Zenon
  <2>4. QED
    BY <2>1, <2>3
<1>3. QED
  BY <1>2

LEMMA LeastNatural ==
  ASSUME NEW T, T \subseteq Nat, T # {}
  PROVE  \E x \in T : \A y \in T : x <= y
<1>1. \A x, y \in Nat : y < x => <<y, x>> \in OpToRel(<, Nat)
  BY DEF OpToRel
<1>2. QED
  BY NatLessThanWellFounded, LeastUnder, <1>1, Zenon

\* The cursor exists: the first open position, or N when every question is done.
LEMMA CursorIs ==
  ASSUME NEW order, NEW done
  PROVE  /\ Cursor(order, done) \in 0..N
         /\ \A i \in 1..Cursor(order, done) : order[i] \in done
         /\ Cursor(order, done) < N => order[Cursor(order, done) + 1] \notin done
<1> DEFINE open == {c \in 0..N : c = N \/ order[c + 1] \notin done}
<1>1. N \in open /\ open \subseteq Nat
  BY NType
<1>2. PICK c \in open : \A d \in open : c <= d
  BY <1>1, LeastNatural
<1>3. \A i \in 1..c : order[i] \in done
  <2> SUFFICES ASSUME NEW i \in 1..c, order[i] \notin done
               PROVE  FALSE
    OBVIOUS
  <2>1. i - 1 \in 0..N /\ (i - 1) + 1 = i
    BY <1>2, NType
  <2>2. i - 1 \in open
    BY <2>1
  <2>3. QED
    BY <1>2, <2>2, NType
<1>4. /\ c \in 0..N /\ \A i \in 1..c : order[i] \in done
      /\ c < N => order[c + 1] \notin done
  BY <1>2, <1>3, NType
<1>5. QED
  BY <1>4 DEF Cursor

LEMMA CursorType ==
  ASSUME NEW order, NEW done
  PROVE  Cursor(order, done) \in 0..N
  BY CursorIs

\* What an accepted reply says about the state it was given in.
LEMMA JoinAccepted ==
  ASSUME NEW p, NEW by, JoinReply(p, TRUE, by) = "accepted"
  PROVE  /\ RoomExists /\ Preflight(p)
         /\ p \notin DOMAIN participants /\ ~(Size >= capacity) /\ by = content
  BY DEF JoinReply

LEMMA StartAccepted ==
  ASSUME NEW p, NEW e, NEW q, StartReply(p, e, q) = "started"
  PROVE  /\ RoomExists /\ Preflight(p) /\ e = epoch
         /\ p \in DOMAIN participants
         /\ <<p, q>> \notin DOMAIN timers /\ <<p, q>> \notin DOMAIN answers
  BY DEF StartReply

LEMMA AnswerAccepted ==
  ASSUME NEW p, NEW e, NEW rid, NEW q, NEW o, NEW by,
         AnswerReply(p, e, rid, q, o, by).code = "accepted"
  PROVE  /\ RoomExists /\ Preflight(p) /\ e = epoch
         /\ p \in DOMAIN participants
         /\ <<p, rid>> \notin DOMAIN requests /\ <<p, q>> \notin DOMAIN answers
<1>1. CASE <<p, rid>> \in DOMAIN requests
  BY <1>1 DEF AnswerReply, Refused
<1>2. CASE <<p, rid>> \notin DOMAIN requests
  BY <1>2 DEF AnswerReply, Refused
<1>3. QED
  BY <1>1, <1>2

-----------------------------------------------------------------------------
LEMMA EmptyType ==
  ASSUME NEW S, NEW D
  PROVE  Empty \in [DOMAIN Empty -> S] /\ DOMAIN Empty = {} /\ DOMAIN Empty \subseteq D
  BY DEF Empty

LEMMA InitType == Init => TypeOK
<1> SUFFICES ASSUME Init PROVE TypeOK
  OBVIOUS
<1>1. epoch \in Nat /\ version \in Nat /\ now \in Nat \ {0}
  BY DEF Init
<1>2. draft \in [Callers -> Drafts \cup {NoOne}] /\ capacity \in 0..200 /\ content \in Programs
  BY DEF Init, Programs
<1>3. QED
  BY <1>1, <1>2, EmptyType DEF Init, TypeOK

\* An accepted answer finds room in the counters: the question was open.
LEMMA CountType ==
  ASSUME TypeOK, NEW p \in DOMAIN participants, NEW q \in Questions,
         Preflight(p), <<p, q>> \notin DOMAIN answers
  PROVE  participants[p].count + 1 \in 0..N
<1>1. Answered(p) \subseteq Questions /\ q \notin Answered(p)
  BY DEF Answered
<1>2. IsFiniteSet(Answered(p))
  BY <1>1, NType, FS_Subset
<1>3. Cardinality(Answered(p) \cup {q}) = Cardinality(Answered(p)) + 1
  BY <1>1, <1>2, FS_AddElement
<1>4. Cardinality(Answered(p) \cup {q}) <= N
  BY <1>1, NType, FS_Subset DEF N
<1>5. Cardinality(Answered(p)) \in Nat
  BY <1>2, FS_CardinalityType
<1>6. participants[p].count = Cardinality(Answered(p))
  BY DEF Preflight, MemberPreflight, ValidMember
<1>7. QED
  BY <1>3, <1>4, <1>5, <1>6, NType

LEMMA NewReceiptType ==
  ASSUME TypeOK, NEW p \in DOMAIN participants, p \in DOMAIN scores,
         NEW rid \in Submissions, NEW q \in Questions, NEW o \in Options
  PROVE  /\ NewReceipt(p, rid, q, o) \in Receipt
         /\ NewReceipt(p, rid, q, o).total \in Nat
<1>1. Points(p, q, o) \in {0, 50, 100}
  BY DEF Points
<1>2. TimedOut(p, q) \in BOOLEAN
  <2>1. CASE <<p, q>> \in DOMAIN timers
    <3>1. TimedOut(p, q) <=> now >= timers[<<p, q>>]
      BY <2>1 DEF TimedOut
    <3>2. TimedOut(p, q) = (now >= timers[<<p, q>>])
      BY <2>1, Zenon DEF TimedOut
    <3>3. (now >= timers[<<p, q>>]) \in BOOLEAN
      OBVIOUS
    <3>4. QED
      BY <3>2, <3>3, Zenon
  <2>2. CASE <<p, q>> \notin DOMAIN timers
    BY <2>2, Zenon DEF TimedOut
  <2>3. QED
    BY <2>1, <2>2
<1>3. (IF <<p, q>> \in DOMAIN timers THEN timers[<<p, q>>] ELSE 0) \in Nat
  BY DEF TypeOK
<1>4. scores[p] + Points(p, q, o) \in Nat /\ version + 1 \in Nat
  BY <1>1 DEF TypeOK
<1>5. epoch \in Nat /\ now \in Nat
  BY DEF TypeOK
<1>6. QED
  BY <1>1, <1>2, <1>3, <1>4, <1>5 DEF NewReceipt, Receipt

LEMMA LegacyReceiptType ==
  ASSUME TypeOK, NEW p \in DOMAIN participants, p \in DOMAIN scores,
         NEW rid \in Submissions, NEW q \in Questions, NEW o \in Options
  PROVE  /\ LegacyReceipt(p, rid, q, o) \in Receipt
         /\ LegacyReceipt(p, rid, q, o).total \in Nat
<1> DEFINE points == IF o = CorrectOption[q] THEN 100 ELSE 0
<1>1. points \in {0, 50, 100}
  OBVIOUS
<1>2. scores[p] + points \in Nat /\ version + 1 \in Nat /\ epoch \in Nat
  BY <1>1 DEF TypeOK
<1>3. QED
  BY <1>1, <1>2 DEF LegacyReceipt, Receipt

LEMMA NextType == TypeOK /\ [Next]_vars => TypeOK'
<1> SUFFICES ASSUME TypeOK, [Next]_vars PROVE TypeOK'
  OBVIOUS
<1>1. ASSUME NEW cap \in Capacities, NEW by \in Programs, Seed(cap, by)
      PROVE  TypeOK'
  <2>1. /\ epoch' \in Nat /\ version' \in Nat
        /\ capacity' \in 0..200 /\ content' \in Programs
    BY <1>1, CapacityType DEF Seed, Renew, TypeOK
  <2>2. QED
    BY <1>1, <2>1 DEF Seed, TypeOK
<1>2. ASSUME NEW cap \in Capacities, Reset(cap)
      PROVE  TypeOK'
  <2>1. /\ epoch' \in Nat /\ version' \in Nat /\ now' = now /\ draft' = draft
        /\ capacity' \in 0..200 /\ content' \in Programs
        /\ participants' = Empty /\ scores' = Empty /\ attempts' = Empty
        /\ answers' = Empty /\ requests' = Empty /\ timers' = Empty
    BY <1>2, CapacityType DEF Reset, Renew, Programs, TypeOK
  <2>2. now' \in Nat \ {0} /\ draft' \in [Callers -> Drafts \cup {NoOne}]
    BY <2>1 DEF TypeOK
  <2>3. QED
    BY <2>1, <2>2, EmptyType DEF TypeOK
<1>11. CASE Upgrade
  <2>1. /\ attempts' = [p \in DOMAIN attempts |-> [content |-> "current", order |-> attempts[p].order]]
        /\ content' = "current"
        /\ UNCHANGED <<epoch, version, capacity, participants, scores, answers, requests,
                       timers, now, draft>>
    BY <1>11 DEF Upgrade
  <2>2. \A p \in DOMAIN attempts : [content |-> "current", order |-> attempts[p].order] \in Plans
    BY DEF TypeOK, Plans, Programs
  <2>3. attempts' \in [DOMAIN attempts' -> Plans] /\ DOMAIN attempts' \subseteq Participants
    BY <2>1, <2>2 DEF TypeOK
  <2>4. content' \in Programs
    BY <2>1 DEF Programs
  <2>5. QED
    BY <2>1, <2>3, <2>4 DEF TypeOK
<1>3. CASE Tick
  BY <1>3 DEF Tick, meta, TypeOK
<1>4. ASSUME NEW c \in Callers, NEW p \in Participants, NEW by \in Programs, JoinProbe(c, p, by)
      PROVE  TypeOK'
  <2>1. [who |-> p, by |-> by] \in Drafts
    BY DEF Drafts
  <2>2. QED
    BY <1>4, <2>1 DEF JoinProbe, meta, TypeOK
<1>5. ASSUME NEW c \in Callers, NEW draws \in Draws(N), JoinCommit(c, draws)
      PROVE  TypeOK'
  <2> DEFINE p == draft[c].who
             plan == [content |-> draft[c].by, order |-> Shuffled(Manifest, draws)]
  <2>0. draft[c] \in Drafts
    BY <1>5 DEF JoinCommit, TypeOK
  <2>1. p \in Participants
    BY <2>0 DEF Drafts
  <2>2. [count |-> 0, cursor |-> 0] \in Progress
    BY NType DEF Progress
  <2>3. /\ participants' \in [DOMAIN participants' -> Progress]
        /\ DOMAIN participants' \subseteq Participants
    <3>1. participants' = Put(participants, p, [count |-> 0, cursor |-> 0])
      BY <1>5 DEF JoinCommit
    <3>2. /\ participants \in [DOMAIN participants -> Progress]
          /\ DOMAIN participants \subseteq Participants
      BY DEF TypeOK
    <3> HIDE DEF p
    <3>3. QED
      BY <2>1, <2>2, <3>1, <3>2, PutType
  <2>4. attempts' \in [DOMAIN attempts' -> Plans] /\ DOMAIN attempts' \subseteq Participants
    <3>0. attempts \in [DOMAIN attempts -> Plans] /\ DOMAIN attempts \subseteq Participants
      BY DEF TypeOK
    <3>1. attempts' = Put(attempts, p, plan)
      BY <1>5 DEF JoinCommit
    <3>2. plan \in Plans
      <4>1. plan.order \in Orders
        BY <1>5 DEF JoinCommit, ValidPlan
      <4>2. QED
        BY <2>0, <4>1 DEF Plans, Drafts
    <3> HIDE DEF p, plan
    <3>3. QED
      BY <2>1, <3>0, <3>1, <3>2, PutType
  <2>5. scores' \in [DOMAIN scores' -> Nat] /\ DOMAIN scores' \subseteq Participants
    <3>0. scores \in [DOMAIN scores -> Nat] /\ DOMAIN scores \subseteq Participants
      BY DEF TypeOK
    <3>1. scores' = Put(scores, p, 0) /\ 0 \in Nat
      BY <1>5 DEF JoinCommit
    <3> HIDE DEF p
    <3>2. QED
      BY <2>1, <3>0, <3>1, PutType
  <2>6. draft' \in [Callers -> Drafts \cup {NoOne}] /\ version' \in Nat
    BY <1>5 DEF JoinCommit, TypeOK
  <2>7. QED
    BY <1>5, <2>3, <2>4, <2>5, <2>6 DEF JoinCommit, TypeOK
<1>6. ASSUME NEW c \in Callers, JoinLost(c)
      PROVE  TypeOK'
  BY <1>6 DEF JoinLost, meta, TypeOK
<1>7. ASSUME NEW p \in Participants, NEW e, NEW q \in Questions, StartQuestion(p, e, q)
      PROVE  TypeOK'
  <2>1. now + Duration \in Nat \ {0} /\ <<p, q>> \in Participants \X Questions
    <3>1. now \in Nat \ {0}
      BY DEF TypeOK
    <3>2. QED
      BY <3>1, DurationType
  <2>2. timers' = Put(timers, <<p, q>>, now + Duration)
    BY <1>7 DEF StartQuestion
  <2>3. /\ timers' \in [DOMAIN timers' -> Nat \ {0}]
        /\ DOMAIN timers' \subseteq Participants \X Questions
    <3>1. timers \in [DOMAIN timers -> Nat \ {0}] /\ DOMAIN timers \subseteq Participants \X Questions
      BY DEF TypeOK
    <3>2. QED
      BY <2>1, <2>2, <3>1, PutType
  <2>4. QED
    BY <1>7, <2>3 DEF StartQuestion, meta, TypeOK
<1>8. ASSUME NEW p \in Participants, NEW e, NEW rid \in Submissions,
             NEW q \in Questions, NEW o \in Options, NEW by \in Programs,
             Answer(p, e, rid, q, o, by)
      PROVE  TypeOK'
  <2> DEFINE receipt == IF by = "current" THEN NewReceipt(p, rid, q, o)
                                        ELSE LegacyReceipt(p, rid, q, o)
             entry == [count |-> participants[p].count + 1,
                       cursor |-> Cursor(attempts[p].order, Answered(p) \cup {q})]
  <2>1. /\ p \in DOMAIN participants /\ <<p, q>> \notin DOMAIN answers /\ Preflight(p)
        /\ p \in DOMAIN scores
    BY <1>8, AnswerAccepted DEF Answer, Preflight, MemberPreflight, ValidMember
  <2>2. receipt \in Receipt /\ receipt.total \in Nat
    BY <2>1, NewReceiptType, LegacyReceiptType
  <2>3. entry \in Progress
    BY <2>1, CountType, CursorType DEF Progress
  <2>4. /\ answers' = Put(answers, <<p, q>>, receipt)
        /\ requests' = Put(requests, <<p, rid>>, receipt)
        /\ scores' = Put(scores, p, receipt.total)
        /\ participants' = Put(participants, p, entry)
        /\ version' = version + 1
        /\ UNCHANGED <<epoch, capacity, content, attempts, timers, now, draft>>
    BY <1>8 DEF Answer
  <2> HIDE DEF receipt, entry
  <2>5. /\ participants' \in [DOMAIN participants' -> Progress]
        /\ DOMAIN participants' \subseteq Participants
    <3>1. participants \in [DOMAIN participants -> Progress] /\ DOMAIN participants \subseteq Participants
      BY DEF TypeOK
    <3>2. QED
      BY <2>3, <2>4, <3>1, PutType
  <2>6. scores' \in [DOMAIN scores' -> Nat] /\ DOMAIN scores' \subseteq Participants
    <3>1. scores \in [DOMAIN scores -> Nat] /\ DOMAIN scores \subseteq Participants
      BY DEF TypeOK
    <3>2. QED
      BY <2>2, <2>4, <3>1, PutType
  <2>7. /\ answers' \in [DOMAIN answers' -> Receipt]
        /\ DOMAIN answers' \subseteq Participants \X Questions
    <3>1. answers \in [DOMAIN answers -> Receipt] /\ DOMAIN answers \subseteq Participants \X Questions
          /\ <<p, q>> \in Participants \X Questions
      BY DEF TypeOK
    <3>2. QED
      BY <2>2, <2>4, <3>1, PutType
  <2>8. /\ requests' \in [DOMAIN requests' -> Receipt]
        /\ DOMAIN requests' \subseteq Participants \X Submissions
    <3>1. requests \in [DOMAIN requests -> Receipt] /\ DOMAIN requests \subseteq Participants \X Submissions
          /\ <<p, rid>> \in Participants \X Submissions
      BY DEF TypeOK
    <3>2. QED
      BY <2>2, <2>4, <3>1, PutType
  <2>9. QED
    <3>1. /\ epoch' \in Nat /\ version' \in Nat /\ now' \in Nat \ {0}
          /\ draft' \in [Callers -> Drafts \cup {NoOne}]
          /\ capacity' \in 0..200 /\ content' \in Programs
      BY <2>4 DEF TypeOK
    <3>2. attempts' \in [DOMAIN attempts' -> Plans] /\ DOMAIN attempts' \subseteq Participants
      BY <2>4 DEF TypeOK
    <3>3. /\ timers' \in [DOMAIN timers' -> Nat \ {0}]
          /\ DOMAIN timers' \subseteq Participants \X Questions
      BY <2>4 DEF TypeOK
    <3>4. QED
      BY <2>5, <2>6, <2>7, <2>8, <3>1, <3>2, <3>3, Zenon DEF TypeOK
<1>9. CASE UNCHANGED vars
  BY <1>9 DEF vars, meta, TypeOK
<1>10. QED
  BY <1>1, <1>2, <1>3, <1>4, <1>5, <1>6, <1>7, <1>8, <1>9, <1>11 DEF Next

(***************************************************************************)
(* Every key of the room keeps the shape the store gave it.                *)
(***************************************************************************)
THEOREM TypeCorrect == Spec => []TypeOK
<1>1. QED
  BY InitType, NextType, PTL DEF Spec
-----------------------------------------------------------------------------
\* The steps that leave the two receipt books, and their round, alone.
BooksUntouched == UNCHANGED <<epoch, answers, requests>>

LEMMA OtherStepsKeepBooks ==
  ASSUME [Next]_vars,
         ~ \E cap \in Capacities, by \in Programs : Seed(cap, by),
         ~ \E cap \in Capacities : Reset(cap),
         ~ \E p \in Participants, e \in 1..epoch, rid \in Submissions,
              q \in Questions, o \in Options, by \in Programs : Answer(p, e, rid, q, o, by)
  PROVE  BooksUntouched
<1>1. CASE Upgrade \/ Tick
  BY <1>1 DEF Upgrade, Tick, meta, BooksUntouched
<1>2. CASE \/ \E c \in Callers, p \in Participants, by \in Programs : JoinProbe(c, p, by)
           \/ \E c \in Callers, draws \in Draws(N) : JoinCommit(c, draws)
           \/ \E c \in Callers : JoinLost(c)
  BY <1>2 DEF JoinProbe, JoinCommit, JoinLost, meta, BooksUntouched
<1>3. CASE \E p \in Participants, e \in 1..epoch, q \in Questions : StartQuestion(p, e, q)
  BY <1>3 DEF StartQuestion, meta, BooksUntouched
<1>4. CASE UNCHANGED vars
  BY <1>4 DEF vars, meta, BooksUntouched
<1>5. QED
  BY <1>1, <1>2, <1>3, <1>4 DEF Next

LEMMA BooksStep == TypeOK /\ RequestsMatchAnswers /\ [Next]_vars => RequestsMatchAnswers'
<1> SUFFICES ASSUME TypeOK, RequestsMatchAnswers, [Next]_vars PROVE RequestsMatchAnswers'
  OBVIOUS
<1>0. ASSUME NEW cap \in Capacities, NEW by \in Programs, Seed(cap, by)
      PROVE  RequestsMatchAnswers'
  BY <1>0 DEF Seed, RequestsMatchAnswers
<1>1. ASSUME NEW cap \in Capacities, Reset(cap)
      PROVE  RequestsMatchAnswers'
  BY <1>1 DEF Reset, RequestsMatchAnswers, Empty
<1>2. ASSUME NEW p \in Participants, NEW e, NEW rid \in Submissions,
             NEW q \in Questions, NEW o \in Options, NEW by \in Programs,
             Answer(p, e, rid, q, o, by)
      PROVE  RequestsMatchAnswers'
  <2> DEFINE receipt == IF by = "current" THEN NewReceipt(p, rid, q, o)
                                        ELSE LegacyReceipt(p, rid, q, o)
  <2>1. receipt.rid = rid /\ receipt.qid = q /\ receipt.epoch = epoch'
    BY <1>2 DEF NewReceipt, LegacyReceipt, Answer
  <2>2. /\ answers' = Put(answers, <<p, q>>, receipt) /\ requests' = Put(requests, <<p, rid>>, receipt)
        /\ epoch' = epoch
    BY <1>2 DEF Answer
  <2>3. <<p, rid>> \notin DOMAIN requests /\ <<p, q>> \notin DOMAIN answers
    BY <1>2, AnswerAccepted DEF Answer
  <2> HIDE DEF receipt
  <2>4. /\ DOMAIN answers' = DOMAIN answers \cup {<<p, q>>} /\ answers'[<<p, q>>] = receipt
        /\ \A k \in DOMAIN answers : answers'[k] = answers[k]
    BY <2>2, <2>3 DEF Put
  <2>5. /\ DOMAIN requests' = DOMAIN requests \cup {<<p, rid>>} /\ requests'[<<p, rid>>] = receipt
        /\ \A k \in DOMAIN requests : requests'[k] = requests[k]
    BY <2>2, <2>3 DEF Put
  <2>6. ASSUME NEW k \in DOMAIN requests'
        PROVE  /\ requests'[k].rid = k[2] /\ requests'[k].epoch = epoch'
               /\ <<k[1], requests'[k].qid>> \in DOMAIN answers'
               /\ answers'[<<k[1], requests'[k].qid>>] = requests'[k]
    <3>1. CASE k = <<p, rid>>
      BY <2>1, <2>4, <2>5, <3>1
    <3>2. CASE k \in DOMAIN requests
      <4>1. /\ requests[k].rid = k[2] /\ requests[k].epoch = epoch
            /\ <<k[1], requests[k].qid>> \in DOMAIN answers
            /\ answers[<<k[1], requests[k].qid>>] = requests[k]
        BY <3>2 DEF RequestsMatchAnswers
      <4>2. QED
        BY <2>2, <2>4, <2>5, <3>2, <4>1
    <3>3. QED
      BY <2>5, <2>6, <3>1, <3>2
  <2>7. ASSUME NEW k \in DOMAIN answers'
        PROVE  /\ answers'[k].qid = k[2]
               /\ <<k[1], answers'[k].rid>> \in DOMAIN requests'
               /\ requests'[<<k[1], answers'[k].rid>>] = answers'[k]
    <3>1. CASE k = <<p, q>>
      BY <2>1, <2>4, <2>5, <3>1
    <3>2. CASE k \in DOMAIN answers
      <4>1. /\ answers[k].qid = k[2]
            /\ <<k[1], answers[k].rid>> \in DOMAIN requests
            /\ requests[<<k[1], answers[k].rid>>] = answers[k]
        BY <3>2 DEF RequestsMatchAnswers
      <4>2. QED
        BY <2>4, <2>5, <3>2, <4>1
    <3>3. QED
      BY <2>4, <2>7, <3>1, <3>2
  <2>8. QED
    BY <2>6, <2>7 DEF RequestsMatchAnswers
<1>3. CASE BooksUntouched
  BY <1>3 DEF BooksUntouched, RequestsMatchAnswers
<1>4. QED
  BY <1>0, <1>1, <1>2, <1>3, OtherStepsKeepBooks

(***************************************************************************)
(* The idempotency index and the answer book agree in every reachable      *)
(* state, however calls are retried, duplicated, reordered or reset.       *)
(***************************************************************************)
THEOREM BooksAgree == Spec => []RequestsMatchAnswers
<1>1. Init => RequestsMatchAnswers
  BY DEF Init, RequestsMatchAnswers, Empty
<1>2. QED
  BY <1>1, BooksStep, TypeCorrect, PTL DEF Spec
-----------------------------------------------------------------------------
LEMMA KeptPut ==
  ASSUME NEW f, NEW k, NEW v, k \notin DOMAIN f
  PROVE  Kept(f, Put(f, k, v))
  BY DEF Put, Kept

LEMMA KeptSame == \A f : Kept(f, f)
  BY DEF Kept

LEMMA KeptOrdersSame == \A f : KeptOrders(f, f)
  BY DEF KeptOrders

\* What a step may do to the first writes.
FirstWritesKept ==
  /\ KeptOrders(attempts, attempts') /\ Kept(answers, answers')
  /\ Kept(requests, requests') /\ Kept(timers, timers')

LEMMA StepKeepsFirstWrites == TypeOK /\ [Next]_vars /\ epoch' = epoch => FirstWritesKept
<1> SUFFICES ASSUME TypeOK, [Next]_vars, epoch' = epoch PROVE FirstWritesKept
  OBVIOUS
<1>1. CASE \/ \E cap \in Capacities, by \in Programs : Seed(cap, by)
           \/ \E cap \in Capacities : Reset(cap)
  <2>1. epoch' = epoch + 1 /\ epoch \in Nat
    BY <1>1 DEF Seed, Reset, Renew, TypeOK
  <2>2. QED
    BY <2>1
<1>2. CASE UNCHANGED <<attempts, answers, requests, timers>>
  BY <1>2, KeptSame, KeptOrdersSame DEF FirstWritesKept
<1>3. ASSUME NEW c \in Callers, NEW draws \in Draws(N), JoinCommit(c, draws)
      PROVE  FirstWritesKept
  <2> DEFINE p == draft[c].who
             plan == [content |-> draft[c].by, order |-> Shuffled(Manifest, draws)]
  <2>1. p \notin DOMAIN attempts
    BY <1>3, JoinAccepted DEF JoinCommit, Preflight, MemberPreflight
  <2>2. attempts' = Put(attempts, p, plan) /\ UNCHANGED <<answers, requests, timers>>
    BY <1>3 DEF JoinCommit
  <2> HIDE DEF p, plan
  <2>3. KeptOrders(attempts, attempts')
    BY <2>1, <2>2 DEF Put, KeptOrders
  <2>4. QED
    BY <2>2, <2>3, KeptSame DEF FirstWritesKept
<1>8. CASE Upgrade
  <2>1. KeptOrders(attempts, attempts')
    BY <1>8 DEF Upgrade, KeptOrders
  <2>2. UNCHANGED <<answers, requests, timers>>
    BY <1>8 DEF Upgrade
  <2>3. QED
    BY <2>1, <2>2, KeptSame DEF FirstWritesKept
<1>4. ASSUME NEW p \in Participants, NEW e, NEW q \in Questions, StartQuestion(p, e, q)
      PROVE  FirstWritesKept
  <2>1. <<p, q>> \notin DOMAIN timers
    BY <1>4, StartAccepted DEF StartQuestion
  <2>2. timers' = Put(timers, <<p, q>>, now + Duration) /\ UNCHANGED <<answers, requests, attempts>>
    BY <1>4 DEF StartQuestion
  <2>3. QED
    BY <2>1, <2>2, KeptPut, KeptSame, KeptOrdersSame DEF FirstWritesKept
<1>5. ASSUME NEW p \in Participants, NEW e, NEW rid \in Submissions,
             NEW q \in Questions, NEW o \in Options, NEW by \in Programs,
             Answer(p, e, rid, q, o, by)
      PROVE  FirstWritesKept
  <2>1. <<p, rid>> \notin DOMAIN requests /\ <<p, q>> \notin DOMAIN answers
    BY <1>5, AnswerAccepted DEF Answer
  <2> DEFINE receipt == IF by = "current" THEN NewReceipt(p, rid, q, o)
                                        ELSE LegacyReceipt(p, rid, q, o)
  <2>2. /\ answers' = Put(answers, <<p, q>>, receipt)
        /\ requests' = Put(requests, <<p, rid>>, receipt)
        /\ UNCHANGED <<attempts, timers>>
    BY <1>5 DEF Answer
  <2> HIDE DEF receipt
  <2>3. QED
    BY <2>1, <2>2, KeptPut, KeptSame, KeptOrdersSame DEF FirstWritesKept
<1>6. CASE \/ Tick
           \/ \E c \in Callers, p \in Participants, by \in Programs : JoinProbe(c, p, by)
           \/ \E c \in Callers : JoinLost(c)
           \/ UNCHANGED vars
  BY <1>2, <1>6 DEF Tick, JoinProbe, JoinLost, meta, vars
<1>7. QED
  BY <1>1, <1>3, <1>4, <1>5, <1>6, <1>8 DEF Next

(***************************************************************************)
(* Until a reset, no step replaces an order of questions, a receipt or a   *)
(* deadline, the upgrade of the room included.                             *)
(***************************************************************************)
THEOREM FirstWriteWins == Spec => FirstWriteStands
<1>1. TypeOK /\ [Next]_vars =>
        [epoch' = epoch =>
           /\ KeptOrders(attempts, attempts') /\ Kept(answers, answers')
           /\ Kept(requests, requests') /\ Kept(timers, timers')]_vars
  BY StepKeepsFirstWrites DEF FirstWritesKept
<1>2. QED
  BY <1>1, TypeCorrect, PTL DEF Spec, FirstWriteStands
-----------------------------------------------------------------------------
(***************************************************************************)
(* What a step may do to the room, whichever script takes it: a new round, *)
(* an upgrade, a join, a start, an answer, or nothing the keys show.       *)
(***************************************************************************)
Restarted ==
  /\ epoch' = epoch + 1 /\ version' = 0
  /\ capacity' \in 1..200 /\ content' \in Programs
  /\ participants' = Empty /\ scores' = Empty /\ attempts' = Empty
  /\ answers' = Empty /\ requests' = Empty /\ timers' = Empty

Upgraded ==
  /\ RoomExists /\ content = "legacy" /\ content' = "current"
  /\ attempts' = [p \in DOMAIN attempts |-> [content |-> "current", order |-> attempts[p].order]]
  /\ UNCHANGED <<epoch, version, capacity, participants, scores, answers, requests, timers>>

Joined(p) ==
  /\ RoomExists /\ p \in Participants /\ p \notin DOMAIN participants /\ Size < capacity
  /\ \E plan \in Plans : plan.content = content /\ attempts' = Put(attempts, p, plan)
  /\ participants' = Put(participants, p, [count |-> 0, cursor |-> 0])
  /\ scores' = Put(scores, p, 0)
  /\ version' = version + 1
  /\ UNCHANGED <<epoch, capacity, content, answers, requests, timers>>

Started(p, q) ==
  /\ RoomExists /\ content = "current" /\ p \in DOMAIN participants
  /\ <<p, q>> \notin DOMAIN timers /\ <<p, q>> \notin DOMAIN answers
  /\ \E deadline \in Nat \ {0} : timers' = Put(timers, <<p, q>>, deadline)
  /\ UNCHANGED <<epoch, version, capacity, content, participants, scores, attempts, answers, requests>>

\* A receipt the room may issue for an answer o of p to the open question q.
Issued(r, p, rid, q, o) ==
  /\ r \in Receipt
  /\ r.rid = rid /\ r.qid = q /\ r.opt = o
  /\ r.version = version + 1 /\ r.total = scores[p] + r.points
  /\ r.points > 0 <=> o = CorrectOption[q]
  /\ r.deadline = IF <<p, q>> \in DOMAIN timers THEN timers[<<p, q>>] ELSE 0
  /\ r.points = 100 => r.at = 0 \/ r.at < r.deadline
  /\ content = "legacy" => r.points \in {0, 100}

Scored(p, rid, q, o, r) ==
  /\ RoomExists /\ p \in DOMAIN participants
  /\ <<p, rid>> \notin DOMAIN requests /\ <<p, q>> \notin DOMAIN answers
  /\ Issued(r, p, rid, q, o)
  /\ answers' = Put(answers, <<p, q>>, r)
  /\ requests' = Put(requests, <<p, rid>>, r)
  /\ scores' = Put(scores, p, r.total)
  /\ participants' = Put(participants, p,
                        [count |-> participants[p].count + 1,
                         cursor |-> Cursor(attempts[p].order, Answered(p) \cup {q})])
  /\ version' = version + 1
  /\ UNCHANGED <<epoch, capacity, content, attempts, timers>>

Idle == UNCHANGED <<meta, participants, scores, attempts, answers, requests, timers>>

\* Nothing is stored before the room is opened, and nothing is timed by the
\* preceding program.
Unopened ==
  epoch = 0 =>
    /\ version = 0 /\ participants = Empty /\ scores = Empty /\ attempts = Empty
    /\ answers = Empty /\ requests = Empty /\ timers = Empty
Untimed == content = "legacy" => timers = Empty
RosterFits == IsFiniteSet(DOMAIN participants) /\ Size <= capacity

LEMMA NewReceiptIssued ==
  ASSUME TypeOK, NEW p \in DOMAIN participants, p \in DOMAIN scores, content = "current",
         NEW rid \in Submissions, NEW q \in Questions, NEW o \in Options
  PROVE  Issued(NewReceipt(p, rid, q, o), p, rid, q, o)
<1> DEFINE r == NewReceipt(p, rid, q, o)
<1>1. r \in Receipt
  BY NewReceiptType
<1>2. /\ r.rid = rid /\ r.qid = q /\ r.opt = o /\ r.version = version + 1
      /\ r.points = Points(p, q, o) /\ r.total = scores[p] + r.points
      /\ r.deadline = IF <<p, q>> \in DOMAIN timers THEN timers[<<p, q>>] ELSE 0
      /\ r.at = now
  BY DEF NewReceipt
<1>3. r.points > 0 <=> o = CorrectOption[q]
  BY <1>2 DEF Points
<1>4. r.points = 100 => r.at < r.deadline
  <2> SUFFICES ASSUME r.points = 100 PROVE r.at < r.deadline
    OBVIOUS
  <2>1. ~ TimedOut(p, q)
    BY <1>2 DEF Points
  <2>2. <<p, q>> \in DOMAIN timers /\ ~ (now >= timers[<<p, q>>])
    BY <2>1 DEF TimedOut
  <2>3. now \in Nat /\ timers[<<p, q>>] \in Nat
    BY <2>2 DEF TypeOK
  <2>4. QED
    BY <1>2, <2>2, <2>3
<1> HIDE DEF r
<1>5. content # "legacy"
  OBVIOUS
<1>6. Issued(r, p, rid, q, o)
  BY <1>1, <1>2, <1>3, <1>4, <1>5 DEF Issued
<1>7. QED
  BY <1>6 DEF r

LEMMA LegacyReceiptIssued ==
  ASSUME TypeOK, Untimed, NEW p \in DOMAIN participants, p \in DOMAIN scores, content = "legacy",
         NEW rid \in Submissions, NEW q \in Questions, NEW o \in Options
  PROVE  Issued(LegacyReceipt(p, rid, q, o), p, rid, q, o)
<1> DEFINE r == LegacyReceipt(p, rid, q, o)
<1>1. r \in Receipt
  BY LegacyReceiptType
<1>2. /\ r.rid = rid /\ r.qid = q /\ r.opt = o /\ r.version = version + 1
      /\ r.points = (IF o = CorrectOption[q] THEN 100 ELSE 0) /\ r.total = scores[p] + r.points
      /\ r.deadline = 0 /\ r.at = 0
  BY DEF LegacyReceipt
<1>3. <<p, q>> \notin DOMAIN timers
  BY EmptyType DEF Untimed
<1>4. r.deadline = IF <<p, q>> \in DOMAIN timers THEN timers[<<p, q>>] ELSE 0
  BY <1>2, <1>3
<1>5. (r.points > 0 <=> o = CorrectOption[q]) /\ r.points \in {0, 100}
  BY <1>2
<1> HIDE DEF r
<1>6. Issued(r, p, rid, q, o)
  BY <1>1, <1>2, <1>4, <1>5 DEF Issued
<1>7. QED
  BY <1>6 DEF r

LEMMA Kinds ==
  ASSUME TypeOK, Unopened, Untimed, RosterFits, [Next]_vars
  PROVE  \/ Restarted
         \/ Upgraded
         \/ \E p \in Participants : Joined(p)
         \/ \E p \in Participants, q \in Questions : Started(p, q)
         \/ \E p \in Participants, rid \in Submissions, q \in Questions, o \in Options :
              \E r \in Receipt : Scored(p, rid, q, o, r)
         \/ Idle
<1>1. CASE \/ \E cap \in Capacities, by \in Programs : Seed(cap, by)
           \/ \E cap \in Capacities : Reset(cap)
  <2>1. ASSUME NEW cap \in Capacities, NEW by \in Programs, Seed(cap, by) PROVE Restarted
    BY <2>1, CapacityType DEF Seed, Renew, Unopened, Restarted
  <2>2. ASSUME NEW cap \in Capacities, Reset(cap) PROVE Restarted
    BY <2>2, CapacityType DEF Reset, Renew, Restarted, Programs
  <2>3. QED
    BY <1>1, <2>1, <2>2
<1>2. CASE Upgrade
  BY <1>2 DEF Upgrade, Upgraded
<1>3. ASSUME NEW c \in Callers, NEW draws \in Draws(N), JoinCommit(c, draws)
      PROVE  \E p \in Participants : Joined(p)
  <2> DEFINE p == draft[c].who
             plan == [content |-> draft[c].by, order |-> Shuffled(Manifest, draws)]
  <2>1. draft[c] \in Drafts
    BY <1>3 DEF JoinCommit, TypeOK
  <2>2. p \in Participants
    BY <2>1 DEF Drafts
  <2>3. RoomExists /\ p \notin DOMAIN participants /\ ~(Size >= capacity) /\ draft[c].by = content
    <3>1. JoinReply(draft[c].who, TRUE, draft[c].by) = "accepted"
      BY <1>3 DEF JoinCommit
    <3>2. QED
      BY <3>1 DEF JoinReply
  <2>4. Size < capacity
    <3>1. Size \in Nat
      <4>1. IsFiniteSet(DOMAIN participants)
        BY DEF RosterFits
      <4>2. QED
        BY <4>1, FS_CardinalityType, Zenon DEF Size
    <3>2. capacity \in Nat
      BY DEF TypeOK
    <3>3. QED
      BY <2>3, <3>1, <3>2
  <2>5. plan \in Plans /\ plan.content = content
    <3>1. plan.order \in Orders
      BY <1>3 DEF JoinCommit, ValidPlan
    <3>2. QED
      BY <2>1, <2>3, <3>1 DEF Plans, Drafts
  <2>6. /\ attempts' = Put(attempts, p, plan)
        /\ participants' = Put(participants, p, [count |-> 0, cursor |-> 0])
        /\ scores' = Put(scores, p, 0)
        /\ version' = version + 1
        /\ UNCHANGED <<epoch, capacity, content, answers, requests, timers>>
    BY <1>3 DEF JoinCommit
  <2> HIDE DEF p, plan
  <2>7. Joined(p)
    BY <2>2, <2>3, <2>4, <2>5, <2>6 DEF Joined
  <2>8. QED
    BY <2>2, <2>7
<1>4. ASSUME NEW p \in Participants, NEW e, NEW q \in Questions, StartQuestion(p, e, q)
      PROVE  Started(p, q)
  <2>1. content = "current" /\ StartReply(p, e, q) = "started"
    BY <1>4 DEF StartQuestion, StartReply
  <2>2. now + Duration \in Nat \ {0}
    <3>1. now \in Nat \ {0}
      BY DEF TypeOK
    <3>2. QED
      BY <3>1, DurationType
  <2>3. /\ timers' = Put(timers, <<p, q>>, now + Duration)
        /\ UNCHANGED <<epoch, version, capacity, content, participants, scores, attempts, answers, requests>>
    BY <1>4 DEF StartQuestion, meta
  <2>4. QED
    BY <2>1, <2>2, <2>3, StartAccepted DEF Started
<1>5. ASSUME NEW p \in Participants, NEW e, NEW rid \in Submissions,
             NEW q \in Questions, NEW o \in Options, NEW by \in Programs,
             Answer(p, e, rid, q, o, by)
      PROVE  \E r \in Receipt : Scored(p, rid, q, o, r)
  <2> DEFINE receipt == IF by = "current" THEN NewReceipt(p, rid, q, o)
                                        ELSE LegacyReceipt(p, rid, q, o)
  <2>1. AnswerReply(p, e, rid, q, o, by).code = "accepted"
    BY <1>5 DEF Answer
  <2>2. /\ RoomExists /\ Preflight(p) /\ p \in DOMAIN participants
        /\ <<p, rid>> \notin DOMAIN requests /\ <<p, q>> \notin DOMAIN answers
    BY <2>1, AnswerAccepted
  <2>3. by = content
    BY <2>1 DEF AnswerReply, Refused
  <2>4. p \in DOMAIN scores
    BY <2>2 DEF Preflight, MemberPreflight, ValidMember
  <2>5. Issued(receipt, p, rid, q, o)
    <3>1. CASE by = "current"
      BY <2>2, <2>3, <2>4, <3>1, NewReceiptIssued
    <3>2. CASE by = "legacy"
      BY <2>2, <2>3, <2>4, <3>2, LegacyReceiptIssued
    <3>3. QED
      BY <3>1, <3>2 DEF Programs
  <2>6. /\ answers' = Put(answers, <<p, q>>, receipt)
        /\ requests' = Put(requests, <<p, rid>>, receipt)
        /\ scores' = Put(scores, p, receipt.total)
        /\ participants' = Put(participants, p,
                              [count |-> participants[p].count + 1,
                               cursor |-> Cursor(attempts[p].order, Answered(p) \cup {q})])
        /\ version' = version + 1
        /\ UNCHANGED <<epoch, capacity, content, attempts, timers>>
    BY <1>5 DEF Answer
  <2> HIDE DEF receipt
  <2>7. Scored(p, rid, q, o, receipt)
    BY <2>2, <2>5, <2>6 DEF Scored
  <2>8. receipt \in Receipt
    BY <2>5 DEF Issued
  <2>9. QED
    BY <2>7, <2>8
<1>6. CASE \/ Tick
           \/ \E c \in Callers, p \in Participants, by \in Programs : JoinProbe(c, p, by)
           \/ \E c \in Callers : JoinLost(c)
           \/ UNCHANGED vars
  BY <1>6 DEF Tick, JoinProbe, JoinLost, meta, vars, Idle
<1>7. QED
  BY <1>1, <1>2, <1>3, <1>4, <1>5, <1>6 DEF Next
-----------------------------------------------------------------------------
(***************************************************************************)
(* The keys of a room agree.  This is the invariant that is inductive: the *)
(* preflight cannot trip because every script leaves behind what the next  *)
(* one checks.                                                             *)
(***************************************************************************)
Rostered == DOMAIN scores = DOMAIN participants /\ DOMAIN attempts = DOMAIN participants
OnlyMembers == \A k \in DOMAIN answers \cup DOMAIN timers : k[1] \in DOMAIN participants
MemberAgrees(p) ==
  /\ attempts[p].content = content
  /\ participants[p].count = Cardinality(Answered(p))
  /\ participants[p].cursor = Cursor(attempts[p].order, Answered(p))
ScoreFits(p) ==
  /\ scores[p] % 50 = 0
  /\ content = "legacy" => scores[p] % 100 = 0
  /\ scores[p] <= participants[p].count * 100
Consistent ==
  /\ Unopened /\ Untimed
  /\ RosterFits /\ (RoomExists => capacity \in 1..200)
  /\ Rostered /\ OnlyMembers
  /\ \A p \in DOMAIN participants : MemberAgrees(p) /\ ScoreFits(p)

LEMMA PutIs ==
  ASSUME NEW f, NEW k, NEW v
  PROVE  /\ DOMAIN Put(f, k, v) = DOMAIN f \cup {k}
         /\ Put(f, k, v)[k] = v
         /\ \A x \in DOMAIN f : x # k => Put(f, k, v)[x] = f[x]
  BY DEF Put

LEMMA AnsweredFinite ==
  ASSUME NEW p
  PROVE  IsFiniteSet(Answered(p)) /\ Cardinality(Answered(p)) \in 0..N
<1>1. Answered(p) \in SUBSET Questions
  BY DEF Answered
<1>2. IsFiniteSet(Answered(p)) /\ Cardinality(Answered(p)) <= Cardinality(Questions)
  BY <1>1, NType, FS_Subset
<1>3. Cardinality(Answered(p)) \in Nat
  BY <1>2, FS_CardinalityType
<1>4. QED
  BY <1>2, <1>3, NType DEF N

LEMMA CursorAtStart == \A order : Cursor(order, {}) = 0
<1> SUFFICES ASSUME NEW order PROVE Cursor(order, {}) = 0
  OBVIOUS
<1>1. Cursor(order, {}) \in 0..N /\ \A i \in 1..Cursor(order, {}) : order[i] \in {}
  BY CursorIs
<1>2. QED
  BY <1>1, NType

LEMMA NothingAnswered ==
  ASSUME OnlyMembers, NEW p, p \notin DOMAIN participants
  PROVE  Answered(p) = {}
  BY DEF OnlyMembers, Answered

LEMMA ConsistentInit == Init => Consistent
<1> SUFFICES ASSUME Init PROVE Consistent
  OBVIOUS
<1>1. DOMAIN participants = {} /\ DOMAIN scores = {} /\ DOMAIN attempts = {}
      /\ DOMAIN answers = {} /\ DOMAIN timers = {}
  BY EmptyType DEF Init
<1>2. Size = 0 /\ IsFiniteSet(DOMAIN participants)
  BY <1>1, FS_EmptySet DEF Size
<1>3. QED
  BY <1>1, <1>2 DEF Init, Consistent, Unopened, Untimed, RosterFits, Rostered, OnlyMembers, RoomExists

LEMMA RestartConsistent == TypeOK /\ Restarted => Consistent'
<1> SUFFICES ASSUME TypeOK, Restarted PROVE Consistent'
  OBVIOUS
<1>1. /\ DOMAIN participants' = {} /\ DOMAIN scores' = {} /\ DOMAIN attempts' = {}
      /\ DOMAIN answers' = {} /\ DOMAIN timers' = {}
  BY EmptyType DEF Restarted
<1>2. Size' = 0 /\ IsFiniteSet(DOMAIN participants')
  BY <1>1, FS_EmptySet DEF Size
<1>3. epoch' # 0 /\ capacity' \in 1..200 /\ timers' = Empty
  BY DEF Restarted, TypeOK
<1>4. QED
  BY <1>1, <1>2, <1>3 DEF Consistent, Unopened, Untimed, RosterFits, Rostered, OnlyMembers, RoomExists

LEMMA HundredsAreFifties == \A n \in Nat : n % 100 = 0 => n % 50 = 0
  OBVIOUS

LEMMA UpgradeConsistent == TypeOK /\ Consistent /\ Upgraded => Consistent'
<1> SUFFICES ASSUME TypeOK, Consistent, Upgraded PROVE Consistent'
  OBVIOUS
<1>1. /\ UNCHANGED <<epoch, version, capacity, participants, scores, answers, requests, timers>>
      /\ DOMAIN attempts' = DOMAIN attempts /\ content' = "current" /\ epoch # 0
  BY DEF Upgraded, RoomExists
<1>2. Unopened' /\ Untimed' /\ RosterFits' /\ (RoomExists => capacity \in 1..200)' /\ Rostered' /\ OnlyMembers'
  BY <1>1 DEF Consistent, Unopened, Untimed, RosterFits, Rostered, OnlyMembers, RoomExists, Size
<1>3. ASSUME NEW p \in DOMAIN participants' PROVE MemberAgrees(p)' /\ ScoreFits(p)'
  <2>1. p \in DOMAIN participants /\ p \in DOMAIN attempts /\ MemberAgrees(p) /\ ScoreFits(p)
    BY <1>1 DEF Consistent, Rostered
  <2>2. attempts'[p].content = "current" /\ attempts'[p].order = attempts[p].order
    BY <2>1 DEF Upgraded
  <2>3. Answered(p)' = Answered(p)
    BY <1>1 DEF Answered
  <2>4. MemberAgrees(p)'
    BY <1>1, <2>1, <2>2, <2>3 DEF MemberAgrees, Cursor
  <2>5. ScoreFits(p)'
    BY <1>1, <2>1 DEF ScoreFits
  <2>6. QED
    BY <2>4, <2>5
<1>4. QED
  BY <1>2, <1>3 DEF Consistent

LEMMA JoinConsistent ==
  ASSUME TypeOK, Consistent, NEW p \in Participants, Joined(p)
  PROVE  Consistent'
<1>1. PICK plan \in Plans : plan.content = content /\ attempts' = Put(attempts, p, plan)
  BY DEF Joined
<1>2. /\ epoch # 0 /\ p \notin DOMAIN participants /\ Size < capacity
      /\ participants' = Put(participants, p, [count |-> 0, cursor |-> 0])
      /\ scores' = Put(scores, p, 0)
      /\ UNCHANGED <<epoch, capacity, content, answers, requests, timers>>
  BY DEF Joined, RoomExists
<1>3. /\ DOMAIN participants' = DOMAIN participants \cup {p}
      /\ participants'[p] = [count |-> 0, cursor |-> 0]
      /\ \A x \in DOMAIN participants : participants'[x] = participants[x]
  BY <1>2 DEF Put
<1>4. /\ DOMAIN scores' = DOMAIN participants \cup {p} /\ scores'[p] = 0
      /\ \A x \in DOMAIN participants : scores'[x] = scores[x]
  BY <1>2 DEF Consistent, Rostered, Put
<1>5. /\ DOMAIN attempts' = DOMAIN participants \cup {p} /\ attempts'[p] = plan
      /\ \A x \in DOMAIN participants : attempts'[x] = attempts[x]
  BY <1>1, <1>2 DEF Consistent, Rostered, Put
<1>6. \A x : Answered(x)' = Answered(x)
  BY <1>2 DEF Answered
<1>7. RosterFits'
  <2>1. IsFiniteSet(DOMAIN participants)
    BY DEF Consistent, RosterFits
  <2>2. /\ IsFiniteSet(DOMAIN participants')
        /\ Cardinality(DOMAIN participants') = Cardinality(DOMAIN participants) + 1
    BY <1>2, <1>3, <2>1, FS_AddElement
  <2>3. Cardinality(DOMAIN participants) \in Nat
    BY <2>1, FS_CardinalityType
  <2>4. capacity' \in Nat /\ capacity' = capacity
    BY <1>2 DEF TypeOK
  <2>5. Cardinality(DOMAIN participants) < capacity
    BY <1>2 DEF Size
  <2>6. QED
    BY <2>2, <2>3, <2>4, <2>5 DEF RosterFits, Size
<1>8. MemberAgrees(p)' /\ ScoreFits(p)'
  <2>1. Answered(p)' = {}
    BY <1>2, <1>6, NothingAnswered DEF Consistent
  <2>2. Cardinality({}) = 0
    BY FS_EmptySet
  <2>3. attempts'[p].content = content' /\ participants'[p].count = 0 /\ participants'[p].cursor = 0
    BY <1>1, <1>2, <1>3, <1>5
  <2>4. Cursor(attempts'[p].order, {}) = 0
    BY CursorAtStart
  <2>5. MemberAgrees(p)'
    BY <2>1, <2>2, <2>3, <2>4 DEF MemberAgrees, Cursor
  <2>6. ScoreFits(p)'
    BY <1>4, <2>3 DEF ScoreFits
  <2>7. QED
    BY <2>5, <2>6
<1>9. ASSUME NEW x \in DOMAIN participants PROVE MemberAgrees(x)' /\ ScoreFits(x)'
  <2>1. MemberAgrees(x) /\ ScoreFits(x)
    BY DEF Consistent
  <2>2. MemberAgrees(x)'
    BY <1>2, <1>3, <1>5, <1>6, <2>1 DEF MemberAgrees, Cursor
  <2>3. ScoreFits(x)'
    BY <1>2, <1>3, <1>4, <2>1 DEF ScoreFits
  <2>4. QED
    BY <2>2, <2>3
<1>10. Unopened' /\ Untimed' /\ (RoomExists => capacity \in 1..200)' /\ Rostered'
  BY <1>2, <1>3, <1>4, <1>5 DEF Consistent, Unopened, Untimed, Rostered, RoomExists
<1>11. OnlyMembers'
  BY <1>2, <1>3 DEF Consistent, OnlyMembers
<1>12. QED
  BY <1>3, <1>7, <1>8, <1>9, <1>10, <1>11 DEF Consistent

LEMMA StartConsistent ==
  ASSUME TypeOK, Consistent, NEW p \in Participants, NEW q \in Questions, Started(p, q)
  PROVE  Consistent'
<1>1. PICK deadline \in Nat \ {0} : timers' = Put(timers, <<p, q>>, deadline)
  BY DEF Started
<1>2. /\ epoch # 0 /\ content = "current" /\ p \in DOMAIN participants
      /\ UNCHANGED <<epoch, version, capacity, content, participants, scores, attempts, answers, requests>>
  BY DEF Started, RoomExists
<1>3. DOMAIN timers' = DOMAIN timers \cup {<<p, q>>}
  BY <1>1, PutIs
<1>4. OnlyMembers'
  BY <1>2, <1>3 DEF Consistent, OnlyMembers
<1>5. Unopened' /\ Untimed' /\ RosterFits' /\ (RoomExists => capacity \in 1..200)' /\ Rostered'
  BY <1>2 DEF Consistent, Unopened, Untimed, RosterFits, Rostered, RoomExists, Size
<1>6. ASSUME NEW x \in DOMAIN participants PROVE MemberAgrees(x)' /\ ScoreFits(x)'
  <2>1. Answered(x)' = Answered(x)
    BY <1>2 DEF Answered
  <2>2. MemberAgrees(x) /\ ScoreFits(x)
    BY DEF Consistent
  <2>3. QED
    BY <1>2, <2>1, <2>2 DEF MemberAgrees, ScoreFits, Cursor
<1>7. QED
  BY <1>2, <1>4, <1>5, <1>6 DEF Consistent

\* What an answer does to the keys, seen one field at a time.
Effect(p, rid, q, r) ==
  /\ epoch # 0 /\ p \in DOMAIN participants /\ <<p, q>> \notin DOMAIN answers
  /\ UNCHANGED <<epoch, capacity, content, attempts, timers>>
  /\ version' = version + 1
  /\ DOMAIN participants' = DOMAIN participants
  /\ participants'[p].count = participants[p].count + 1
  /\ participants'[p].cursor = Cursor(attempts[p].order, Answered(p) \cup {q})
  /\ \A x \in DOMAIN participants : x # p => participants'[x] = participants[x]
  /\ DOMAIN scores' = DOMAIN scores /\ scores'[p] = scores[p] + r.points
  /\ \A x \in DOMAIN scores : x # p => scores'[x] = scores[x]
  /\ DOMAIN answers' = DOMAIN answers \cup {<<p, q>>} /\ answers'[<<p, q>>] = r
  /\ \A k \in DOMAIN answers : answers'[k] = answers[k]
  /\ DOMAIN requests' = DOMAIN requests \cup {<<p, rid>>}
  /\ q \notin Answered(p) /\ Answered(p)' = Answered(p) \cup {q}
  /\ \A x : x # p => Answered(x)' = Answered(x)

LEMMA ScoredEffect ==
  ASSUME TypeOK, Consistent, NEW p \in Participants, NEW rid \in Submissions, NEW q \in Questions,
         NEW o \in Options, NEW r \in Receipt, Scored(p, rid, q, o, r)
  PROVE  Effect(p, rid, q, r)
<1> DEFINE entry == [count |-> participants[p].count + 1,
                     cursor |-> Cursor(attempts[p].order, Answered(p) \cup {q})]
<1>1. /\ epoch # 0 /\ p \in DOMAIN participants /\ <<p, q>> \notin DOMAIN answers
      /\ UNCHANGED <<epoch, capacity, content, attempts, timers>>
      /\ version' = version + 1
      /\ answers' = Put(answers, <<p, q>>, r)
      /\ requests' = Put(requests, <<p, rid>>, r)
      /\ scores' = Put(scores, p, r.total)
      /\ participants' = Put(participants, p, entry)
  BY DEF Scored, RoomExists
<1>2. entry.count = participants[p].count + 1
      /\ entry.cursor = Cursor(attempts[p].order, Answered(p) \cup {q})
  OBVIOUS
<1>3. r.total = scores[p] + r.points
  BY DEF Scored, Issued
<1>4. p \in DOMAIN scores
  BY <1>1 DEF Consistent, Rostered
<1> HIDE DEF entry
<1>5. /\ DOMAIN participants' = DOMAIN participants /\ participants'[p] = entry
      /\ \A x \in DOMAIN participants : x # p => participants'[x] = participants[x]
  BY <1>1 DEF Put
<1>6. /\ DOMAIN scores' = DOMAIN scores /\ scores'[p] = r.total
      /\ \A x \in DOMAIN scores : x # p => scores'[x] = scores[x]
  BY <1>1, <1>4 DEF Put
<1>7. /\ DOMAIN answers' = DOMAIN answers \cup {<<p, q>>} /\ answers'[<<p, q>>] = r
      /\ \A k \in DOMAIN answers : answers'[k] = answers[k]
      /\ DOMAIN requests' = DOMAIN requests \cup {<<p, rid>>}
  BY <1>1 DEF Put
<1>8. q \notin Answered(p) /\ Answered(p)' = Answered(p) \cup {q}
  BY <1>1, <1>7 DEF Answered
<1>9. \A x : x # p => Answered(x)' = Answered(x)
  BY <1>7 DEF Answered
<1>10. QED
  BY <1>1, <1>2, <1>3, <1>5, <1>6, <1>7, <1>8, <1>9 DEF Effect

LEMMA Halves == \A m, n \in Nat : m % 50 = 0 /\ n \in {0, 50, 100} => (m + n) % 50 = 0
  OBVIOUS

LEMMA Wholes == \A m, n \in Nat : m % 100 = 0 /\ n \in {0, 100} => (m + n) % 100 = 0
  OBVIOUS

LEMMA AnswerConsistent ==
  ASSUME TypeOK, Consistent, NEW p \in Participants, NEW rid \in Submissions, NEW q \in Questions,
         NEW o \in Options, NEW r \in Receipt, Scored(p, rid, q, o, r)
  PROVE  Consistent'
<1>0. Effect(p, rid, q, r)
  BY ScoredEffect
<1>1. /\ epoch # 0 /\ p \in DOMAIN participants /\ <<p, q>> \notin DOMAIN answers
      /\ UNCHANGED <<epoch, capacity, content, attempts, timers>>
      /\ DOMAIN participants' = DOMAIN participants
      /\ DOMAIN scores' = DOMAIN scores
      /\ DOMAIN answers' = DOMAIN answers \cup {<<p, q>>}
  BY <1>0 DEF Effect
<1>2. Unopened' /\ Untimed' /\ RosterFits' /\ (RoomExists => capacity \in 1..200)' /\ Rostered'
  BY <1>1 DEF Consistent, Unopened, Untimed, RosterFits, Rostered, RoomExists, Size
<1>3. OnlyMembers'
  BY <1>1 DEF Consistent, OnlyMembers
<1>4. MemberAgrees(p) /\ ScoreFits(p)
  BY <1>1 DEF Consistent
<1>5. MemberAgrees(p)'
  <2>1. IsFiniteSet(Answered(p)) /\ q \notin Answered(p) /\ Answered(p)' = Answered(p) \cup {q}
    BY <1>0, AnsweredFinite DEF Effect
  <2>2. Cardinality(Answered(p) \cup {q}) = Cardinality(Answered(p)) + 1
    <3> DEFINE S == Answered(p)
    <3>1. IsFiniteSet(S) /\ q \notin S
      BY <2>1
    <3> HIDE DEF S
    <3>2. Cardinality(S \cup {q}) = Cardinality(S) + 1
      BY <3>1, FS_AddElement
    <3>3. QED
      BY <3>2 DEF S
  <2>3. participants'[p].count = participants[p].count + 1
    BY <1>0 DEF Effect
  <2>4. participants'[p].cursor = Cursor(attempts[p].order, Answered(p) \cup {q})
    BY <1>0 DEF Effect
  <2>5. QED
    BY <1>1, <1>4, <2>1, <2>2, <2>3, <2>4 DEF MemberAgrees, Cursor
<1>6. ScoreFits(p)'
  <2>1. scores[p] \in Nat /\ participants[p].count \in Nat
    <3>1. p \in DOMAIN scores
      BY <1>1 DEF Consistent, Rostered
    <3>2. participants[p] \in Progress
      BY <1>1 DEF TypeOK
    <3>3. participants[p].count \in Nat
      BY <3>2, NType DEF Progress
    <3>4. scores[p] \in Nat
      BY <3>1 DEF TypeOK
    <3>5. QED
      BY <3>3, <3>4
  <2>2. r.points \in {0, 50, 100} /\ (content = "legacy" => r.points \in {0, 100})
    BY DEF Scored, Issued, Receipt
  <2>3. scores'[p] = scores[p] + r.points /\ participants'[p].count = participants[p].count + 1
    BY <1>0 DEF Effect
  <2>4. scores'[p] % 50 = 0
    <3>1. scores[p] % 50 = 0 /\ r.points \in Nat
      BY <1>4, <2>2 DEF ScoreFits
    <3>2. QED
      BY <2>1, <2>2, <2>3, <3>1, Halves
  <2>5. content' = "legacy" => scores'[p] % 100 = 0
    <3>1. content = "legacy" => scores[p] % 100 = 0 /\ r.points \in {0, 100} /\ r.points \in Nat
      BY <1>4, <2>2 DEF ScoreFits
    <3>2. QED
      BY <1>1, <2>1, <2>3, <3>1, Wholes
  <2>6. scores'[p] <= participants'[p].count * 100
    <3>1. scores[p] <= participants[p].count * 100
      BY <1>4 DEF ScoreFits
    <3>2. \A m, n, k \in Nat : m <= n * 100 /\ k <= 100 => m + k <= (n + 1) * 100
      OBVIOUS
    <3>3. r.points \in Nat /\ r.points <= 100
      BY <2>2
    <3>4. scores[p] + r.points <= (participants[p].count + 1) * 100
      BY <2>1, <3>1, <3>2, <3>3
    <3>5. QED
      BY <2>3, <3>4
  <2>7. QED
    BY <2>4, <2>5, <2>6 DEF ScoreFits
<1>7. ASSUME NEW x \in DOMAIN participants, x # p PROVE MemberAgrees(x)' /\ ScoreFits(x)'
  <2>1. MemberAgrees(x) /\ ScoreFits(x) /\ x \in DOMAIN scores
    BY DEF Consistent, Rostered
  <2>2. /\ Answered(x)' = Answered(x) /\ participants'[x] = participants[x]
        /\ scores'[x] = scores[x]
    BY <1>0, <1>7, <2>1 DEF Effect
  <2>3. MemberAgrees(x)'
    BY <1>1, <2>1, <2>2 DEF MemberAgrees, Cursor
  <2>4. ScoreFits(x)'
    BY <1>1, <2>1, <2>2 DEF ScoreFits
  <2>5. QED
    BY <2>3, <2>4
<1>8. QED
  BY <1>1, <1>2, <1>3, <1>5, <1>6, <1>7 DEF Consistent

LEMMA IdleConsistent == Consistent /\ Idle => Consistent'
<1> SUFFICES ASSUME Consistent, Idle PROVE Consistent'
  OBVIOUS
<1>1. UNCHANGED <<epoch, version, capacity, content, participants, scores, attempts, answers, requests, timers>>
  BY DEF Idle, meta
<1>2. Unopened' /\ Untimed' /\ RosterFits' /\ (RoomExists => capacity \in 1..200)' /\ Rostered' /\ OnlyMembers'
  BY <1>1 DEF Consistent, Unopened, Untimed, RosterFits, Rostered, OnlyMembers, RoomExists, Size
<1>3. ASSUME NEW p \in DOMAIN participants PROVE MemberAgrees(p)' /\ ScoreFits(p)'
  <2>1. Answered(p)' = Answered(p)
    BY <1>1 DEF Answered
  <2>2. MemberAgrees(p) /\ ScoreFits(p)
    BY DEF Consistent
  <2>3. QED
    BY <1>1, <2>1, <2>2 DEF MemberAgrees, ScoreFits, Cursor
<1>4. QED
  BY <1>1, <1>2, <1>3 DEF Consistent

LEMMA ConsistentStep == TypeOK /\ Consistent /\ [Next]_vars => Consistent'
<1> SUFFICES ASSUME TypeOK, Consistent, [Next]_vars PROVE Consistent'
  OBVIOUS
<1>1. Unopened /\ Untimed /\ RosterFits
  BY DEF Consistent
<1>2. QED
  BY <1>1, Kinds, RestartConsistent, UpgradeConsistent, JoinConsistent, StartConsistent,
     AnswerConsistent, IdleConsistent

THEOREM StaysConsistent == Spec => []Consistent
<1>1. QED
  BY ConsistentInit, ConsistentStep, TypeCorrect, PTL DEF Spec
-----------------------------------------------------------------------------
(***************************************************************************)
(* The version counts the accepted joins and answers, which a capacity and *)
(* a number of questions bound: it never comes near the VersionLimit.      *)
(***************************************************************************)
Counted ==
  /\ IsFiniteSet(DOMAIN answers)
  /\ version = Cardinality(DOMAIN participants) + Cardinality(DOMAIN answers)

LEMMA CountedStep == TypeOK /\ Consistent /\ Counted /\ [Next]_vars => Counted'
<1> SUFFICES ASSUME TypeOK, Consistent, Counted, [Next]_vars PROVE Counted'
  OBVIOUS
<1>1. CASE Restarted
  <2>1. DOMAIN participants' = {} /\ DOMAIN answers' = {} /\ version' = 0
    BY <1>1, EmptyType DEF Restarted
  <2>2. QED
    BY <2>1, FS_EmptySet DEF Counted
<1>2. ASSUME NEW p \in Participants, Joined(p) PROVE Counted'
  <2>1. /\ p \notin DOMAIN participants /\ answers' = answers /\ version' = version + 1
        /\ participants' = Put(participants, p, [count |-> 0, cursor |-> 0])
    BY <1>2 DEF Joined
  <2>2. DOMAIN participants' = DOMAIN participants \cup {p}
    BY <2>1, PutIs
  <2>3. IsFiniteSet(DOMAIN participants)
    BY DEF Consistent, RosterFits
  <2>4. Cardinality(DOMAIN participants') = Cardinality(DOMAIN participants) + 1
    BY <2>1, <2>2, <2>3, FS_AddElement
  <2>5. Cardinality(DOMAIN participants) \in Nat /\ Cardinality(DOMAIN answers) \in Nat
    BY <2>3, FS_CardinalityType DEF Counted
  <2>6. QED
    BY <2>1, <2>4, <2>5 DEF Counted
<1>3. ASSUME NEW p \in Participants, NEW rid \in Submissions, NEW q \in Questions,
             NEW o \in Options, NEW r \in Receipt, Scored(p, rid, q, o, r)
      PROVE  Counted'
  <2>0. Effect(p, rid, q, r)
    BY <1>3, ScoredEffect
  <2>1. /\ DOMAIN participants' = DOMAIN participants /\ <<p, q>> \notin DOMAIN answers
        /\ DOMAIN answers' = DOMAIN answers \cup {<<p, q>>} /\ version' = version + 1
    BY <2>0 DEF Effect
  <2>2. IsFiniteSet(DOMAIN participants) /\ IsFiniteSet(DOMAIN answers)
    BY DEF Consistent, RosterFits, Counted
  <2>3. /\ Cardinality(DOMAIN answers') = Cardinality(DOMAIN answers) + 1
        /\ IsFiniteSet(DOMAIN answers')
    BY <2>1, <2>2, FS_AddElement
  <2>4. Cardinality(DOMAIN participants) \in Nat /\ Cardinality(DOMAIN answers) \in Nat
    BY <2>2, FS_CardinalityType
  <2>5. QED
    BY <2>1, <2>3, <2>4 DEF Counted
<1>4. CASE \/ Upgraded
           \/ \E p \in Participants, q \in Questions : Started(p, q)
           \/ Idle
  <2>1. UNCHANGED <<version, participants, answers>>
    BY <1>4 DEF Upgraded, Started, Idle, meta
  <2>2. QED
    BY <2>1 DEF Counted
<1>5. Unopened /\ Untimed /\ RosterFits
  BY DEF Consistent
<1>6. QED
  BY <1>1, <1>2, <1>3, <1>4, <1>5, Kinds

LEMMA CountedInit == Init => Counted
<1> SUFFICES ASSUME Init PROVE Counted
  OBVIOUS
<1>1. DOMAIN participants = {} /\ DOMAIN answers = {} /\ version = 0
  BY EmptyType DEF Init
<1>2. QED
  BY <1>1, FS_EmptySet DEF Counted

\* The keys of a book of n questions a member, over a finite roster.
LEMMA BookBounded ==
  ASSUME NEW M, IsFiniteSet(M), NEW B, B \subseteq Participants \X Questions,
         \A k \in B : k[1] \in M
  PROVE  Cardinality(B) <= Cardinality(M) * N
<1>1. ASSUME NEW k \in B PROVE k \in M \X Questions
  <2>1. PICK a \in Participants, b \in Questions : k = <<a, b>>
    OBVIOUS
  <2>2. a \in M
    BY <2>1
  <2>3. QED
    BY <2>1, <2>2
<1>2. B \in SUBSET (M \X Questions)
  BY <1>1
<1>3. /\ IsFiniteSet(M \X Questions)
      /\ Cardinality(M \X Questions) = Cardinality(M) * Cardinality(Questions)
  BY NType, FS_Product
<1>4. Cardinality(B) <= Cardinality(M \X Questions)
  BY <1>2, <1>3, FS_Subset
<1>5. Cardinality(Questions) = N
  BY DEF N
<1>6. QED
  BY <1>3, <1>4, <1>5

LEMMA VersionBounded ==
  ASSUME TypeOK, Consistent, Counted
  PROVE  version <= capacity * (N + 1) /\ version <= VersionLimit
<1> DEFINE members == Cardinality(DOMAIN participants)
           given == Cardinality(DOMAIN answers)
<1>1. IsFiniteSet(DOMAIN participants) /\ Cardinality(DOMAIN participants) <= capacity
  BY DEF Consistent, RosterFits, Size
<1>2. members \in Nat
  BY <1>1, FS_CardinalityType
<1>3. DOMAIN answers \subseteq Participants \X Questions
  BY DEF TypeOK
<1>4. \A k \in DOMAIN answers : k[1] \in DOMAIN participants
  BY DEF Consistent, OnlyMembers
<1>5. given <= members * N
  BY <1>1, <1>3, <1>4, BookBounded
<1>6. given \in Nat
  BY FS_CardinalityType DEF Counted
<1>7. version = members + given /\ members <= capacity
  BY <1>1 DEF Counted
<1>8. capacity \in 0..200 /\ N \in 1..8
  BY NType DEF TypeOK
<1> HIDE DEF members, given
<1>9. \A a, b, n \in Nat : a <= b => a + a * n <= b * (n + 1)
  <2> SUFFICES ASSUME NEW a \in Nat, NEW b \in Nat, NEW n \in Nat, a <= b
               PROVE  a + a * n <= b * (n + 1)
    OBVIOUS
  <2>1. a * (n + 1) <= b * (n + 1)
    OBVIOUS
  <2>2. a * (n + 1) = a + a * n
    OBVIOUS
  <2>3. QED
    BY <2>1, <2>2
<1>10. members + members * N <= capacity * (N + 1)
  BY <1>2, <1>7, <1>8, <1>9
<1>11. version <= capacity * (N + 1)
  <2>1. members * N \in Int
    BY <1>2, <1>8
  <2>2. capacity * (N + 1) \in Int
    BY <1>8
  <2>3. QED
    BY <1>2, <1>5, <1>6, <1>7, <1>10, <2>1, <2>2
<1>12. \A a \in 0..200, n \in 1..8 : a * (n + 1) <= 1000000
  OBVIOUS
<1>13. capacity * (N + 1) <= 1000000 /\ capacity * (N + 1) \in Int
  BY <1>8, <1>12
<1>14. version \in Nat
  BY DEF TypeOK
<1>15. QED
  BY <1>11, <1>13, <1>14 DEF VersionLimit

\* An accepted order asks every question, so that a cursor at its end has
\* passed them all.
LEMMA OrderTakesEach ==
  ASSUME NEW order \in Orders
  PROVE  \A i, j \in 1..N : order[i] = order[j] => i = j
<1>1. Len(order) = N
  BY NType DEF Orders, OrderAccepted, N
<1>2. \A i \in 1..N : order[i] \in Questions \ {order[j] : j \in 1..(i - 1)}
  BY <1>1 DEF Orders, OrderAccepted
<1>3. QED
  BY <1>2, NType

LEMMA OrderAsksAll ==
  ASSUME NEW order \in Orders
  PROVE  \A q \in Questions : \E i \in 1..N : order[i] = q
<1>1. order \in Injection(1..N, Questions)
  BY OrderTakesEach DEF Orders, Injection, IsInjective
<1>2. Cardinality(1..N) = N
  BY NType, FS_Interval
<1>3. order \in Surjection(1..N, Questions)
  BY NType, <1>1, <1>2, FS_Injection DEF N
<1>4. QED
  BY <1>3 DEF Surjection

LEMMA MemberReadable ==
  ASSUME TypeOK, Consistent, NEW p \in DOMAIN participants
  PROVE  RowReadable(p) /\ OwnStateReadable(p)
<1>1. MemberAgrees(p) /\ ScoreFits(p) /\ p \in DOMAIN scores /\ p \in DOMAIN attempts
  BY DEF Consistent, Rostered
<1>2. participants[p].count \in 0..N /\ participants[p].cursor \in 0..N
  <2>1. participants[p] \in Progress
    BY DEF TypeOK
  <2>2. QED
    BY <2>1 DEF Progress
<1>3. scores[p] \in Nat
  BY <1>1 DEF TypeOK
<1>4. scores[p] \in 0..(N * 100)
  <2>1. scores[p] <= participants[p].count * 100
    BY <1>1 DEF ScoreFits
  <2>2. \A m, c, n \in Nat : m <= c * 100 /\ c <= n => m <= n * 100
    OBVIOUS
  <2>3. scores[p] <= N * 100
    BY <1>2, <1>3, <2>1, <2>2, NType
  <2>4. QED
    BY <1>3, <2>3, NType
<1>5. RowReadable(p)
  BY <1>1, <1>2, <1>4 DEF RowReadable, ScoreFits
<1>6. participants[p].cursor = N => participants[p].count = N
  <2> SUFFICES ASSUME participants[p].cursor = N PROVE participants[p].count = N
    OBVIOUS
  <2> DEFINE order == attempts[p].order
  <2>1. order \in Orders
    <3>1. attempts[p] \in Plans
      BY <1>1 DEF TypeOK
    <3>2. QED
      BY <3>1 DEF Plans
  <2>2. \A i \in 1..N : order[i] \in Answered(p)
    <3>1. Cursor(order, Answered(p)) = N
      BY <1>1 DEF MemberAgrees
    <3> HIDE DEF order
    <3>2. QED
      BY <3>1, CursorIs
  <2>3. Answered(p) = Questions
    <3> HIDE DEF order
    <3>1. \A q \in Questions : \E i \in 1..N : order[i] = q
      BY <2>1, OrderAsksAll
    <3>2. Questions \subseteq Answered(p)
      BY <2>2, <3>1
    <3>3. Answered(p) \subseteq Questions
      BY DEF Answered
    <3>4. QED
      BY <3>2, <3>3
  <2>4. QED
    BY <1>1, <2>3 DEF MemberAgrees, N
<1>7. OwnStateReadable(p)
  BY <1>2, <1>6, NType DEF OwnStateReadable
<1>8. QED
  BY <1>5, <1>7

LEMMA MemberValid ==
  ASSUME TypeOK, Consistent, NEW p \in DOMAIN participants
  PROVE  ValidMember(p, 50) /\ (content = "legacy" => ValidMember(p, 100))
<1>1. MemberAgrees(p) /\ ScoreFits(p) /\ p \in DOMAIN scores /\ p \in DOMAIN attempts
  BY DEF Consistent, Rostered
<1>2. ValidPlan(attempts[p])
  <2>1. attempts[p] \in Plans
    BY <1>1 DEF TypeOK
  <2>2. QED
    BY <1>1, <2>1 DEF Plans, ValidPlan, MemberAgrees
<1>3. QED
  BY <1>1, <1>2 DEF ValidMember, MemberAgrees, ScoreFits

LEMMA PreflightHolds == TypeOK /\ Consistent /\ Counted => PreflightNeverTrips
<1> SUFFICES ASSUME TypeOK, Consistent, Counted PROVE PreflightNeverTrips
  OBVIOUS
<1>1. RoomExists => RoomPreflight
  BY VersionBounded DEF Consistent, Rostered, RosterFits, Size, RoomPreflight
<1>2. RoomExists /\ content = "legacy" => UpgradePreflight
  BY <1>1, MemberValid DEF Consistent, Rostered, Untimed, UpgradePreflight
<1>3. ~RoomExists => DOMAIN participants = {}
  BY EmptyType DEF Consistent, Unopened, RoomExists
<1>4. \A p \in Participants : MemberPreflight(p)
  BY MemberValid DEF Consistent, Rostered, MemberPreflight
<1>5. \A p \in DOMAIN scores : RowReadable(p) /\ OwnStateReadable(p)
  BY MemberReadable DEF Consistent, Rostered
<1>6. QED
  BY <1>1, <1>2, <1>3, <1>4, <1>5 DEF PreflightNeverTrips, Consistent, OnlyMembers

(***************************************************************************)
(* No sequence of legal calls leaves a room its own scripts, or the        *)
(* snapshot, would refuse to work on.                                      *)
(***************************************************************************)
THEOREM RoomNeverBricks == Spec => []PreflightNeverTrips
<1>1. Spec => []Counted
  BY CountedInit, CountedStep, TypeCorrect, StaysConsistent, PTL DEF Spec
<1>2. QED
  BY <1>1, PreflightHolds, TypeCorrect, StaysConsistent, PTL
-----------------------------------------------------------------------------
LEMMA StepVersionsBoard ==
  TypeOK /\ Consistent /\ [Next]_vars /\ epoch' = epoch =>
    /\ version' >= version
    /\ version' = version => UNCHANGED <<participants, scores>>
<1> SUFFICES ASSUME TypeOK, Consistent, [Next]_vars, epoch' = epoch
             PROVE  /\ version' >= version
                    /\ version' = version => UNCHANGED <<participants, scores>>
  OBVIOUS
<1>1. version \in Nat /\ epoch \in Nat
  BY DEF TypeOK
<1>2. CASE Restarted
  BY <1>1, <1>2 DEF Restarted
<1>3. CASE \/ Upgraded
           \/ \E p \in Participants, q \in Questions : Started(p, q)
           \/ Idle
  <2>1. UNCHANGED <<version, participants, scores>>
    BY <1>3 DEF Upgraded, Started, Idle, meta
  <2>2. QED
    BY <1>1, <2>1
<1>4. CASE \/ \E p \in Participants : Joined(p)
           \/ \E p \in Participants, rid \in Submissions, q \in Questions, o \in Options :
                \E r \in Receipt : Scored(p, rid, q, o, r)
  <2>1. version' = version + 1
    BY <1>4 DEF Joined, Scored
  <2>2. QED
    BY <1>1, <2>1
<1>5. Unopened /\ Untimed /\ RosterFits
  BY DEF Consistent
<1>6. QED
  BY <1>2, <1>3, <1>4, <1>5, Kinds

(***************************************************************************)
(* Within a round the version never falls and names what is on the board.  *)
(***************************************************************************)
THEOREM VersionOrdersBoards == Spec => VersionNamesBoard
<1>1. TypeOK /\ Consistent /\ [Next]_vars =>
        [epoch' = epoch =>
           /\ version' >= version
           /\ version' = version => UNCHANGED <<participants, scores>>]_vars
  BY StepVersionsBoard
<1>2. QED
  BY <1>1, TypeCorrect, StaysConsistent, PTL DEF Spec, VersionNamesBoard
-----------------------------------------------------------------------------
LEMMA DeadlineStep ==
  TypeOK /\ Consistent /\ ScoredAgainstStandingDeadline /\ [Next]_vars
    => ScoredAgainstStandingDeadline'
<1> SUFFICES ASSUME TypeOK, Consistent, ScoredAgainstStandingDeadline, [Next]_vars
             PROVE  ScoredAgainstStandingDeadline'
  OBVIOUS
<1> DEFINE Fair(r, k) ==
             /\ r.deadline = IF k \in DOMAIN timers THEN timers[k] ELSE 0
             /\ r.points = 100 => r.at = 0 \/ r.at < r.deadline
             /\ r.points > 0 <=> r.opt = CorrectOption[r.qid]
<1>0. \A k \in DOMAIN answers : Fair(answers[k], k)
  BY DEF ScoredAgainstStandingDeadline
<1>1. CASE Restarted
  <2>1. DOMAIN answers' = {}
    BY <1>1, EmptyType DEF Restarted
  <2>2. QED
    BY <2>1 DEF ScoredAgainstStandingDeadline
<1>2. CASE \/ Upgraded
           \/ \E p \in Participants : Joined(p)
           \/ Idle
  <2>1. UNCHANGED <<answers, timers>>
    BY <1>2 DEF Upgraded, Joined, Idle, meta
  <2>2. QED
    BY <2>1 DEF ScoredAgainstStandingDeadline
<1>3. ASSUME NEW p \in Participants, NEW q \in Questions, Started(p, q)
      PROVE  ScoredAgainstStandingDeadline'
  <2>1. <<p, q>> \notin DOMAIN answers /\ <<p, q>> \notin DOMAIN timers /\ answers' = answers
    BY <1>3 DEF Started
  <2>2. PICK deadline \in Nat \ {0} : timers' = Put(timers, <<p, q>>, deadline)
    BY <1>3 DEF Started
  <2>3. \A k \in DOMAIN answers : /\ k \in DOMAIN timers' <=> k \in DOMAIN timers
                                  /\ k \in DOMAIN timers => timers'[k] = timers[k]
    BY <2>1, <2>2 DEF Put
  <2>4. ASSUME NEW k \in DOMAIN answers' PROVE Fair(answers[k], k)'
    BY <1>0, <2>1, <2>3
  <2>5. QED
    BY <2>4 DEF ScoredAgainstStandingDeadline
<1>4. ASSUME NEW p \in Participants, NEW rid \in Submissions, NEW q \in Questions,
             NEW o \in Options, NEW r \in Receipt, Scored(p, rid, q, o, r)
      PROVE  ScoredAgainstStandingDeadline'
  <2>0. Effect(p, rid, q, r)
    BY <1>4, ScoredEffect
  <2>1. /\ DOMAIN answers' = DOMAIN answers \cup {<<p, q>>} /\ answers'[<<p, q>>] = r
        /\ \A k \in DOMAIN answers : answers'[k] = answers[k]
        /\ timers' = timers
    BY <2>0 DEF Effect
  <2>2. Fair(r, <<p, q>>)
    BY <1>4 DEF Scored, Issued
  <2>3. ASSUME NEW k \in DOMAIN answers' PROVE Fair(answers[k], k)'
    BY <1>0, <2>1, <2>2
  <2>4. QED
    BY <2>3 DEF ScoredAgainstStandingDeadline
<1>5. Unopened /\ Untimed /\ RosterFits
  BY DEF Consistent
<1>6. QED
  BY <1>1, <1>2, <1>3, <1>4, <1>5, Kinds

(***************************************************************************)
(* Every receipt was scored against the deadline that is still on record:  *)
(* none is supplied or moved afterwards.                                   *)
(***************************************************************************)
THEOREM DeadlinesStand == Spec => []ScoredAgainstStandingDeadline
<1>1. Init => ScoredAgainstStandingDeadline
  BY EmptyType DEF Init, ScoredAgainstStandingDeadline
<1>2. QED
  BY <1>1, DeadlineStep, TypeCorrect, StaysConsistent, PTL DEF Spec
-----------------------------------------------------------------------------
LEMMA RetryFindsReceipt ==
  TypeOK /\ PreflightNeverTrips /\ RequestsMatchAnswers => RetryGetsOriginalReceipt
<1> SUFFICES ASSUME TypeOK, PreflightNeverTrips, RequestsMatchAnswers,
                    NEW k \in DOMAIN answers
             PROVE  LET r == answers[k] IN
                    /\ AnswerReply(k[1], epoch, r.rid, r.qid, r.opt, content)
                         = [code |-> "replayed", receipt |-> {r}]
                    /\ \A rid \in Submissions, o \in Options :
                         <<k[1], rid>> \notin DOMAIN requests =>
                           AnswerReply(k[1], epoch, rid, k[2], o, content)
                             = [code |-> "ALREADY_ANSWERED", receipt |-> {r}]
  BY DEF RetryGetsOriginalReceipt
<1> DEFINE r == answers[k]
           p == k[1]
           q == k[2]
<1>1. k \in Participants \X Questions
  BY DEF TypeOK
<1>2. p \in Participants /\ k = <<p, q>>
  BY <1>1
<1>3. p \in DOMAIN participants
  BY DEF PreflightNeverTrips
<1>4. RoomExists /\ Preflight(p)
  BY <1>2, <1>3 DEF PreflightNeverTrips, Preflight
<1>5. r.qid = q /\ <<p, r.rid>> \in DOMAIN requests /\ requests[<<p, r.rid>>] = r
  BY DEF RequestsMatchAnswers
<1>6. AnswerReply(p, epoch, r.rid, r.qid, r.opt, content) = [code |-> "replayed", receipt |-> {r}]
  <2> HIDE DEF r, p, q
  <2>1. QED
    BY <1>3, <1>4, <1>5 DEF AnswerReply
<1>7. ASSUME NEW rid \in Submissions, NEW o \in Options, <<p, rid>> \notin DOMAIN requests
      PROVE  AnswerReply(p, epoch, rid, q, o, content)
               = [code |-> "ALREADY_ANSWERED", receipt |-> {r}]
  <2>1. <<p, q>> \in DOMAIN answers /\ answers[<<p, q>>] = r
    BY <1>2
  <2> HIDE DEF r, p, q
  <2>2. QED
    BY <1>3, <1>4, <1>7, <2>1 DEF AnswerReply
<1>8. QED
  BY <1>6, <1>7

(***************************************************************************)
(* Whoever sends an answer again in its round gets the original receipt.   *)
(***************************************************************************)
THEOREM RetriesAreIdempotent == Spec => []RetryGetsOriginalReceipt
<1>1. QED
  BY RetryFindsReceipt, TypeCorrect, RoomNeverBricks, BooksAgree, PTL
-----------------------------------------------------------------------------
(***************************************************************************)
(* The ledger.  An accepted answer has the highest version of all, so that *)
(* its total continues the latest one its participant had.                 *)
(***************************************************************************)
Dated ==
  /\ \A k \in DOMAIN answers : answers[k].version <= version
  /\ \A j, k \in DOMAIN answers : answers[j].version = answers[k].version => j = k

Chained(p) ==
  /\ Ledger(p) = {} => scores[p] = 0
  /\ \A r \in Ledger(p) :
       /\ (\A s \in Ledger(p) : s.version <= r.version) => scores[p] = r.total
       /\ \/ (\A s \in Ledger(p) : s.version >= r.version) /\ r.total = r.points
          \/ \E s \in Ledger(p) :
               /\ s.version < r.version /\ r.total = s.total + r.points
               /\ \A t \in Ledger(p) : t.version <= s.version \/ t.version >= r.version

LEMMA LedgerHolds == \A p : \A r \in Ledger(p) : \E k \in DOMAIN answers : r = answers[k]
  BY DEF Ledger, Answered

LEMMA LedgerDated ==
  ASSUME TypeOK, Dated, NEW p
  PROVE  \A r \in Ledger(p) : r.version \in Nat /\ r.version <= version
<1> SUFFICES ASSUME NEW r \in Ledger(p) PROVE r.version \in Nat /\ r.version <= version
  OBVIOUS
<1>1. PICK k \in DOMAIN answers : r = answers[k]
  BY LedgerHolds
<1>2. answers[k] \in Receipt /\ answers[k].version <= version
  BY DEF TypeOK, Dated
<1>3. QED
  BY <1>1, <1>2 DEF Receipt

LEMMA LatestReceipt ==
  ASSUME TypeOK, Dated, NEW p, Ledger(p) # {}
  PROVE  \E r \in Ledger(p) : \A s \in Ledger(p) : s.version <= r.version
<1>1. \A r \in Ledger(p) : r.version \in Nat /\ r.version <= version
  BY LedgerDated
<1> DEFINE ages == {version - r.version : r \in Ledger(p)}
<1>2. version \in Nat
  BY DEF TypeOK
<1>3. ages \subseteq Nat /\ ages # {}
  BY <1>1, <1>2
<1>4. PICK age \in ages : \A a \in ages : age <= a
  BY <1>3, LeastNatural
<1>5. PICK r \in Ledger(p) : age = version - r.version
  BY <1>4
<1>6. ASSUME NEW s \in Ledger(p) PROVE s.version <= r.version
  <2>1. version - s.version \in ages
    OBVIOUS
  <2>2. version - r.version <= version - s.version
    BY <1>4, <1>5, <2>1
  <2>3. QED
    BY <1>1, <1>2, <2>2
<1>7. QED
  BY <1>6

LEMMA LedgerStep ==
  TypeOK /\ Consistent /\ Dated /\ (\A p \in DOMAIN participants : Chained(p)) /\ [Next]_vars
    => Dated' /\ (\A p \in DOMAIN participants : Chained(p))'
<1> SUFFICES ASSUME TypeOK, Consistent, Dated, \A p \in DOMAIN participants : Chained(p), [Next]_vars
             PROVE  Dated' /\ (\A p \in DOMAIN participants : Chained(p))'
  OBVIOUS
<1>1. CASE Restarted
  <2>1. DOMAIN answers' = {} /\ DOMAIN participants' = {}
    BY <1>1, EmptyType DEF Restarted
  <2>2. QED
    BY <2>1 DEF Dated
<1>2. CASE \/ Upgraded
           \/ \E p \in Participants, q \in Questions : Started(p, q)
           \/ Idle
  <2>1. UNCHANGED <<version, participants, scores, answers>>
    BY <1>2 DEF Upgraded, Started, Idle, meta
  <2>2. \A p : Ledger(p)' = Ledger(p)
    BY <2>1 DEF Ledger, Answered
  <2>3. Dated'
    BY <2>1 DEF Dated
  <2>4. \A p : Chained(p) => Chained(p)'
    BY <2>1, <2>2 DEF Chained
  <2>5. QED
    BY <2>1, <2>3, <2>4
<1>3. ASSUME NEW p \in Participants, Joined(p)
      PROVE  Dated' /\ (\A x \in DOMAIN participants : Chained(x))'
  <2>1. /\ p \notin DOMAIN participants /\ answers' = answers /\ version' = version + 1
        /\ participants' = Put(participants, p, [count |-> 0, cursor |-> 0])
        /\ scores' = Put(scores, p, 0)
    BY <1>3 DEF Joined
  <2>2. DOMAIN participants' = DOMAIN participants \cup {p} /\ scores'[p] = 0
    BY <2>1 DEF Put
  <2>3. \A x \in DOMAIN participants : scores'[x] = scores[x]
    BY <2>1 DEF Put, Consistent, Rostered
  <2>4. \A x : Ledger(x)' = Ledger(x)
    BY <2>1 DEF Ledger, Answered
  <2>5. Dated'
    <3>1. \A k \in DOMAIN answers : answers[k].version \in Nat /\ version \in Nat
      BY DEF TypeOK, Receipt
    <3>2. QED
      BY <2>1, <3>1 DEF Dated
  <2>6. Ledger(p) = {}
    BY <2>1, NothingAnswered DEF Consistent, Ledger
  <2>7. Chained(p)'
    BY <2>2, <2>4, <2>6 DEF Chained
  <2>8. ASSUME NEW x \in DOMAIN participants PROVE Chained(x)'
    BY <2>3, <2>4 DEF Chained
  <2>9. QED
    BY <2>2, <2>5, <2>7, <2>8
<1>4. ASSUME NEW p \in Participants, NEW rid \in Submissions, NEW q \in Questions,
             NEW o \in Options, NEW r \in Receipt, Scored(p, rid, q, o, r)
      PROVE  Dated' /\ (\A x \in DOMAIN participants : Chained(x))'
  <2>0. Effect(p, rid, q, r)
    BY <1>4, ScoredEffect
  <2>1. /\ DOMAIN answers' = DOMAIN answers \cup {<<p, q>>} /\ answers'[<<p, q>>] = r
        /\ <<p, q>> \notin DOMAIN answers
        /\ \A k \in DOMAIN answers : answers'[k] = answers[k]
        /\ version' = version + 1 /\ DOMAIN participants' = DOMAIN participants
        /\ p \in DOMAIN participants
    BY <2>0 DEF Effect
  <2>2. r.version = version + 1 /\ r.total = scores[p] + r.points
    BY <1>4 DEF Scored, Issued
  <2>3. version \in Nat /\ \A k \in DOMAIN answers : answers[k].version \in Nat
    BY DEF TypeOK, Receipt
  <2>4. Dated'
    <3>1. \A k \in DOMAIN answers' : answers'[k].version <= version'
      BY <2>1, <2>2, <2>3 DEF Dated
    <3>2. ASSUME NEW j \in DOMAIN answers', NEW k \in DOMAIN answers',
                 answers'[j].version = answers'[k].version
          PROVE  j = k
      <4>1. \A i \in DOMAIN answers : answers'[i].version <= version
        BY <2>1 DEF Dated
      <4>2. answers'[<<p, q>>].version = version + 1
        BY <2>1, <2>2
      <4>3. CASE j \in DOMAIN answers /\ k \in DOMAIN answers
        BY <2>1, <3>2, <4>3 DEF Dated
      <4>4. CASE j = <<p, q>> /\ k = <<p, q>>
        BY <4>4
      <4>5. CASE j \in DOMAIN answers /\ k = <<p, q>>
        BY <2>1, <2>3, <3>2, <4>1, <4>2, <4>5
      <4>6. CASE j = <<p, q>> /\ k \in DOMAIN answers
        BY <2>1, <2>3, <3>2, <4>1, <4>2, <4>6
      <4>7. QED
        BY <2>1, <4>3, <4>4, <4>5, <4>6
    <3>3. QED
      BY <3>1, <3>2 DEF Dated
  <2>5. Ledger(p)' = Ledger(p) \cup {r}
    <3>1. Answered(p)' = Answered(p) \cup {q}
      BY <2>0 DEF Effect
    <3>2. \A x \in Answered(p) : answers'[<<p, x>>] = answers[<<p, x>>]
      BY <2>1 DEF Answered
    <3>3. \A x \in Answered(p)' : answers'[<<p, x>>] \in Ledger(p) \cup {r}
      BY <2>1, <3>1, <3>2 DEF Ledger
    <3>4. Ledger(p)' \subseteq Ledger(p) \cup {r}
      BY <3>3 DEF Ledger
    <3>5. r \in Ledger(p)'
      BY <2>1, <3>1 DEF Ledger
    <3>6. ASSUME NEW x \in Answered(p) PROVE answers[<<p, x>>] \in Ledger(p)'
      <4>1. x \in Answered(p)' /\ answers'[<<p, x>>] = answers[<<p, x>>]
        BY <3>1, <3>2
      <4>2. QED
        BY <4>1 DEF Ledger
    <3>7. Ledger(p) \subseteq Ledger(p)'
      BY <3>6 DEF Ledger
    <3>8. QED
      BY <3>4, <3>5, <3>7
  <2>6. \A x : x # p => Ledger(x)' = Ledger(x)
    <3>1. ASSUME NEW x, x # p PROVE Ledger(x)' = Ledger(x)
      <4>1. Answered(x)' = Answered(x)
        BY <2>0, <3>1 DEF Effect
      <4>2. \A y \in Answered(x) : answers'[<<x, y>>] = answers[<<x, y>>]
        BY <2>1 DEF Answered
      <4>3. QED
        BY <4>1, <4>2 DEF Ledger
    <3>2. QED
      BY <3>1
  <2>7. \A s \in Ledger(p) : s.version \in Nat /\ s.version <= version
    BY LedgerDated
  <2>8. scores'[p] = r.total
    BY <2>0, <2>2 DEF Effect
  <2>9. Chained(p)
    BY <2>1
  <2>10. ASSUME NEW t \in Ledger(p)'
         PROVE  (\A s \in Ledger(p)' : s.version <= t.version) => scores'[p] = t.total
    <3>1. CASE t = r
      BY <2>8, <3>1
    <3>2. CASE t \in Ledger(p)
      <4>1. ~ (r.version <= t.version)
        BY <2>2, <2>3, <2>7, <3>2
      <4>2. QED
        BY <2>5, <4>1
    <3>3. QED
      BY <2>5, <2>10, <3>1, <3>2
  <2>11. ASSUME NEW t \in Ledger(p)'
         PROVE  \/ (\A s \in Ledger(p)' : s.version >= t.version) /\ t.total = t.points
                \/ \E s \in Ledger(p)' :
                     /\ s.version < t.version /\ t.total = s.total + t.points
                     /\ \A u \in Ledger(p)' : u.version <= s.version \/ u.version >= t.version
    <3>1. CASE t \in Ledger(p)
      <4>1. \A u \in Ledger(p)' : u \in Ledger(p) \/ u.version >= t.version
        BY <2>2, <2>3, <2>5, <2>7, <3>1
      <4>2. CASE (\A s \in Ledger(p) : s.version >= t.version) /\ t.total = t.points
        BY <4>1, <4>2
      <4>3. CASE \E s \in Ledger(p) :
                   /\ s.version < t.version /\ t.total = s.total + t.points
                   /\ \A u \in Ledger(p) : u.version <= s.version \/ u.version >= t.version
        BY <2>5, <4>1, <4>3
      <4>4. QED
        BY <2>9, <3>1, <4>2, <4>3 DEF Chained
    <3>2. CASE t = r /\ Ledger(p) = {}
      <4>1. scores[p] = 0
        BY <2>9, <3>2 DEF Chained
      <4>2. r.points \in Nat /\ r.version \in Nat
        BY DEF Receipt
      <4>3. r.total = r.points
        BY <2>2, <4>1, <4>2
      <4>4. \A s \in Ledger(p)' : s.version >= t.version
        BY <2>5, <3>2, <4>2
      <4>5. QED
        BY <3>2, <4>3, <4>4
    <3>3. CASE t = r /\ Ledger(p) # {}
      <4>1. PICK last \in Ledger(p) : \A s \in Ledger(p) : s.version <= last.version
        BY <3>3, LatestReceipt
      <4>2. scores[p] = last.total
        BY <2>9, <4>1 DEF Chained
      <4>3. last.version < r.version
        BY <2>2, <2>3, <2>7, <4>1
      <4>4. r.total = last.total + r.points
        BY <2>2, <4>2
      <4>5. \A u \in Ledger(p)' : u.version <= last.version \/ u.version >= r.version
        BY <2>2, <2>3, <2>5, <4>1
      <4>6. QED
        BY <2>5, <3>3, <4>1, <4>3, <4>4, <4>5
    <3>4. QED
      BY <2>5, <2>11, <3>1, <3>2, <3>3
  <2>12. Chained(p)'
    BY <2>5, <2>10, <2>11 DEF Chained
  <2>13. ASSUME NEW x \in DOMAIN participants, x # p PROVE Chained(x)'
    <3>1. Ledger(x)' = Ledger(x)
      BY <2>6, <2>13
    <3>2. scores'[x] = scores[x]
      BY <2>0, <2>13 DEF Effect, Consistent, Rostered
    <3>3. QED
      BY <3>1, <3>2 DEF Chained
  <2>14. QED
    BY <2>1, <2>4, <2>12, <2>13
<1>5. Unopened /\ Untimed /\ RosterFits
  BY DEF Consistent
<1>6. QED
  BY <1>1, <1>2, <1>3, <1>4, <1>5, Kinds

LEMMA LedgerInit == Init => Dated /\ \A p \in DOMAIN participants : Chained(p)
<1> SUFFICES ASSUME Init PROVE Dated /\ \A p \in DOMAIN participants : Chained(p)
  OBVIOUS
<1>1. DOMAIN participants = {} /\ DOMAIN answers = {}
  BY EmptyType DEF Init
<1>2. QED
  BY <1>1 DEF Dated

LEMMA LedgerParts ==
  ASSUME TypeOK, Consistent, Counted, Dated, \A p \in DOMAIN participants : Chained(p)
  PROVE  LedgerBalances
BY VersionBounded DEF LedgerBalances, Counted, Dated, Chained

(***************************************************************************)
(* Every participant's receipts, in the order of their versions, add up to *)
(* the score on the leaderboard; no two receipts share a version.          *)
(***************************************************************************)
THEOREM LedgersBalance == Spec => []LedgerBalances
<1>1. Spec => []Counted
  BY CountedInit, CountedStep, TypeCorrect, StaysConsistent, PTL DEF Spec
<1>2. Spec => [](Dated /\ \A p \in DOMAIN participants : Chained(p))
  BY LedgerInit, LedgerStep, TypeCorrect, StaysConsistent, PTL DEF Spec
<1>3. TypeOK /\ Consistent /\ Counted /\ (Dated /\ \A p \in DOMAIN participants : Chained(p))
        => LedgerBalances
  BY LedgerParts
<1>4. QED
  BY <1>1, <1>2, <1>3, TypeCorrect, StaysConsistent, PTL
-----------------------------------------------------------------------------
\* The receipts as the promise sees them: the first answers and their points.
Awards == [k \in DOMAIN answers |-> [option |-> answers[k].opt, points |-> answers[k].points]]

\* The abstract quiz counts its players as the room does.
LEMMA SameCardinality == \A S : Promise!Cardinality(S) = Cardinality(S)
  BY DEF Cardinality, Promise!Cardinality

LEMMA NoAwards == answers = Empty => Awards = << >>
  BY DEF Awards, Empty

LEMMA PromiseInit == Init => Promise!Init
<1> SUFFICES ASSUME Init PROVE Promise!Init
  OBVIOUS
<1>1. epoch = 0 /\ capacity = 0 /\ DOMAIN participants = {} /\ scores = << >>
  BY EmptyType DEF Init, Empty
<1>2. Awards = << >>
  BY NoAwards DEF Init
<1>3. QED
  BY <1>1, <1>2 DEF Promise!Init, Awards

LEMMA RestartOpens == TypeOK /\ Restarted => Promise!Open
<1> SUFFICES ASSUME TypeOK, Restarted PROVE Promise!Open
  OBVIOUS
<1>1. epoch' \in Nat /\ epoch' > epoch /\ capacity' \in 1..200
  BY DEF Restarted, TypeOK
<1>2. DOMAIN participants' = {} /\ scores' = << >>
  BY EmptyType DEF Restarted, Empty
<1>3. Awards' = << >>
  BY DEF Restarted, Awards, Empty
<1>4. QED
  BY <1>1, <1>2, <1>3 DEF Promise!Open, Awards

LEMMA JoinEnters ==
  ASSUME TypeOK, Consistent, NEW p \in Participants, Joined(p)
  PROVE  Promise!Enter(p)
<1>1. /\ epoch # 0 /\ p \notin DOMAIN participants /\ Cardinality(DOMAIN participants) < capacity
      /\ participants' = Put(participants, p, [count |-> 0, cursor |-> 0])
      /\ scores' = Put(scores, p, 0)
      /\ UNCHANGED <<epoch, capacity, answers>>
  BY DEF Joined, RoomExists, Size
<1>2. epoch > 0
  BY <1>1 DEF TypeOK
<1>3. DOMAIN participants' = DOMAIN participants \cup {p}
  BY <1>1 DEF Put
<1>4. scores' = [x \in DOMAIN scores \cup {p} |-> IF x = p THEN 0 ELSE scores[x]]
  BY <1>1 DEF Put
<1>5. Awards' = Awards
  BY <1>1 DEF Awards
<1>6. QED
  BY <1>1, <1>2, <1>3, <1>4, <1>5, SameCardinality DEF Promise!Enter, Awards

LEMMA AnswerAwards ==
  ASSUME TypeOK, Consistent, NEW p \in Participants, NEW rid \in Submissions, NEW q \in Questions,
         NEW o \in Options, NEW r \in Receipt, Scored(p, rid, q, o, r)
  PROVE  Promise!Award(p, q, o)
<1>0. Effect(p, rid, q, r)
  BY ScoredEffect
<1>1. /\ p \in DOMAIN participants /\ <<p, q>> \notin DOMAIN answers
      /\ DOMAIN participants' = DOMAIN participants
      /\ UNCHANGED <<epoch, capacity>>
  BY <1>0 DEF Effect
<1>2. /\ DOMAIN answers' = DOMAIN answers \cup {<<p, q>>} /\ answers'[<<p, q>>] = r
      /\ \A k \in DOMAIN answers : answers'[k] = answers[k]
  BY <1>0 DEF Effect
<1>3. r.opt = o /\ r.points \in Promise!Worth(q, o)
  <2>1. r.opt = o /\ (r.points > 0 <=> o = CorrectOption[q]) /\ r.points \in {0, 50, 100}
    BY DEF Scored, Issued, Receipt
  <2>2. QED
    BY <2>1 DEF Promise!Worth
<1>4. DOMAIN Awards = DOMAIN answers
  BY DEF Awards
<1>5. Awards' = [k \in DOMAIN Awards \cup {<<p, q>>} |->
                   IF k = <<p, q>> THEN [option |-> o, points |-> r.points] ELSE Awards[k]]
  <2>1. \A k \in DOMAIN answers :
          Awards[k] = [option |-> answers'[k].opt, points |-> answers'[k].points]
    BY <1>2 DEF Awards
  <2>2. Awards' = [k \in DOMAIN answers \cup {<<p, q>>} |->
                     [option |-> answers'[k].opt, points |-> answers'[k].points]]
    BY <1>2 DEF Awards
  <2>3. QED
    BY <1>2, <1>3, <1>4, <2>1, <2>2
<1>6. scores' = [scores EXCEPT ![p] = @ + r.points]
  <2>1. p \in DOMAIN scores /\ scores' = Put(scores, p, scores[p] + r.points)
    BY <1>1 DEF Scored, Issued, Consistent, Rostered
  <2>2. QED
    BY <2>1 DEF Put
<1>7. QED
  BY <1>1, <1>3, <1>4, <1>5, <1>6 DEF Promise!Award, Awards

LEMMA OtherStepsStutter ==
  ASSUME \/ Upgraded
         \/ \E p \in Participants, q \in Questions : Started(p, q)
         \/ Idle
  PROVE  UNCHANGED Promise!quizVars
<1>1. UNCHANGED <<epoch, capacity, participants, scores, answers>>
  BY DEF Upgraded, Started, Idle, meta
<1>2. Awards' = Awards
  BY <1>1 DEF Awards
<1>3. QED
  BY <1>1, <1>2 DEF Promise!quizVars, Awards

LEMMA StepKeepsPromise ==
  TypeOK /\ Consistent /\ [Next]_vars => [Promise!Next]_(Promise!quizVars)
<1> SUFFICES ASSUME TypeOK, Consistent, [Next]_vars PROVE [Promise!Next]_(Promise!quizVars)
  OBVIOUS
<1>1. Unopened /\ Untimed /\ RosterFits
  BY DEF Consistent
<1>2. CASE Restarted
  BY <1>2, RestartOpens DEF Promise!Next
<1>3. ASSUME NEW p \in Participants, Joined(p) PROVE Promise!Next
  BY <1>3, JoinEnters DEF Promise!Next
<1>4. ASSUME NEW p \in Participants, NEW rid \in Submissions, NEW q \in Questions,
             NEW o \in Options, NEW r \in Receipt, Scored(p, rid, q, o, r)
      PROVE  Promise!Next
  <2>1. Promise!Award(p, q, o)
    BY <1>4, AnswerAwards
  <2>2. QED
    BY <2>1 DEF Promise!Next
<1>5. QED
  BY <1>1, <1>2, <1>3, <1>4, Kinds, OtherStepsStutter

(***************************************************************************)
(* The room implements the abstract quiz: every step of every script opens *)
(* a round, seats a player below the capacity, awards a first answer once  *)
(* and by the key, or is invisible to the players.                         *)
(***************************************************************************)
THEOREM RoomImplementsQuiz == Spec => KeepsPromise
<1>1. QED
  BY PromiseInit, StepKeepsPromise, TypeCorrect, StaysConsistent, PTL
     DEF Spec, KeepsPromise, Promise!Spec
-----------------------------------------------------------------------------
(* Draws and ranks *)

LEMMA LeastOf ==
  ASSUME NEW T, T \subseteq Nat, T # {}
  PROVE  \E x \in T : \A y \in T : x <= y
<1>1. \A i, j \in Nat : i < j => <<i, j>> \in OpToRel(<, Nat)
  BY DEF OpToRel
<1>2. QED
  BY <1>1, LeastUnder, NatLessThanWellFounded, Zenon

LEMMA GreatestOf ==
  ASSUME NEW n \in Nat, NEW T, T \subseteq 1..n, T # {}
  PROVE  \E i \in T : \A j \in T : j <= i
<1> DEFINE far == {n - i : i \in T}
<1>1. far \subseteq Nat /\ far # {}
  <2>1. \A i \in 1..n : n - i \in Nat
    OBVIOUS
  <2>2. QED
    BY <2>1, Zenon
<1>2. PICK d \in far : \A e \in far : d <= e
  <2> HIDE DEF far
  <2>1. QED
    BY <1>1, LeastOf
<1>3. PICK i \in T : d = n - i
  OBVIOUS
<1>4. ASSUME NEW j \in T PROVE j <= i
  <2>1. n - i <= n - j
    BY <1>2, <1>3
  <2>2. QED
    BY <2>1
<1>5. QED
  BY <1>4

(***************************************************************************)
(* A walk down from n: where every place can be left for the one below,    *)
(* there is a walk from any place to start from.                           *)
(***************************************************************************)
Leads(n, W, steps) == \A i \in 2..n : \A v \in W[i] : \E w \in W[i - 1] : <<i, v, w>> \in steps
Walks(f, n, start, W, steps) ==
  /\ f[n] = start
  /\ \A i \in 1..n : f[i] \in W[i]
  /\ \A i \in 2..n : <<i, f[i], f[i - 1]>> \in steps

LEMMA WalksDown ==
  ASSUME NEW n \in Nat \ {0}, NEW W, NEW start \in W[n], NEW steps, Leads(n, W, steps)
  PROVE  \E f : Walks(f, n, start, W, steps)
<1> DEFINE Walk(f, k) ==
             /\ DOMAIN f = k..n /\ f[n] = start
             /\ \A i \in k..n : f[i] \in W[i]
             /\ \A i \in (k + 1)..n : <<i, f[i], f[i - 1]>> \in steps
           reached == {k \in 1..n : \E f : Walk(f, k)}
<1>1. n \in reached
  <2>1. n..n = {n} /\ (n + 1)..n = {}
    OBVIOUS
  <2> DEFINE f == [i \in n..n |-> start]
  <2>2. DOMAIN f = n..n /\ f[n] = start
    BY <2>1
  <2> HIDE DEF f
  <2>3. \A i \in n..n : f[i] \in W[i]
    BY <2>1, <2>2
  <2>4. Walk(f, n)
    BY <2>1, <2>2, <2>3
  <2>5. QED
    BY <2>4
<1>2. PICK k \in reached : \A j \in reached : k <= j
  <2>1. reached \subseteq Nat
    OBVIOUS
  <2> HIDE DEF reached
  <2>2. QED
    BY <1>1, <2>1, LeastOf
<1>3. PICK f : Walk(f, k)
  BY <1>2
<1>4. k = 1
  <2>1. SUFFICES ASSUME k # 1 PROVE FALSE
    OBVIOUS
  <2>2. k \in 2..n /\ k - 1 \in 1..n /\ (k - 1) + 1 = k
    BY <2>1
  <2>3. PICK w \in W[k - 1] : <<k, f[k], w>> \in steps
    <3>1. k \in k..n
      BY <2>2
    <3>2. f[k] \in W[k]
      BY <1>3, <3>1
    <3>3. QED
      BY <2>2, <3>2, Zenon DEF Leads
  <2> DEFINE g == [i \in (k - 1)..n |-> IF i = k - 1 THEN w ELSE f[i]]
  <2>4. /\ DOMAIN g = (k - 1)..n /\ g[k - 1] = w
        /\ \A i \in k..n : g[i] = f[i]
    BY <2>2
  <2> HIDE DEF g
  <2>5. g[n] = start /\ \A i \in (k - 1)..n : g[i] \in W[i]
    BY <1>3, <2>2, <2>4
  <2>6. ASSUME NEW i \in k..n PROVE <<i, g[i], g[i - 1]>> \in steps
    <3>1. CASE i = k
      BY <2>2, <2>3, <2>4, <3>1
    <3>2. CASE i # k
      <4>1. i \in (k + 1)..n /\ i \in k..n /\ i - 1 \in k..n
        BY <2>2, <3>2
      <4>2. QED
        BY <1>3, <2>4, <4>1
    <3>3. QED
      BY <3>1, <3>2
  <2>7. Walk(g, k - 1)
    BY <2>2, <2>4, <2>5, <2>6
  <2>8. k - 1 \in reached
    BY <2>2, <2>7
  <2>9. QED
    <3> HIDE DEF reached
    <3>1. QED
      BY <1>2, <2>2, <2>8
<1>5. Walks(f, n, start, W, steps)
  BY <1>3, <1>4 DEF Walks
<1>6. QED
  BY <1>5
-----------------------------------------------------------------------------
(* Shuffles *)

\* An arrangement of S: every item once.
Arranges(s, n, S) ==
  /\ s \in [1..n -> S]
  /\ \A i, j \in 1..n : s[i] = s[j] => i = j
  /\ \A x \in S : \E i \in 1..n : s[i] = x

LEMMA SwappedIs ==
  ASSUME NEW n \in Nat, NEW S, NEW s \in [1..n -> S], NEW i \in 1..n, NEW j \in 1..n
  PROVE  /\ Swapped(s, i, j) \in [1..n -> S]
         /\ Swapped(s, i, j)[i] = s[j] /\ Swapped(s, i, j)[j] = s[i]
         /\ \A k \in 1..n : k # i /\ k # j => Swapped(s, i, j)[k] = s[k]
  BY DEF Swapped

LEMMA SwappedArranges ==
  ASSUME NEW n \in Nat, NEW S, NEW s, Arranges(s, n, S), NEW i \in 1..n, NEW j \in 1..n
  PROVE  Arranges(Swapped(s, i, j), n, S)
<1> DEFINE r == Swapped(s, i, j)
<1>1. /\ s \in [1..n -> S] /\ r \in [1..n -> S] /\ r[i] = s[j] /\ r[j] = s[i]
      /\ \A k \in 1..n : k # i /\ k # j => r[k] = s[k]
  <2>1. s \in [1..n -> S]
    BY DEF Arranges
  <2>2. /\ Swapped(s, i, j) \in [1..n -> S]
        /\ Swapped(s, i, j)[i] = s[j] /\ Swapped(s, i, j)[j] = s[i]
        /\ \A k \in 1..n : k # i /\ k # j => Swapped(s, i, j)[k] = s[k]
    BY <2>1 DEF Swapped
  <2>3. QED
    BY <2>1, <2>2
<1> HIDE DEF r
<1>2. ASSUME NEW k \in 1..n, NEW l \in 1..n, r[k] = r[l] PROVE k = l
  <2>1. \A a, b \in 1..n : s[a] = s[b] => a = b
    BY DEF Arranges
  <2>2. CASE k = i
    BY <1>1, <1>2, <2>1, <2>2
  <2>3. CASE k = j
    BY <1>1, <1>2, <2>1, <2>3
  <2>4. CASE k # i /\ k # j
    BY <1>1, <1>2, <2>1, <2>4
  <2>5. QED
    BY <2>2, <2>3, <2>4
<1>3. ASSUME NEW x \in S PROVE \E k \in 1..n : r[k] = x
  <2>1. PICK k \in 1..n : s[k] = x
    BY DEF Arranges
  <2>2. QED
    BY <1>1, <2>1
<1>4. Arranges(r, n, S)
  BY <1>1, <1>2, <1>3 DEF Arranges
<1>5. QED
  BY <1>4 DEF r

LEMMA LengthIs ==
  ASSUME NEW n \in Nat, NEW S, NEW s \in [1..n -> S]
  PROVE  Len(s) = n
  OBVIOUS

(***************************************************************************)
(* The loop of shuffle: whatever satisfies its steps ends as Shuffled.     *)
(***************************************************************************)
Shuffles(f, n, ids, draws) ==
  f[n] = ids /\ \A i \in 2..n : f[i - 1] = Swapped(f[i], i, draws[i])
Rounds(f, n, S, ids, draws) ==
  Shuffles(f, n, ids, draws) /\ \A i \in 1..n : Arranges(f[i], n, S)

LEMMA ShuffledIs ==
  ASSUME NEW n \in Nat \ {0}, NEW S, NEW ids \in [1..n -> S], NEW draws, NEW f, Shuffles(f, n, ids, draws)
  PROVE  Shuffled(ids, draws) = f[1]
<1>1. Len(ids) = n
  BY LengthIs
<1> DEFINE Loops(g) == g = [i \in 1..n |-> IF i = n THEN ids ELSE Swapped(g[i + 1], i + 1, draws[i + 1])]
           h == CHOOSE g : Loops(g)
<1>2. Shuffled(ids, draws) = h[1]
  BY <1>1 DEF Shuffled
<1>3. \E g : Loops(g)
  <2> DEFINE g == [i \in 1..n |-> f[i]]
  <2>1. ASSUME NEW i \in 1..n
        PROVE  g[i] = IF i = n THEN ids ELSE Swapped(g[i + 1], i + 1, draws[i + 1])
    <3>1. CASE i = n
      BY <3>1 DEF Shuffles
    <3>2. CASE i # n
      <4>1. i + 1 \in 2..n /\ i + 1 \in 1..n /\ (i + 1) - 1 = i
        BY <3>2
      <4>2. f[(i + 1) - 1] = Swapped(f[i + 1], i + 1, draws[i + 1])
        BY <4>1, Zenon DEF Shuffles
      <4>3. g[i + 1] = f[i + 1] /\ g[i] = f[i]
        BY <4>1
      <4>4. QED
        <5> HIDE DEF g
        <5>1. QED
          BY <3>2, <4>1, <4>2, <4>3
    <3>3. QED
      BY <3>1, <3>2
  <2>2. g = [i \in 1..n |-> g[i]]
    OBVIOUS
  <2> HIDE DEF g
  <2>3. Loops(g)
    BY <2>1, <2>2
  <2>4. QED
    BY <2>3, Zenon
<1>4. Loops(h)
  <2> HIDE DEF Loops
  <2>1. QED
    BY <1>3, Zenon
<1> HIDE DEF h
<1>5. /\ h[n] = ids
      /\ \A i \in 1..n : i # n => h[i] = Swapped(h[i + 1], i + 1, draws[i + 1])
  <2>1. n \in 1..n
    OBVIOUS
  <2>2. QED
    BY <1>4, <2>1
<1> HIDE DEF Loops
<1> DEFINE differ == {i \in 1..n : h[i] # f[i]}
<1>6. differ = {}
  <2>1. SUFFICES ASSUME differ # {} PROVE FALSE
    OBVIOUS
  <2>2. differ \subseteq 1..n
    OBVIOUS
  <2>3. PICK k \in differ : \A j \in differ : j <= k
    <3> HIDE DEF differ
    <3>1. QED
      BY <2>1, <2>2, GreatestOf
  <2>4. k \in 1..n /\ h[k] # f[k]
    OBVIOUS
  <2>5. k # n
    BY <1>5, <2>4 DEF Shuffles
  <2>6. k + 1 \in 2..n /\ k + 1 \in 1..n /\ (k + 1) - 1 = k
    BY <2>4, <2>5
  <2>7. h[k + 1] = f[k + 1]
    <3>1. k + 1 \notin differ
      <4> HIDE DEF differ
      <4>1. QED
        BY <2>3, <2>4
    <3>2. QED
      BY <2>6, <3>1
  <2>8. f[(k + 1) - 1] = Swapped(f[k + 1], k + 1, draws[k + 1])
    BY <2>6, Zenon DEF Shuffles
  <2>9. h[k] = Swapped(h[k + 1], k + 1, draws[k + 1])
    BY <1>5, <2>4, <2>5
  <2>10. h[k] = f[k]
    BY <2>6, <2>7, <2>8, <2>9
  <2>11. QED
    BY <2>4, <2>10
<1>7. QED
  <2>1. 1 \in 1..n
    OBVIOUS
  <2>2. QED
    BY <1>2, <1>6, <2>1

(***************************************************************************)
(* With draws in their range there is such a loop, every round of which    *)
(* leaves an arrangement; the round for a position settles it, as no later *)
(* round exchanges it again.                                               *)
(***************************************************************************)
LEMMA ShufflesFrom ==
  ASSUME NEW n \in Nat \ {0}, NEW S, NEW ids, Arranges(ids, n, S), NEW draws \in Draws(n)
  PROVE  \E f : Rounds(f, n, S, ids, draws)
<1> DEFINE all == {s \in [1..n -> S] : Arranges(s, n, S)}
           W == [i \in 1..n |-> all]
           steps == {z \in (2..n) \X all \X all : z[3] = Swapped(z[2], z[1], draws[z[1]])}
<1>1. \A i \in 2..n : i \in 1..n /\ draws[i] \in 1..n /\ draws[i] <= i
  BY DEF Draws
<1>2. \A s : s \in all <=> Arranges(s, n, S)
  BY DEF Arranges
<1>3. \A i \in 2..n : \A s \in all : Swapped(s, i, draws[i]) \in all
  <2> HIDE DEF all
  <2>1. QED
    BY <1>1, <1>2, SwappedArranges
<1>4. \A i \in 1..n : W[i] = all
  OBVIOUS
<1>5. \A i \in 2..n : i \in 1..n /\ i - 1 \in 1..n
  OBVIOUS
<1>6. ASSUME NEW i \in 2..n, NEW s \in W[i] PROVE \E w \in W[i - 1] : <<i, s, w>> \in steps
  <2> HIDE DEF all, W, steps
  <2>1. s \in all /\ W[i - 1] = all
    BY <1>4, <1>5
  <2>2. Swapped(s, i, draws[i]) \in W[i - 1]
    BY <1>3, <2>1
  <2>3. PICK w : w = Swapped(s, i, draws[i])
    OBVIOUS
  <2>4. w \in all
    BY <1>3, <2>1, <2>3
  <2>5. <<i, s, w>> \in steps
    BY <2>1, <2>3, <2>4 DEF steps
  <2>6. QED
    BY <2>2, <2>3, <2>5
<1>7. ids \in W[n]
  <2>1. n \in 1..n
    OBVIOUS
  <2> HIDE DEF all, W
  <2>2. QED
    BY <1>2, <1>4, <2>1
<1>8. \A i \in 2..n : \A s, w : <<i, s, w>> \in steps => w = Swapped(s, i, draws[i])
  <2> HIDE DEF all
  <2>1. QED
    OBVIOUS
<1> HIDE DEF all, W, steps
<1>9. PICK f : Walks(f, n, ids, W, steps)
  <2>1. Leads(n, W, steps)
    BY <1>6, Zenon DEF Leads
  <2>2. QED
    BY <1>7, <2>1, WalksDown, Zenon
<1>10. Shuffles(f, n, ids, draws)
  BY <1>8, <1>9, Zenon DEF Shuffles, Walks
<1>11. \A i \in 1..n : Arranges(f[i], n, S)
  BY <1>2, <1>4, <1>9, Zenon DEF Walks
<1>12. QED
  BY <1>10, <1>11 DEF Rounds

Settles(f, n) == \A k, i \in 1..n : i < k => f[i][k] = f[k - 1][k]

LEMMA SettledStays ==
  ASSUME NEW n \in Nat \ {0}, NEW S, NEW ids, NEW draws \in Draws(n), NEW f,
         Rounds(f, n, S, ids, draws)
  PROVE  Settles(f, n)
<1> SUFFICES ASSUME NEW k \in 1..n PROVE \A i \in 1..n : i < k => f[i][k] = f[k - 1][k]
  BY DEF Settles
<1> DEFINE moved == {i \in 1..n : i < k /\ f[i][k] # f[k - 1][k]}
<1>1. SUFFICES ASSUME moved # {} PROVE FALSE
  OBVIOUS
<1>2. PICK i \in moved : \A j \in moved : j <= i
  <2>1. moved \subseteq 1..n
    OBVIOUS
  <2> HIDE DEF moved
  <2>2. QED
    BY <1>1, <2>1, GreatestOf
<1>3. i \in 1..n /\ i < k /\ f[i][k] # f[k - 1][k]
  OBVIOUS
<1>4. i # k - 1
  BY <1>3
<1>5. i + 1 \in 2..n /\ i + 1 \in 1..n /\ i + 1 < k /\ (i + 1) - 1 = i
  BY <1>3, <1>4
<1>6. f[i + 1][k] = f[k - 1][k]
  <2>1. i + 1 \notin moved
    <3> HIDE DEF moved
    <3>1. QED
      BY <1>2, <1>3
  <2>2. QED
    BY <1>5, <2>1
<1>7. f[(i + 1) - 1] = Swapped(f[i + 1], i + 1, draws[i + 1])
  BY <1>5, Zenon DEF Shuffles, Rounds
<1>8. draws[i + 1] \in 1..n /\ draws[i + 1] <= i + 1
  BY <1>5 DEF Draws
<1>9. f[i + 1] \in [1..n -> S]
  BY <1>5 DEF Arranges, Rounds
<1>10. PICK s, a, b : s = f[i + 1] /\ a = i + 1 /\ b = draws[i + 1]
  OBVIOUS
<1>11. s \in [1..n -> S] /\ a \in 1..n /\ b \in 1..n /\ k # a /\ k # b
  BY <1>5, <1>8, <1>9, <1>10
<1>12. Swapped(s, a, b)[k] = s[k]
  <2>1. \A c \in 1..n : c # a /\ c # b => Swapped(s, a, b)[c] = s[c]
    BY <1>11 DEF Swapped
  <2>2. QED
    BY <1>11, <2>1
<1>13. QED
  BY <1>3, <1>5, <1>6, <1>7, <1>10, <1>12

(***************************************************************************)
(* Two sequences of draws that shuffle alike are the same.                 *)
(***************************************************************************)
LEMMA DrawsAreTold ==
  ASSUME NEW n \in Nat \ {0}, NEW S, NEW ids, Arranges(ids, n, S),
         NEW d \in Draws(n), NEW e \in Draws(n), Shuffled(ids, d) = Shuffled(ids, e)
  PROVE  d = e
<1>1. PICK f : Rounds(f, n, S, ids, d)
  BY ShufflesFrom
<1>2. PICK g : Rounds(g, n, S, ids, e)
  BY ShufflesFrom
<1>3. f[1] = g[1]
  <2>1. ids \in [1..n -> S]
    BY DEF Arranges
  <2>2. Shuffled(ids, d) = f[1]
    BY <1>1, <2>1, ShuffledIs, Zenon DEF Rounds
  <2>3. Shuffled(ids, e) = g[1]
    BY <1>2, <2>1, ShuffledIs, Zenon DEF Rounds
  <2>4. QED
    BY <2>2, <2>3
<1> DEFINE differ == {i \in 1..n : f[i] # g[i] \/ (i # 1 /\ d[i] # e[i])}
<1>4. differ = {}
  <2>1. SUFFICES ASSUME differ # {} PROVE FALSE
    OBVIOUS
  <2>2. PICK i \in differ : \A j \in differ : j <= i
    <3>1. differ \subseteq 1..n
      OBVIOUS
    <3> HIDE DEF differ
    <3>2. QED
      BY <2>1, <3>1, GreatestOf
  <2>3. i \in 1..n
    OBVIOUS
  <2>4. f[i] = g[i]
    <3>1. CASE i = n
      BY <1>1, <1>2, <3>1 DEF Shuffles, Rounds
    <3>2. CASE i # n
      <4>1. i + 1 \in 2..n /\ i + 1 \in 1..n /\ i + 1 # 1 /\ (i + 1) - 1 = i
        BY <2>3, <3>2
      <4>2. i + 1 \notin differ
        <5> HIDE DEF differ
        <5>1. QED
          BY <2>2, <2>3
      <4>3. f[i + 1] = g[i + 1] /\ d[i + 1] = e[i + 1]
        BY <4>1, <4>2
      <4>4. /\ f[(i + 1) - 1] = Swapped(f[i + 1], i + 1, d[i + 1])
            /\ g[(i + 1) - 1] = Swapped(g[i + 1], i + 1, e[i + 1])
        BY <1>1, <1>2, <4>1, Zenon DEF Shuffles, Rounds
      <4>5. QED
        BY <4>1, <4>3, <4>4
    <3>3. QED
      BY <3>1, <3>2
  <2>5. i # 1 /\ d[i] # e[i]
    BY <2>2, <2>4
  <2>6. i \in 2..n /\ i - 1 \in 1..n /\ i - 1 < i
    BY <2>3, <2>5
  <2>7. f[i - 1][i] = g[i - 1][i]
    <3>1. f[1][i] = f[i - 1][i] /\ g[1][i] = g[i - 1][i]
      <4>1. 1 \in 1..n /\ 1 < i
        BY <2>3, <2>6
      <4>2. Settles(f, n)
        BY <1>1, SettledStays, Zenon
      <4>3. Settles(g, n)
        BY <1>2, SettledStays, Zenon
      <4>4. QED
        BY <2>3, <4>1, <4>2, <4>3 DEF Settles
    <3>2. QED
      BY <1>3, <3>1
  <2>8. /\ f[i - 1] = Swapped(f[i], i, d[i])
        /\ g[i - 1] = Swapped(f[i], i, e[i])
    BY <1>1, <1>2, <2>4, <2>6 DEF Shuffles, Rounds
  <2>9. d[i] \in 1..n /\ e[i] \in 1..n
    BY <2>6 DEF Draws
  <2>10. f[i] \in [1..n -> S] /\ \A a, b \in 1..n : f[i][a] = f[i][b] => a = b
    BY <1>1, <2>3 DEF Arranges, Rounds
  <2>11. PICK s, a, b : s = f[i] /\ a = d[i] /\ b = e[i]
    OBVIOUS
  <2>12. Swapped(s, i, a)[i] = s[a] /\ Swapped(s, i, b)[i] = s[b]
    <3>1. s \in [1..n -> S] /\ a \in 1..n /\ b \in 1..n
      BY <2>9, <2>10, <2>11
    <3>2. QED
      BY <2>3, <3>1 DEF Swapped
  <2>13. s[a] = s[b]
    BY <2>7, <2>8, <2>11, <2>12
  <2>14. QED
    BY <2>5, <2>9, <2>10, <2>11, <2>13
<1>5. \A i \in 2..n : d[i] = e[i]
  <2>1. ASSUME NEW i \in 2..n PROVE d[i] = e[i]
    <3>1. i \in 1..n /\ i # 1 /\ i \notin differ
      BY <1>4
    <3>2. QED
      BY <3>1
  <2>2. QED
    BY <2>1
<1>6. QED
  BY <1>5 DEF Draws

(***************************************************************************)
(* Every arrangement can be drawn: in each round the item that belongs at  *)
(* the position is among those not settled yet.                            *)
(***************************************************************************)
LEMMA DrawnFor ==
  ASSUME NEW n \in Nat \ {0}, NEW S, NEW ids, Arranges(ids, n, S), NEW t, Arranges(t, n, S)
  PROVE  \E d \in Draws(n) : Shuffled(ids, d) = t
<1> DEFINE Done(s, i) == Arranges(s, n, S) /\ \A k \in 1..n : k > i => s[k] = t[k]
           W == [i \in 1..n |-> {s \in [1..n -> S] : Done(s, i)}]
           Round(z) == \E j \in 1..n : j <= z[1] /\ z[3] = Swapped(z[2], z[1], j)
           steps == {z \in (2..n) \X [1..n -> S] \X [1..n -> S] : Round(z)}
<1>1. \A i \in 1..n : \A s : s \in W[i] <=> Done(s, i)
  BY DEF Arranges
<1>2. ASSUME NEW i \in 2..n, NEW s \in W[i] PROVE \E w \in W[i - 1] : <<i, s, w>> \in steps
  <2>1. i \in 1..n /\ i - 1 \in 1..n
    OBVIOUS
  <2>2. Arranges(s, n, S) /\ \A k \in 1..n : k > i => s[k] = t[k]
    BY <1>1, <1>2, <2>1
  <2> HIDE DEF W
  <2>3. PICK j \in 1..n : s[j] = t[i]
    <3>1. t[i] \in S
      BY <2>1 DEF Arranges
    <3>2. QED
      BY <2>2, <3>1 DEF Arranges
  <2>4. j <= i
    <3>1. SUFFICES ASSUME j > i PROVE FALSE
      BY <2>1
    <3>2. t[j] = t[i] /\ j # i
      BY <2>1, <2>2, <2>3, <3>1
    <3>3. QED
      BY <2>1, <3>2 DEF Arranges
  <2>5. PICK w : w = Swapped(s, i, j)
    OBVIOUS
  <2>6. Arranges(w, n, S)
    BY <2>1, <2>2, <2>5, SwappedArranges, Zenon
  <2>7. ASSUME NEW k \in 1..n, k > i - 1 PROVE w[k] = t[k]
    <3>1. s \in [1..n -> S]
      BY <2>2 DEF Arranges
    <3>2. CASE k = i
      BY <2>1, <2>3, <2>5, <3>1, <3>2 DEF Swapped
    <3>3. CASE k # i
      <4>1. k > i /\ k # j
        BY <2>1, <2>4, <2>7, <3>3
      <4>2. w[k] = s[k]
        BY <2>1, <2>5, <3>1, <4>1 DEF Swapped
      <4>3. QED
        BY <2>2, <4>1, <4>2
    <3>4. QED
      BY <3>2, <3>3
  <2>8. w \in W[i - 1]
    BY <1>1, <2>1, <2>6, <2>7
  <2>9. <<i, s, w>> \in steps
    <3>1. s \in [1..n -> S] /\ w \in [1..n -> S]
      BY <2>2, <2>6 DEF Arranges
    <3>2. Round(<<i, s, w>>)
      BY <2>4, <2>5
    <3> HIDE DEF Round
    <3>3. QED
      BY <3>1, <3>2
  <2>10. QED
    BY <2>8, <2>9
<1>3. ids \in W[n]
  BY <1>1
<1>4. \A i \in 2..n : \A s, w : <<i, s, w>> \in steps => \E j \in 1..n : j <= i /\ w = Swapped(s, i, j)
  OBVIOUS
<1> HIDE DEF W, steps
<1>5. PICK f : Walks(f, n, ids, W, steps)
  <2>1. Leads(n, W, steps)
    BY <1>2, Zenon DEF Leads
  <2>2. QED
    BY <1>3, <2>1, WalksDown, Zenon
<1> DEFINE d == [i \in 2..n |-> CHOOSE j \in 1..n : j <= i /\ f[i - 1] = Swapped(f[i], i, j)]
<1>6. \A i \in 2..n : d[i] \in 1..n /\ d[i] <= i /\ f[i - 1] = Swapped(f[i], i, d[i])
  <2>1. ASSUME NEW i \in 2..n PROVE d[i] \in 1..n /\ d[i] <= i /\ f[i - 1] = Swapped(f[i], i, d[i])
    <3>1. \E j \in 1..n : j <= i /\ f[i - 1] = Swapped(f[i], i, j)
      <4>1. <<i, f[i], f[i - 1]>> \in steps
        BY <1>5, Zenon DEF Walks
      <4>2. QED
        BY <1>4, <4>1
    <3>2. d[i] = CHOOSE j \in 1..n : j <= i /\ f[i - 1] = Swapped(f[i], i, j)
      OBVIOUS
    <3> HIDE DEF d
    <3>3. QED
      BY <3>1, <3>2, Zenon
  <2>2. QED
    BY <2>1, Zenon
<1>7. d = [i \in 2..n |-> d[i]]
  OBVIOUS
<1> HIDE DEF d
<1>8. d \in Draws(n)
  BY <1>6, <1>7 DEF Draws
<1>9. Shuffled(ids, d) = f[1]
  <2>1. Shuffles(f, n, ids, d)
    BY <1>5, <1>6, Zenon DEF Shuffles, Walks
  <2>2. ids \in [1..n -> S]
    BY DEF Arranges
  <2>3. QED
    BY <2>1, <2>2, ShuffledIs, Zenon
<1>10. f[1] = t
  <2>1. 1 \in 1..n
    OBVIOUS
  <2>2. Done(f[1], 1)
    BY <1>1, <1>5, <2>1 DEF Walks
  <2>3. PICK s : s = f[1]
    OBVIOUS
  <2>4. Arranges(s, n, S) /\ \A k \in 1..n : k > 1 => s[k] = t[k]
    BY <2>2, <2>3
  <2>5. PICK j \in 1..n : s[j] = t[1]
    <3>1. t[1] \in S
      BY <2>1 DEF Arranges
    <3>2. QED
      BY <2>4, <3>1 DEF Arranges
  <2>6. j = 1
    <3>1. SUFFICES ASSUME j > 1 PROVE FALSE
      OBVIOUS
    <3>2. t[j] = t[1]
      BY <2>4, <2>5, <3>1
    <3>3. QED
      BY <2>1, <3>1, <3>2 DEF Arranges
  <2>7. \A k \in 1..n : s[k] = t[k]
    BY <2>4, <2>5, <2>6
  <2>8. s \in [1..n -> S] /\ t \in [1..n -> S]
    BY <2>4 DEF Arranges
  <2>9. QED
    BY <2>3, <2>7, <2>8
<1>11. QED
  BY <1>8, <1>9, <1>10

(***************************************************************************)
(* What is accepted is an arrangement of the items, and nothing else is.   *)
(***************************************************************************)
LEMMA AcceptedArranges ==
  ASSUME NEW n \in Nat, NEW S, IsFiniteSet(S), Cardinality(S) = n, NEW s \in [1..n -> S]
  PROVE  OrderAccepted(s, S) <=> Arranges(s, n, S)
<1>1. Len(s) = n
  BY LengthIs
<1>2. OrderAccepted(s, S) <=> \A i, j \in 1..n : s[i] = s[j] => i = j
  BY <1>1 DEF OrderAccepted
<1>3. ASSUME \A i, j \in 1..n : s[i] = s[j] => i = j
      PROVE  \A x \in S : \E i \in 1..n : s[i] = x
  <2>1. s \in Injection(1..n, S)
    BY <1>3 DEF Injection, IsInjective
  <2>2. Cardinality(1..n) = n
    BY FS_Interval
  <2>3. s \in Surjection(1..n, S)
    BY <2>1, <2>2, FS_Injection
  <2>4. QED
    BY <2>3 DEF Surjection
<1>4. QED
  BY <1>2, <1>3 DEF Arranges

(***************************************************************************)
(* A shuffle of any number of items is fair: of all sequences of draws,    *)
(* which are equally likely, exactly one makes each order that validation  *)
(* accepts, and none makes any other.                                      *)
(***************************************************************************)
THEOREM EveryOrderOnce ==
  ASSUME NEW n \in Nat \ {0}, NEW S, IsFiniteSet(S), Cardinality(S) = n,
         NEW ids \in [1..n -> S], OrderAccepted(ids, S), NEW s \in [1..n -> S]
  PROVE  Cardinality({d \in Draws(n) : Shuffled(ids, d) = s}) = IF OrderAccepted(s, S) THEN 1 ELSE 0
<1> DEFINE found == {d \in Draws(n) : Shuffled(ids, d) = s}
<1>1. Arranges(ids, n, S) /\ (OrderAccepted(s, S) <=> Arranges(s, n, S))
  BY AcceptedArranges
<1>2. CASE ~ OrderAccepted(s, S)
  <2>1. ASSUME NEW d \in found PROVE FALSE
    <3>1. PICK f : Rounds(f, n, S, ids, d)
      BY <1>1, ShufflesFrom
    <3>2. Shuffled(ids, d) = f[1]
      BY <3>1, ShuffledIs, Zenon DEF Rounds
    <3>3. 1 \in 1..n
      OBVIOUS
    <3>4. QED
      BY <1>1, <1>2, <3>1, <3>2, <3>3 DEF Rounds
  <2>2. found = {}
    BY <2>1
  <2>3. QED
    BY <1>2, <2>2, FS_EmptySet
<1>3. CASE OrderAccepted(s, S)
  <2>1. PICK d \in Draws(n) : Shuffled(ids, d) = s
    <3>1. Arranges(ids, n, S) /\ Arranges(s, n, S)
      BY <1>1, <1>3
    <3>2. QED
      BY <3>1, DrawnFor
  <2>2. \A e \in Draws(n) : Shuffled(ids, e) = s => e = d
    BY <1>1, <2>1, DrawsAreTold
  <2>3. found = {d}
    BY <2>1, <2>2
  <2>4. QED
    BY <1>3, <2>3, FS_Singleton
<1>4. QED
  BY <1>2, <1>3
-----------------------------------------------------------------------------
(* Ranks *)

CountTheBetter(ranks, points, n) ==
  \A i \in 1..n : ranks[i] = 1 + Cardinality({j \in 1..n : points[j] > points[i]})

Descending(points, n) == points \in [1..n -> Int] /\ \A i \in 2..n : points[i] <= points[i - 1]

\* A board whose neighbours descend descends throughout.
LEMMA Descends ==
  ASSUME NEW n \in Nat, NEW points, Descending(points, n)
  PROVE  \A j, i \in 1..n : j <= i => points[i] <= points[j]
<1> SUFFICES ASSUME NEW j \in 1..n, points \in [1..n -> Int], \A i \in 2..n : points[i] <= points[i - 1]
             PROVE  \A i \in 1..n : j <= i => points[i] <= points[j]
  BY DEF Descending
<1> DEFINE above == {i \in 1..n : j <= i /\ points[i] > points[j]}
<1>1. above = {}
  <2>1. SUFFICES ASSUME above # {} PROVE FALSE
    OBVIOUS
  <2>2. PICK i \in above : \A k \in above : i <= k
    <3>1. above \subseteq Nat
      OBVIOUS
    <3> HIDE DEF above
    <3>2. QED
      BY <2>1, <3>1, LeastOf
  <2>3. i \in 1..n /\ j <= i /\ points[i] > points[j] /\ i # j
    OBVIOUS
  <2>4. i \in 2..n /\ i - 1 \in 1..n /\ j <= i - 1 /\ i - 1 < i
    BY <2>3
  <2>5. i - 1 \notin above
    <3> HIDE DEF above
    <3>1. QED
      BY <2>2, <2>3, <2>4
  <2>6. points[i - 1] <= points[j]
    BY <2>4, <2>5
  <2>7. points[i] <= points[i - 1]
    BY <2>4
  <2>8. QED
    BY <2>3, <2>4, <2>6, <2>7
<1>2. ASSUME NEW i \in 1..n, j <= i PROVE points[i] <= points[j]
  <2>1. i \notin above
    BY <1>1
  <2>2. ~ (points[i] > points[j])
    BY <1>2, <2>1
  <2>3. points[i] \in Int /\ points[j] \in Int
    OBVIOUS
  <2>4. QED
    BY <2>2, <2>3
<1>3. QED
  BY <1>2

(***************************************************************************)
(* On a board of any length that descends, a rank is one more than the     *)
(* number of better rows.                                                  *)
(***************************************************************************)
THEOREM RanksCountTheBetter ==
  ASSUME NEW n \in Nat, NEW points, Descending(points, n)
  PROVE  CountTheBetter(Ranks(points), points, n)
<1> DEFINE Ranked(g) == g = [i \in 1..n |-> IF i = 1 THEN 1 ELSE IF points[i] # points[i - 1] THEN i ELSE g[i - 1]]
           h == CHOOSE g : Ranked(g)
           better == [i \in 1..n |-> {j \in 1..n : points[j] > points[i]}]
           w == [i \in 1..n |-> 1 + Cardinality(better[i])]
<1> USE DEF Descending
<1>1. Len(points) = n
  BY LengthIs
<1>2. \A i \in 1..n : Ranks(points)[i] = h[i]
  BY <1>1 DEF Ranks
<1>3. \A j, i \in 1..n : j <= i => points[i] <= points[j]
  BY Descends
<1>4. ASSUME NEW i \in 1..n
      PROVE  w[i] = IF i = 1 THEN 1 ELSE IF points[i] # points[i - 1] THEN i ELSE w[i - 1]
  <2>1. CASE i = 1
    <3>1. better[i] = {}
      BY <1>3, <2>1
    <3> HIDE DEF better
    <3>2. Cardinality(better[i]) = 0
      BY <3>1, FS_EmptySet, Zenon
    <3>3. w[i] = 1
      BY <3>2
    <3> HIDE DEF w
    <3>4. QED
      BY <2>1, <3>3
  <2>2. CASE i # 1 /\ points[i] # points[i - 1]
    <3>1. i - 1 \in 1..n /\ i \in 2..n
      BY <2>2
    <3>2. points[i] < points[i - 1]
      BY <2>2, <3>1
    <3>3. \A j \in 1..n : points[j] > points[i] <=> j \in 1..(i - 1)
      <4>1. ASSUME NEW j \in 1..n PROVE points[j] > points[i] <=> j \in 1..(i - 1)
        <5>1. CASE j <= i - 1
          <6>1. points[i - 1] <= points[j]
            BY <1>3, <3>1, <5>1
          <6>2. QED
            BY <3>1, <3>2, <5>1, <6>1
        <5>2. CASE j > i - 1
          <6>1. points[j] <= points[i]
            BY <1>3, <3>1, <5>2
          <6>2. QED
            BY <3>1, <5>2, <6>1
        <5>3. QED
          BY <3>1, <5>1, <5>2
      <4>2. QED
        BY <4>1
    <3>4. better[i] = 1..(i - 1)
      BY <3>1, <3>3
    <3>5. Cardinality(1..(i - 1)) = i - 1
      BY <3>1, FS_Interval
    <3> HIDE DEF better
    <3>6. QED
      BY <2>2, <3>1, <3>4, <3>5
  <2>3. CASE i # 1 /\ points[i] = points[i - 1]
    <3>1. i - 1 \in 1..n
      BY <2>3
    <3>2. better[i] = better[i - 1]
      BY <2>3, <3>1
    <3> HIDE DEF better
    <3>3. QED
      BY <2>3, <3>1, <3>2
  <2>4. QED
    BY <2>1, <2>2, <2>3
<1>5. Ranked(h)
  <2>1. w = [i \in 1..n |-> w[i]]
    OBVIOUS
  <2> HIDE DEF w
  <2>2. Ranked(w)
    BY <1>4, <2>1
  <2> HIDE DEF Ranked
  <2>3. QED
    BY <2>2, Zenon
<1> HIDE DEF h
<1>6. \A i \in 1..n : h[i] = IF i = 1 THEN 1 ELSE IF points[i] # points[i - 1] THEN i ELSE h[i - 1]
  BY <1>5
<1> DEFINE differ == {i \in 1..n : h[i] # w[i]}
<1>7. differ = {}
  <2>1. SUFFICES ASSUME differ # {} PROVE FALSE
    OBVIOUS
  <2>2. PICK i \in differ : \A j \in differ : i <= j
    <3>1. differ \subseteq Nat
      OBVIOUS
    <3> HIDE DEF differ
    <3>2. QED
      BY <2>1, <3>1, LeastOf
  <2>3. i \in 1..n /\ h[i] # w[i]
    OBVIOUS
  <2> HIDE DEF w, Ranked
  <2>4. i # 1
    BY <1>4, <1>6, <2>3
  <2>5. i - 1 \in 1..n /\ i - 1 < i
    BY <2>3, <2>4
  <2>6. h[i - 1] = w[i - 1]
    <3>1. i - 1 \notin differ
      <4> HIDE DEF differ
      <4>1. QED
        BY <2>2, <2>3, <2>5
    <3>2. QED
      BY <2>5, <3>1
  <2>7. h[i] = w[i]
    BY <1>4, <1>6, <2>3, <2>4, <2>6
  <2>8. QED
    BY <2>3, <2>7
<1>8. ASSUME NEW i \in 1..n PROVE Ranks(points)[i] = 1 + Cardinality({j \in 1..n : points[j] > points[i]})
  <2>1. h[i] = w[i]
    BY <1>7
  <2>2. w[i] = 1 + Cardinality({j \in 1..n : points[j] > points[i]})
    OBVIOUS
  <2> HIDE DEF w, Ranked
  <2>3. QED
    BY <1>2, <2>1, <2>2
<1>9. QED
  BY <1>8 DEF CountTheBetter

LEMMA ShufflesAreFair == ShuffleIsFair
<1> SUFFICES ASSUME NEW n \in 1..Largest, NEW s \in [1..n -> 1..n]
             PROVE  /\ OrderAccepted(s, 1..n) <=> Permutation(s, n)
                    /\ Cardinality({d \in Draws(n) : Shuffled([i \in 1..n |-> i], d) = s})
                         = IF Permutation(s, n) THEN 1 ELSE 0
  BY DEF ShuffleIsFair
<1> DEFINE ids == [i \in 1..n |-> i]
<1>1. n \in Nat \ {0}
  BY DEF Largest
<1>2. IsFiniteSet(1..n) /\ Cardinality(1..n) = n
  BY <1>1, FS_Interval
<1>3. ids \in [1..n -> 1..n] /\ Arranges(ids, n, 1..n)
  BY DEF Arranges
<1>4. PICK S : S = 1..n
  OBVIOUS
<1> HIDE DEF ids
<1>5. OrderAccepted(ids, S) /\ (OrderAccepted(s, S) <=> Arranges(s, n, S))
  BY <1>1, <1>2, <1>3, <1>4, AcceptedArranges
<1>6. OrderAccepted(s, S) <=> Permutation(s, n)
  <2>1. Len(s) = n
    BY <1>1, LengthIs
  <2>2. QED
    BY <1>1, <1>2, <1>4, <2>1 DEF OrderAccepted, Permutation
<1>7. Cardinality({d \in Draws(n) : Shuffled(ids, d) = s}) = IF OrderAccepted(s, S) THEN 1 ELSE 0
  BY <1>1, <1>2, <1>3, <1>4, <1>5, EveryOrderOnce
<1>8. QED
  BY <1>4, <1>6, <1>7 DEF ids

LEMMA RanksExact == RanksAreExact
<1> SUFFICES ASSUME NEW n \in 1..Largest, NEW points \in [1..n -> {0, 50, 100}],
                    \A i \in 2..n : points[i] <= points[i - 1],
                    NEW i \in 1..n
             PROVE  Ranks(points)[i] = 1 + Cardinality({j \in 1..n : points[j] > points[i]})
  BY DEF RanksAreExact
<1>1. n \in Nat /\ Descending(points, n)
  BY DEF Largest, Descending
<1>2. CountTheBetter(Ranks(points), points, n)
  BY <1>1, RanksCountTheBetter, Zenon
<1>3. QED
  BY <1>2 DEF CountTheBetter

\* The manifest is one of the accepted orders.
LEMMA ManifestAccepted ==
  /\ N \in Nat \ {0} /\ IsFiniteSet(Questions) /\ Cardinality(Questions) = N
  /\ Manifest \in [1..N -> Questions] /\ OrderAccepted(Manifest, Questions)
  BY RoomAssumption DEF N

(***************************************************************************)
(* NewAttemptPlan draws nothing that validatePlan refuses: whatever the    *)
(* draws, the plan of a join that is otherwise accepted passes the check   *)
(* of the script, and the join is not lost for it.                         *)
(***************************************************************************)
THEOREM DrawnPlansAreValid ==
  ASSUME NEW draws \in Draws(N), NEW p, NEW by, JoinReply(p, TRUE, by) = "accepted"
  PROVE  ValidPlan([content |-> by, order |-> Shuffled(Manifest, draws)])
<1> PICK n, S : n = N /\ S = Questions
  OBVIOUS
<1>1. Arranges(Manifest, n, S) /\ n \in Nat \ {0} /\ draws \in Draws(n)
  BY ManifestAccepted, AcceptedArranges
<1>2. PICK f : Rounds(f, n, S, Manifest, draws)
  BY <1>1, ShufflesFrom, Zenon
<1>3. Shuffled(Manifest, draws) = f[1]
  <2>1. Manifest \in [1..n -> S] /\ Shuffles(f, n, Manifest, draws)
    BY <1>1, <1>2 DEF Rounds, Arranges
  <2>2. QED
    BY <1>1, <2>1, ShuffledIs, Zenon
<1>4. Arranges(f[1], n, S)
  <2>1. 1 \in 1..n
    BY <1>1
  <2>2. QED
    BY <1>2, <2>1 DEF Rounds
<1>5. Shuffled(Manifest, draws) \in Orders
  <2>1. PICK s : s = f[1]
    OBVIOUS
  <2>2. s \in [1..n -> S]
    BY <1>4, <2>1 DEF Arranges
  <2>3. OrderAccepted(s, S)
    BY <1>1, <1>4, <2>1, <2>2, ManifestAccepted, AcceptedArranges
  <2>4. QED
    BY <1>3, <2>1, <2>2, <2>3 DEF Orders
<1>6. by = content
  BY DEF JoinReply
<1>7. QED
  BY <1>5, <1>6 DEF ValidPlan

LEMMA ManifestShuffles == ManifestIsShuffledFairly
<1> SUFFICES ASSUME NEW order \in Orders
             PROVE  Cardinality({draws \in Draws(N) : Shuffled(Manifest, draws) = order}) = 1
  BY DEF ManifestIsShuffledFairly
<1>1. order \in [1..N -> Questions] /\ OrderAccepted(order, Questions)
  BY DEF Orders
<1>2. Cardinality({draws \in Draws(N) : Shuffled(Manifest, draws) = order})
        = IF OrderAccepted(order, Questions) THEN 1 ELSE 0
  BY <1>1, ManifestAccepted, EveryOrderOnce
<1>3. QED
  BY <1>1, <1>2

(***************************************************************************)
(* The same as the runs look at it: shuffles of a few items and of the     *)
(* manifest of the room, and ranks of small boards.                        *)
(***************************************************************************)
THEOREM PlansAreFair == Spec => []FairPlansExactRanks
<1>1. FairPlansExactRanks
  BY ShufflesAreFair, RanksExact, ManifestShuffles DEF FairPlansExactRanks
<1>2. QED
  BY <1>1, PTL
=============================================================================
