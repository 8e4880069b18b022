----------------------------- MODULE StudioProofs -----------------------------
(***************************************************************************)
(* Proofs about the drafts and the pages of the studio, for any number of  *)
(* drafts, questions, contents and handlers, and any quotas.  The          *)
(* invariant StudioOK says four things: what is stored is as approved and  *)
(* as reviewed (StoreOK); what a page or a reply holds is a Copy, true of  *)
(* the draft while the versions agree; a request at work is Backed by what *)
(* was shown of the version it names; and a page awaits a request of its   *)
(* own.  A copy and a backed request outlive every step, as no draft       *)
(* changes without a new version (Advances); a change is made only where   *)
(* the version is the one the request names.  What a step can do to the    *)
(* store is one of six moves (StoreMoves).                                 *)
(***************************************************************************)
EXTENDS Studio, FiniteSetTheorems, TLAPS

(***************************************************************************)
(* Requests and documents.                                                 *)
(***************************************************************************)
Changing == {"save", "approve", "publish"}

GoodRequest(r) ==
  /\ r.op \in {"create", "open", "compare", "regenerate"} \cup Changing
  /\ r.draft \in Drafts
  /\ r.op \in Changing \cup {"regenerate"} => r.expected \in Versions
  /\ r.op = "save" => r.items \in [Items -> Texts]
  /\ r.op \in {"approve", "regenerate"} => r.item \in Items

Document(d, version, status, items, approved, intents) ==
  [draft |-> d, version |-> version, status |-> status, items |-> items,
   approved |-> approved, intents |-> intents]

\* A document of draft d: each change it accepted is one version.
IsDoc(d, doc) ==
  /\ doc = Document(d, doc.version, doc.status, doc.items, doc.approved, doc.intents)
  /\ doc.status \in {"needs-review", "published"}
  /\ doc.items \in [Items -> Texts] /\ doc.approved \in [Items -> Texts \cup {NoText}]
  /\ IsFiniteSet(doc.intents) /\ \A q \in doc.intents : q.op \in Changing
  /\ doc.version = Cardinality(doc.intents) + 1
  /\ Cardinality(doc.intents) <= MaxIntents + (IF doc.status = "published" THEN 1 ELSE 0)

LEMMA Limits == MaxIntents \in Nat /\ NoText \notin Texts /\ OtherDrafts \cap Drafts = {} /\ Pages = Drafts
  BY AuthoringAssumption, StudioAssumption

LEMMA DocIs ==
  ASSUME NEW d, NEW doc, IsDoc(d, doc)
  PROVE  /\ doc.draft = d /\ doc.version \in Versions /\ doc.version \in Nat /\ doc # Absent
         /\ Cardinality(doc.intents) \in Nat
         /\ d \in Drafts => View(doc) \in Views
<1>1. Cardinality(doc.intents) \in Nat
  BY FS_CardinalityType DEF IsDoc
<1>2. /\ doc.draft = d /\ doc.status \in {"needs-review", "published"}
      /\ doc.items \in [Items -> Texts] /\ doc.version = Cardinality(doc.intents) + 1
      /\ Cardinality(doc.intents) <= MaxIntents + (IF doc.status = "published" THEN 1 ELSE 0)
  BY DEF IsDoc, Document
<1>3. doc.version \in Versions /\ doc.version \in Nat /\ doc.version # 0
  BY <1>1, <1>2, Limits DEF Versions
<1>4. doc # Absent
  BY <1>3 DEF Absent
<1>5. ASSUME d \in Drafts PROVE View(doc) \in Views
  BY <1>2, <1>3, <1>5 DEF View, Views
<1>6. QED
  BY <1>1, <1>2, <1>3, <1>4, <1>5

LEMMA ViewIs ==
  ASSUME NEW doc
  PROVE  /\ View(doc).draft = doc.draft /\ View(doc).version = doc.version
         /\ View(doc).items = doc.items /\ View(doc).status = doc.status
  BY DEF View

\* A new document, and one changed in each of the three ways.
LEMMA NewIs ==
  ASSUME NEW d, NEW items \in [Items -> Texts]
  PROVE  /\ IsDoc(d, New(d, items)) /\ New(d, items).status = "needs-review"
         /\ \A i \in Items : New(d, items).approved[i] = NoText
<1> DEFINE n == New(d, items)
           none == [i \in Items |-> NoText]
<1>1. n = Document(d, 1, "needs-review", items, none, {})
  BY DEF New, Document
<1>2. none \in [Items -> Texts \cup {NoText}] /\ \A i \in Items : none[i] = NoText
  OBVIOUS
<1> HIDE DEF n, none
<1>3. /\ n.version = 1 /\ n.status = "needs-review" /\ n.items = items /\ n.approved = none
      /\ n.intents = {}
  BY <1>1 DEF Document
<1>4. IsFiniteSet({}) /\ Cardinality({}) = 0
  BY FS_EmptySet
<1>5. IsDoc(d, n)
  BY <1>1, <1>2, <1>3, <1>4, Limits DEF IsDoc
<1>6. QED
  BY <1>2, <1>3, <1>5 DEF n

Kept(doc, r) == [i \in Items |-> IF r.items[i] = doc.items[i] THEN doc.approved[i] ELSE NoText]
Given(doc, r) == [doc.approved EXCEPT ![r.item] = doc.items[r.item]]

LEMMA ChangedIs ==
  ASSUME NEW d, NEW doc, IsDoc(d, doc), NEW r, r.op \in Changing
  PROVE  /\ Changed(doc, r) = Document(d, doc.version + 1, Changed(doc, r).status, Changed(doc, r).items,
                                      Changed(doc, r).approved, doc.intents \cup {r})
         /\ r.op = "save" => /\ Changed(doc, r).status = doc.status /\ Changed(doc, r).items = r.items
                             /\ Changed(doc, r).approved = Kept(doc, r)
         /\ r.op = "approve" => /\ Changed(doc, r).status = doc.status
                                /\ Changed(doc, r).items = doc.items
                                /\ Changed(doc, r).approved = Given(doc, r)
         /\ r.op = "publish" => /\ Changed(doc, r).status = "published"
                                /\ Changed(doc, r).items = doc.items
                                /\ Changed(doc, r).approved = doc.approved
<1> DEFINE n == Changed(doc, r)
           kept == Kept(doc, r)
           given == Given(doc, r)
<1>1. PICK v, s, t, a, q : doc = Document(d, v, s, t, a, q)
  BY Zenon DEF IsDoc
<1>2. doc.version = v /\ doc.status = s /\ doc.items = t /\ doc.approved = a /\ doc.intents = q
  BY <1>1 DEF Document
<1>3. CASE r.op = "save"
  <2>1. n = [[doc EXCEPT !.items = r.items, !.approved = kept]
               EXCEPT !.version = @ + 1, !.intents = @ \cup {r}]
    BY <1>3 DEF Changed, SavedWith, Kept
  <2> HIDE DEF n, kept
  <2>2. n = Document(d, v + 1, s, r.items, kept, q \cup {r})
    BY <1>1, <2>1 DEF Document
  <2>3. n.status = s /\ n.items = r.items /\ n.approved = kept
    BY <2>2 DEF Document
  <2>4. QED
    BY <1>2, <1>3, <2>2, <2>3 DEF n, kept
<1>4. CASE r.op = "approve"
  <2>1. n = [[doc EXCEPT !.approved[r.item] = doc.items[r.item]]
               EXCEPT !.version = @ + 1, !.intents = @ \cup {r}]
    BY <1>4 DEF Changed
  <2>2. [doc EXCEPT !.approved[r.item] = doc.items[r.item]] = [doc EXCEPT !.approved = given]
    BY DEF Given
  <2> HIDE DEF n, given
  <2>3. n = Document(d, v + 1, s, t, given, q \cup {r})
    BY <1>1, <2>1, <2>2 DEF Document
  <2>4. n.status = s /\ n.items = t /\ n.approved = given
    BY <2>3 DEF Document
  <2>5. QED
    BY <1>2, <1>4, <2>3, <2>4 DEF n, given
<1>5. CASE r.op = "publish"
  <2>1. n = [[doc EXCEPT !.status = "published"] EXCEPT !.version = @ + 1, !.intents = @ \cup {r}]
    BY <1>5 DEF Changed
  <2> HIDE DEF n
  <2>2. n = Document(d, v + 1, "published", t, a, q \cup {r})
    BY <1>1, <2>1 DEF Document
  <2>3. n.status = "published" /\ n.items = t /\ n.approved = a
    BY <2>2 DEF Document
  <2>4. QED
    BY <1>2, <1>5, <2>2, <2>3 DEF n
<1>6. QED
  BY <1>3, <1>4, <1>5 DEF Changing

\* What the verdict "ok" says.
LEMMA OkIs ==
  ASSUME NEW doc, NEW r, Verdict(doc, r) = "ok"
  PROVE  /\ r \notin doc.intents /\ doc.status # "published" /\ doc.version = r.expected
         /\ r.op \in {"save", "approve"} => ~(Cardinality(doc.intents) >= MaxIntents)
         /\ r.op = "publish" => AllApproved(doc)
  BY DEF Verdict

\* A change the verdict allows leaves a document.
LEMMA ChangedIsDoc ==
  ASSUME NEW d, NEW doc, IsDoc(d, doc), NEW r, GoodRequest(r), r.op \in Changing,
         Verdict(doc, r) = "ok"
  PROVE  /\ IsDoc(d, Changed(doc, r))
         /\ Changed(doc, r).version > doc.version
         /\ Cardinality(Changed(doc, r).intents \ doc.intents) = 1
<1> DEFINE n == Changed(doc, r)
<1>0. /\ n = Document(d, doc.version + 1, n.status, n.items, n.approved, doc.intents \cup {r})
      /\ r.op = "save" => n.status = doc.status /\ n.items = r.items /\ n.approved = Kept(doc, r)
      /\ r.op = "approve" => n.status = doc.status /\ n.items = doc.items /\ n.approved = Given(doc, r)
      /\ r.op = "publish" => n.status = "published" /\ n.items = doc.items /\ n.approved = doc.approved
  BY ChangedIs
<1>1. /\ n.version = doc.version + 1 /\ n.intents = doc.intents \cup {r}
      /\ n = Document(d, n.version, n.status, n.items, n.approved, n.intents)
  <2> HIDE DEF n
  <2>1. n.version = doc.version + 1 /\ n.intents = doc.intents \cup {r}
    BY <1>0 DEF Document
  <2>2. QED
    BY <1>0, <2>1, Zenon
<1>2. /\ doc.status = "needs-review" /\ doc.items \in [Items -> Texts]
      /\ doc.approved \in [Items -> Texts \cup {NoText}]
      /\ IsFiniteSet(doc.intents) /\ r \notin doc.intents
      /\ doc.version = Cardinality(doc.intents) + 1 /\ \A q \in doc.intents : q.op \in Changing
      /\ Cardinality(doc.intents) <= MaxIntents
  BY OkIs, Limits, DocIs DEF IsDoc
<1>3. n.status \in {"needs-review", "published"} /\ n.items \in [Items -> Texts]
      /\ n.approved \in [Items -> Texts \cup {NoText}]
  <2>1. CASE r.op = "save"
    <3>1. n.status = doc.status /\ n.items = r.items /\ r.items \in [Items -> Texts]
          /\ n.approved = Kept(doc, r)
      BY <1>0, <2>1 DEF GoodRequest
    <3> HIDE DEF n
    <3>2. QED
      BY <1>2, <3>1 DEF Kept
  <2>2. CASE r.op = "approve"
    <3>1. n.status = doc.status /\ n.items = doc.items /\ r.item \in Items
          /\ n.approved = Given(doc, r)
      BY <1>0, <2>2 DEF GoodRequest
    <3> HIDE DEF n
    <3>2. QED
      BY <1>2, <3>1 DEF Given
  <2>3. CASE r.op = "publish"
    BY <1>2, <1>0, <2>3
  <2>4. QED
    BY <2>1, <2>2, <2>3 DEF Changing
<1>4. (r.op = "publish" => n.status = "published") /\ (r.op # "publish" => n.status = doc.status)
  BY <1>0 DEF Changing
<1> HIDE DEF n
<1>5. IsFiniteSet(n.intents) /\ Cardinality(n.intents) = Cardinality(doc.intents) + 1
      /\ Cardinality(doc.intents) \in Nat
  BY <1>1, <1>2, FS_AddElement, FS_CardinalityType
<1>6. Cardinality(n.intents) <= MaxIntents + (IF n.status = "published" THEN 1 ELSE 0)
  <2>1. CASE r.op = "publish"
    BY <1>2, <1>4, <1>5, <2>1, Limits
  <2>2. CASE r.op # "publish"
    <3>1. ~(Cardinality(doc.intents) >= MaxIntents)
      BY <2>2, OkIs DEF Changing
    <3>2. QED
      BY <1>2, <1>4, <1>5, <2>2, <3>1, Limits
  <2>3. QED
    BY <2>1, <2>2
<1>7. \A q \in n.intents : q.op \in Changing
  BY <1>1, <1>2
<1>8. IsDoc(d, n)
  BY <1>1, <1>2, <1>3, <1>5, <1>6, <1>7 DEF IsDoc
<1>9. n.version > doc.version
  BY <1>1, <1>2, <1>5
<1>10. Cardinality(n.intents \ doc.intents) = 1
  <2>1. n.intents \ doc.intents = {r}
    BY <1>1, <1>2
  <2>2. QED
    BY <2>1, FS_Singleton
<1>11. QED
  BY <1>8, <1>9, <1>10 DEF n

-----------------------------------------------------------------------------
(***************************************************************************)
(* Copies of drafts, and requests composed from them, outlive changes of   *)
(* the draft: a copy is of a version the draft has had, and agrees with    *)
(* the draft while the version is the present one.                         *)
(***************************************************************************)
Copy(v) ==
  /\ v \in Views /\ v.draft \in born
  /\ drafts[v.draft] # Absent =>
       /\ v.version <= drafts[v.draft].version
       /\ v.version = drafts[v.draft].version => v = View(drafts[v.draft])

\* A request names a version the draft has had; an approval and a publication
\* are of what was shown of that version.
IsPresent(r) == drafts[r.draft] # Absent /\ drafts[r.draft].version = r.expected
Timely(r) ==
  r.op \in Changing \cup {"regenerate"} =>
    r.draft \in born /\ (drafts[r.draft] # Absent => r.expected <= drafts[r.draft].version)
Vouched(r) ==
  r.op = "approve" =>
    \E text : <<r.draft, r.item, text>> \in vouched /\ (IsPresent(r) => drafts[r.draft].items[r.item] = text)
Signed(r) ==
  r.op = "publish" =>
    \E items : <<r.draft, items>> \in signed /\ (IsPresent(r) => drafts[r.draft].items = items)
Backed(r) == GoodRequest(r) /\ Timely(r) /\ Vouched(r) /\ Signed(r)

DocsOK ==
  /\ DOMAIN drafts = Drafts
  /\ \A d \in Drafts : drafts[d] # Absent => IsDoc(d, drafts[d]) /\ d \in born

\* No draft changes without a new version, and none is created again.
Advances ==
  /\ born \subseteq born' /\ vouched \subseteq vouched' /\ signed \subseteq signed'
  /\ \A d \in Drafts : drafts'[d] # Absent =>
       \/ drafts'[d] = drafts[d]
       \/ d \notin born
       \/ drafts[d] # Absent /\ drafts'[d].version > drafts[d].version

LEMMA CopyLasts ==
  ASSUME DocsOK, DocsOK', Advances, NEW v, Copy(v)
  PROVE  Copy(v)'
<1> DEFINE d == v.draft
<1>1. v \in Views /\ d \in born /\ d \in Drafts /\ v.version \in Nat
  BY DEF Copy, Views, Versions
<1>2. d \in born'
  BY <1>1 DEF Advances
<1>3. ASSUME drafts'[d] # Absent
      PROVE  /\ v.version <= drafts'[d].version
             /\ v.version = drafts'[d].version => v = View(drafts'[d])
  <2>1. CASE drafts'[d] = drafts[d]
    BY <1>3, <2>1 DEF Copy
  <2>2. CASE drafts[d] # Absent /\ drafts'[d].version > drafts[d].version
    <3>1. drafts[d].version \in Nat /\ drafts'[d].version \in Nat
      BY <1>1, <1>3, <2>2, DocIs DEF DocsOK
    <3>2. v.version <= drafts[d].version
      BY <2>2 DEF Copy
    <3>3. QED
      BY <1>1, <2>2, <3>1, <3>2
  <2>3. QED
    BY <1>1, <1>3, <2>1, <2>2 DEF Advances
<1>4. QED
  BY <1>1, <1>2, <1>3 DEF Copy

LEMMA BackedLasts ==
  ASSUME DocsOK, DocsOK', Advances, NEW r, Backed(r)
  PROVE  Backed(r)'
<1> DEFINE d == r.draft
<1>1. GoodRequest(r) /\ Timely(r) /\ Vouched(r) /\ Signed(r) /\ d \in Drafts
  BY DEF Backed, GoodRequest
<1>2. CASE r.op \notin Changing \cup {"regenerate"}
  <2>1. r.op # "approve" /\ r.op # "publish"
    BY <1>2 DEF Changing
  <2>2. QED
    BY <1>1, <1>2, <2>1 DEF Backed, Timely, Vouched, Signed
<1>3. CASE r.op \in Changing \cup {"regenerate"}
  <2>1. d \in born /\ r.expected \in Nat /\ (drafts[d] # Absent => r.expected <= drafts[d].version)
    BY <1>1, <1>3 DEF Timely, GoodRequest, Versions
  <2>2. CASE drafts'[d] # Absent /\ drafts'[d] # drafts[d]
    <3>1. drafts[d] # Absent /\ drafts'[d].version > drafts[d].version
      BY <1>1, <2>1, <2>2 DEF Advances
    <3>2. drafts[d].version \in Nat /\ drafts'[d].version \in Nat
      BY <1>1, <2>2, <3>1, DocIs DEF DocsOK
    <3>3. drafts'[d].version > r.expected
      BY <2>1, <3>1, <3>2
    <3>4. r.expected <= drafts'[d].version /\ ~(drafts'[d].version = r.expected)
      BY <2>1, <3>2, <3>3
    <3>5. Timely(r)'
      BY <2>1, <3>4 DEF Timely, Advances
    <3>6. ~IsPresent(r)'
      BY <3>4 DEF IsPresent
    <3>7. Vouched(r)' /\ Signed(r)'
      BY <1>1, <3>6 DEF Vouched, Signed, Advances
    <3>8. QED
      BY <1>1, <3>5, <3>7 DEF Backed
  <2>3. CASE drafts'[d] = Absent \/ drafts'[d] = drafts[d]
    <3>1. Timely(r)'
      BY <2>1, <2>3 DEF Timely, Advances
    <3>2. IsPresent(r)' => IsPresent(r) /\ drafts'[d] = drafts[d]
      BY <2>3 DEF IsPresent
    <3>3. Vouched(r)'
      <4>1. SUFFICES ASSUME r.op = "approve"
                     PROVE  \E text : /\ <<d, r.item, text>> \in vouched'
                                      /\ IsPresent(r)' => drafts'[d].items[r.item] = text
        BY DEF Vouched
      <4>2. PICK text : /\ <<d, r.item, text>> \in vouched
                        /\ IsPresent(r) => drafts[d].items[r.item] = text
        BY <1>1, <4>1 DEF Vouched
      <4>3. QED
        BY <3>2, <4>2 DEF Advances
    <3>4. Signed(r)'
      <4>1. SUFFICES ASSUME r.op = "publish"
                     PROVE  \E items : /\ <<d, items>> \in signed'
                                       /\ IsPresent(r)' => drafts'[d].items = items
        BY DEF Signed
      <4>2. PICK items : <<d, items>> \in signed /\ (IsPresent(r) => drafts[d].items = items)
        BY <1>1, <4>1 DEF Signed
      <4>3. QED
        BY <3>2, <4>2 DEF Advances
    <3>5. QED
      BY <1>1, <3>1, <3>3, <3>4 DEF Backed
  <2>4. QED
    BY <2>2, <2>3
<1>4. QED
  BY <1>2, <1>3

-----------------------------------------------------------------------------
(***************************************************************************)
(* What is stored, and the six things a step can do to it.                 *)
(***************************************************************************)
PublishedOK ==
  /\ \A d \in DOMAIN published \ OtherDrafts : d \in born /\ published[d] \in [Items -> Texts]
  /\ PublishedAsReviewed
IndexOK ==
  /\ IsFiniteSet(index)
  /\ index \subseteq Known \cup OtherDrafts /\ born \subseteq Drafts \cup OtherDrafts
StoreOK == DocsOK /\ ApprovedAsSeen /\ PublishedOK /\ IndexOK

StaysQuiet ==
  /\ UNCHANGED <<drafts, index, born, published>>
  /\ vouched \subseteq vouched' /\ signed \subseteq signed'
Creates ==
  \E d \in Drafts, items \in [Items -> Texts] :
    /\ d \notin born
    /\ drafts' = [drafts EXCEPT ![d] = New(d, items)]
    /\ index' = index \cup {d} /\ born' = born \cup {d}
    /\ UNCHANGED <<published, vouched, signed>>
Allows(r) ==
  /\ Backed(r) /\ drafts[r.draft] # Absent /\ Verdict(drafts[r.draft], r) = "ok"
  /\ drafts' = [drafts EXCEPT ![r.draft] = Changed(drafts[r.draft], r)]
  /\ UNCHANGED <<index, born, vouched, signed>>
Edits == \E r : Allows(r) /\ r.op \in {"save", "approve"} /\ published' = published
Publishes ==
  \E r : /\ Allows(r) /\ r.op = "publish" /\ r.draft \notin DOMAIN published
         /\ published' = Put(published, r.draft, drafts[r.draft].items)
Takes == (\E d \in OtherDrafts : TakePlace(d)) /\ UNCHANGED <<vouched, signed>>
Lapses == (\E d \in index : Expire(d)) /\ UNCHANGED <<vouched, signed>>
StoreMoves == StaysQuiet \/ Creates \/ Edits \/ Publishes \/ Takes \/ Lapses

\* What a step leaves of the drafts that live on: nothing lost, one version a change.
NothingLost ==
  /\ \A d \in Drafts : drafts[d] # Absent /\ drafts'[d] # Absent =>
       /\ drafts[d].intents \subseteq drafts'[d].intents
       /\ drafts'[d].version - drafts[d].version = Cardinality(drafts'[d].intents \ drafts[d].intents)
  /\ \A d \in DOMAIN published : d \in DOMAIN published' /\ published'[d] = published[d]

StoreStepsTo == StoreOK' /\ Advances /\ NothingLost

\* A draft that does not change.
LEMMA SameDraft ==
  ASSUME DocsOK, NEW d \in Drafts, drafts[d] # Absent, drafts'[d] = drafts[d]
  PROVE  /\ drafts[d].intents \subseteq drafts'[d].intents
         /\ drafts'[d].version - drafts[d].version = Cardinality(drafts'[d].intents \ drafts[d].intents)
<1>1. drafts[d].version \in Nat
  BY DocIs DEF DocsOK
<1>2. drafts'[d].intents \ drafts[d].intents = {} /\ drafts'[d].version = drafts[d].version
  OBVIOUS
<1>3. drafts'[d].version - drafts[d].version = 0
  BY <1>1, <1>2
<1>4. QED
  BY <1>2, <1>3, FS_EmptySet

LEMMA QuietStore == StoreOK /\ StaysQuiet => StoreStepsTo
<1> SUFFICES ASSUME StoreOK, StaysQuiet PROVE StoreStepsTo
  OBVIOUS
<1>1. /\ drafts' = drafts /\ index' = index /\ born' = born /\ published' = published
      /\ vouched \subseteq vouched' /\ signed \subseteq signed'
  BY DEF StaysQuiet
<1>2. DocsOK' /\ IndexOK'
  BY <1>1 DEF StoreOK, DocsOK, IndexOK, Known
<1>3. ApprovedAsSeen'
  BY <1>1 DEF StoreOK, ApprovedAsSeen, Known
<1>4. PublishedOK'
  BY <1>1 DEF StoreOK, PublishedOK, PublishedAsReviewed, Known
<1>5. Advances
  BY <1>1 DEF Advances
<1>6. NothingLost
  BY <1>1, SameDraft DEF NothingLost, StoreOK
<1>7. QED
  BY <1>2, <1>3, <1>4, <1>5, <1>6 DEF StoreStepsTo, StoreOK

LEMMA TakesStore == StoreOK /\ Takes => StoreStepsTo
<1> SUFFICES ASSUME StoreOK, Takes PROVE StoreStepsTo
  OBVIOUS
<1>1. PICK d \in OtherDrafts : TakePlace(d)
  BY DEF Takes
<1>2. drafts' = drafts /\ vouched' = vouched /\ signed' = signed /\ d \notin Drafts
  BY <1>1, Limits DEF Takes, TakePlace
<1>3. \/ index' = index \cup {d} /\ born' = born \cup {d} /\ published' = published
      \/ /\ index' = index /\ born' = born
         /\ d \notin DOMAIN published /\ published' = Put(published, d, << >>)
  BY <1>1 DEF TakePlace
<1>4. /\ DOMAIN published' \ OtherDrafts = DOMAIN published \ OtherDrafts
      /\ \A x \in DOMAIN published : x \in DOMAIN published' /\ published'[x] = published[x]
      /\ \A x \in Drafts : x \in DOMAIN published' <=> x \in DOMAIN published
  <2>1. CASE published' = published
    BY <2>1
  <2>2. CASE d \notin DOMAIN published /\ published' = Put(published, d, << >>)
    BY <1>2, <2>2 DEF Put
  <2>3. QED
    BY <1>3, <2>1, <2>2
<1>5. DocsOK' /\ IndexOK'
  <2>1. IsFiniteSet(index')
    BY <1>3, FS_AddElement DEF StoreOK, IndexOK
  <2>2. QED
    BY <1>2, <1>3, <2>1 DEF StoreOK, DocsOK, IndexOK, Known
<1>6. ApprovedAsSeen'
  BY <1>2 DEF StoreOK, ApprovedAsSeen, Known
<1>7. PublishedOK'
  <2>1. \A x \in DOMAIN published \ OtherDrafts :
          /\ x \in born /\ published[x] \in [Items -> Texts]
          /\ <<x, published[x]>> \in signed
          /\ \A i \in Items : <<x, i, published[x][i]>> \in vouched
    BY DEF StoreOK, PublishedOK, PublishedAsReviewed
  <2>2. \A x \in DOMAIN published' \ OtherDrafts :
          /\ x \in born' /\ published'[x] \in [Items -> Texts]
          /\ <<x, published'[x]>> \in signed'
          /\ \A i \in Items : <<x, i, published'[x][i]>> \in vouched'
    BY <1>2, <1>3, <1>4, <2>1
  <2>3. \A x \in Known :
          /\ drafts[x].status = "published" <=> x \in DOMAIN published
          /\ x \in DOMAIN published => published[x] = drafts[x].items
    BY DEF StoreOK, PublishedOK, PublishedAsReviewed
  <2>4. Known' = Known /\ Known \subseteq Drafts
    BY <1>2 DEF Known
  <2>5. \A x \in Known' :
          /\ drafts'[x].status = "published" <=> x \in DOMAIN published'
          /\ x \in DOMAIN published' => published'[x] = drafts'[x].items
    BY <1>2, <1>4, <2>3, <2>4
  <2>6. QED
    BY <2>2, <2>5 DEF PublishedOK, PublishedAsReviewed
<1>8. Advances
  BY <1>2, <1>3 DEF Advances
<1>9. NothingLost
  BY <1>2, <1>4, SameDraft DEF NothingLost, StoreOK
<1>10. QED
  BY <1>5, <1>6, <1>7, <1>8, <1>9 DEF StoreStepsTo, StoreOK

LEMMA LapsesStore == StoreOK /\ Lapses => StoreStepsTo
<1> SUFFICES ASSUME StoreOK, Lapses PROVE StoreStepsTo
  OBVIOUS
<1>1. PICK d \in index : /\ index' = index \ {d}
                         /\ drafts' = [x \in Drafts |-> IF x = d THEN Absent ELSE drafts[x]]
                         /\ UNCHANGED <<born, published, vouched, signed>>
  BY DEF Lapses, Expire
<1>2. \A x \in Drafts : drafts'[x] = Absent \/ (x # d /\ drafts'[x] = drafts[x])
  BY <1>1
<1>3. DocsOK'
  BY <1>1, <1>2 DEF StoreOK, DocsOK
<1>4. Known' = Known \ {d} /\ Known \subseteq Drafts
  BY <1>1 DEF Known
<1>5. IndexOK'
  <2>1. IsFiniteSet(index')
    BY <1>1, FS_RemoveElement DEF StoreOK, IndexOK
  <2>2. QED
    BY <1>1, <1>4, <2>1 DEF StoreOK, IndexOK
<1>6. \A x \in Known' : x \in Known /\ drafts'[x] = drafts[x]
  BY <1>2, <1>4 DEF Known
<1>7. ApprovedAsSeen'
  BY <1>1, <1>6 DEF StoreOK, ApprovedAsSeen
<1>8. PublishedOK'
  BY <1>1, <1>6 DEF StoreOK, PublishedOK, PublishedAsReviewed
<1>9. Advances
  BY <1>1, <1>2 DEF Advances
<1>10. NothingLost
  BY <1>1, <1>2, SameDraft DEF NothingLost, StoreOK
<1>11. QED
  BY <1>3, <1>5, <1>7, <1>8, <1>9, <1>10 DEF StoreStepsTo, StoreOK

LEMMA CreatesStore == StoreOK /\ Creates => StoreStepsTo
<1> SUFFICES ASSUME StoreOK, Creates PROVE StoreStepsTo
  OBVIOUS
<1>1. PICK d \in Drafts, items \in [Items -> Texts] :
        /\ d \notin born
        /\ drafts' = [drafts EXCEPT ![d] = New(d, items)]
        /\ index' = index \cup {d} /\ born' = born \cup {d}
        /\ UNCHANGED <<published, vouched, signed>>
  BY DEF Creates
<1> DEFINE n == New(d, items)
<1>2. IsDoc(d, n) /\ n # Absent /\ n.status = "needs-review" /\ \A i \in Items : n.approved[i] = NoText
  BY NewIs, DocIs
<1>3. DOMAIN drafts = Drafts /\ drafts' = [drafts EXCEPT ![d] = n]
  BY <1>1 DEF StoreOK, DocsOK
<1> HIDE DEF n
<1>4. drafts'[d] = n /\ \A x \in Drafts : x # d => drafts'[x] = drafts[x]
  BY <1>3
<1>5. drafts[d] = Absent
  BY <1>1 DEF StoreOK, DocsOK
<1>6. d \notin DOMAIN published /\ d \notin OtherDrafts
  BY <1>1, Limits DEF StoreOK, PublishedOK
<1>7. DocsOK'
  BY <1>1, <1>2, <1>3, <1>4 DEF StoreOK, DocsOK
<1>8. Known' = Known \cup {d}
  BY <1>2, <1>4 DEF Known
<1>9. IndexOK'
  <2>1. IsFiniteSet(index')
    BY <1>1, FS_AddElement DEF StoreOK, IndexOK
  <2>2. QED
    BY <1>1, <1>8, <2>1 DEF StoreOK, IndexOK
<1>10. ASSUME NEW x \in Known' PROVE x = d \/ (x # d /\ x \in Known /\ drafts'[x] = drafts[x])
  BY <1>4, <1>8, <1>10 DEF Known
<1>11. ApprovedAsSeen'
  BY <1>1, <1>2, <1>4, <1>10 DEF StoreOK, ApprovedAsSeen
<1>12. PublishedOK'
  BY <1>1, <1>2, <1>4, <1>6, <1>10 DEF StoreOK, PublishedOK, PublishedAsReviewed
<1>13. Advances
  BY <1>1, <1>4 DEF Advances
<1>14. NothingLost
  BY <1>1, <1>4, <1>5, SameDraft DEF NothingLost, StoreOK
<1>15. QED
  BY <1>7, <1>9, <1>11, <1>12, <1>13, <1>14 DEF StoreStepsTo, StoreOK

\* A change the verdict allows, whatever it is.
LEMMA AllowedIs ==
  ASSUME StoreOK, NEW r, Allows(r), r.op \in Changing,
         \A d \in DOMAIN published : d \in DOMAIN published' /\ published'[d] = published[d]
  PROVE  /\ r.draft \in Known /\ IsDoc(r.draft, drafts[r.draft])
         /\ drafts[r.draft].status = "needs-review"
         /\ drafts'[r.draft] = Changed(drafts[r.draft], r)
         /\ \A x \in Drafts : x # r.draft => drafts'[x] = drafts[x]
         /\ DocsOK' /\ IndexOK' /\ Known' = Known /\ Advances /\ NothingLost
<1> DEFINE d == r.draft
           doc == drafts[d]
           n == Changed(doc, r)
<1>1. /\ GoodRequest(r) /\ doc # Absent /\ Verdict(doc, r) = "ok"
      /\ drafts' = [drafts EXCEPT ![d] = n]
      /\ UNCHANGED <<index, born, vouched, signed>>
  BY DEF Allows, Backed
<1>2. d \in Drafts /\ d \in born /\ IsDoc(d, doc) /\ DOMAIN drafts = Drafts
  BY <1>1 DEF GoodRequest, StoreOK, DocsOK
<1>3. IsDoc(d, n) /\ n.version > doc.version /\ Cardinality(n.intents \ doc.intents) = 1
  BY <1>1, <1>2, ChangedIsDoc
<1>4. n.version = doc.version + 1 /\ doc.intents \subseteq n.intents
  <2>1. n = Document(d, doc.version + 1, n.status, n.items, n.approved, doc.intents \cup {r})
    BY <1>2, ChangedIs
  <2> HIDE DEF n
  <2>2. QED
    BY <2>1 DEF Document
<1>5. n # Absent /\ doc.version \in Nat
  BY <1>2, <1>3, DocIs
<1>6. doc.status = "needs-review"
  BY <1>1, <1>2, OkIs DEF IsDoc
<1> HIDE DEF n
<1>7. drafts'[d] = n /\ \A x \in Drafts : x # d => drafts'[x] = drafts[x]
  BY <1>1, <1>2
<1>8. DocsOK'
  BY <1>1, <1>2, <1>3, <1>7 DEF StoreOK, DocsOK
<1>9. Known' = Known
  BY <1>1, <1>2, <1>5, <1>7 DEF Known
<1>10. IndexOK'
  BY <1>1, <1>9 DEF StoreOK, IndexOK
<1>11. Advances
  BY <1>1, <1>3, <1>7 DEF Advances
<1>12. NothingLost
  <2>1. ASSUME NEW x \in Drafts, drafts[x] # Absent, drafts'[x] # Absent
        PROVE  /\ drafts[x].intents \subseteq drafts'[x].intents
               /\ drafts'[x].version - drafts[x].version = Cardinality(drafts'[x].intents \ drafts[x].intents)
    <3>1. CASE x = d
      <4>1. n.version - doc.version = 1
        BY <1>4, <1>5
      <4>2. QED
        BY <1>3, <1>4, <1>7, <3>1, <4>1
    <3>2. CASE x # d
      BY <1>7, <2>1, <3>2, SameDraft DEF StoreOK
    <3>3. QED
      BY <3>1, <3>2
  <2>2. QED
    BY <2>1 DEF NothingLost
<1>13. QED
  BY <1>1, <1>2, <1>6, <1>7, <1>8, <1>9, <1>10, <1>11, <1>12 DEF n, Known

LEMMA EditsStore == StoreOK /\ Edits => StoreStepsTo
<1> SUFFICES ASSUME StoreOK, Edits PROVE StoreStepsTo
  OBVIOUS
<1>1. PICK r : Allows(r) /\ r.op \in {"save", "approve"} /\ published' = published
  BY DEF Edits
<1> DEFINE d == r.draft
           doc == drafts[d]
           n == Changed(doc, r)
<1>2. /\ d \in Known /\ IsDoc(d, doc) /\ doc.status = "needs-review" /\ drafts'[d] = n
      /\ \A x \in Drafts : x # d => drafts'[x] = drafts[x]
      /\ DocsOK' /\ IndexOK' /\ Known' = Known /\ Advances /\ NothingLost
  BY <1>1, AllowedIs DEF Changing
<1>3. vouched' = vouched /\ signed' = signed /\ born' = born
  BY <1>1 DEF Allows
<1>4. r.op \in Changing
  BY <1>1 DEF Changing
<1>5. /\ n = Document(d, doc.version + 1, n.status, n.items, n.approved, doc.intents \cup {r})
      /\ r.op = "save" => n.status = doc.status /\ n.items = r.items /\ n.approved = Kept(doc, r)
      /\ r.op = "approve" => n.status = doc.status /\ n.items = doc.items /\ n.approved = Given(doc, r)
      /\ r.op = "publish" => n.status = "published" /\ n.items = doc.items /\ n.approved = doc.approved
  BY <1>2, <1>4, ChangedIs
<1>6. ASSUME NEW i \in Items, n.approved[i] # NoText
      PROVE  n.approved[i] = n.items[i] /\ <<d, i, n.items[i]>> \in vouched
  <2>1. doc.approved[i] # NoText => /\ doc.approved[i] = doc.items[i]
                                    /\ <<d, i, doc.items[i]>> \in vouched
    BY <1>2 DEF StoreOK, ApprovedAsSeen
  <2>2. doc.items \in [Items -> Texts] /\ doc.approved \in [Items -> Texts \cup {NoText}]
    BY <1>2 DEF IsDoc
  <2>3. CASE r.op = "save"
    <3>1. n.items = r.items /\ n.approved = Kept(doc, r)
      BY <1>5, <2>3
    <3> HIDE DEF n
    <3>2. n.approved[i] = doc.approved[i] /\ r.items[i] = doc.items[i]
      BY <1>6, <3>1 DEF Kept
    <3>3. QED
      BY <1>6, <2>1, <3>1, <3>2
  <2>4. CASE r.op = "approve"
    <3>1. n.items = doc.items /\ n.approved = Given(doc, r)
      BY <1>5, <2>4
    <3> HIDE DEF n
    <3>2. CASE i = r.item
      <4>1. Verdict(doc, r) = "ok" /\ doc # Absent
        BY <1>1 DEF Allows
      <4>2. IsPresent(r)
        BY <4>1, OkIs DEF IsPresent
      <4>3. <<d, i, doc.items[i]>> \in vouched
        BY <1>1, <2>4, <3>2, <4>2 DEF Allows, Backed, Vouched
      <4>4. n.approved[i] = doc.items[i]
        BY <2>2, <3>1, <3>2 DEF Given
      <4>5. QED
        BY <3>1, <4>3, <4>4
    <3>3. CASE i # r.item
      <4>1. n.approved[i] = doc.approved[i]
        BY <2>2, <3>1, <3>3 DEF Given
      <4>2. QED
        BY <1>6, <2>1, <3>1, <4>1
    <3>4. QED
      BY <3>2, <3>3
  <2>5. QED
    BY <1>1, <2>3, <2>4
<1>7. n.status = "needs-review"
  BY <1>1, <1>2, <1>5
<1> HIDE DEF n
<1>8. Known \subseteq Drafts
  BY DEF Known
<1>9. ApprovedAsSeen'
  <2>1. ASSUME NEW x \in Known, NEW i \in Items, drafts'[x].approved[i] # NoText
        PROVE  /\ drafts'[x].approved[i] = drafts'[x].items[i]
               /\ <<x, i, drafts'[x].items[i]>> \in vouched'
    <3>1. CASE x = d
      BY <1>2, <1>3, <1>6, <2>1, <3>1
    <3>2. CASE x # d
      BY <1>2, <1>3, <1>8, <2>1, <3>2 DEF StoreOK, ApprovedAsSeen
    <3>3. QED
      BY <3>1, <3>2
  <2>2. QED
    BY <1>2, <2>1 DEF ApprovedAsSeen
<1>10. PublishedOK'
  <2>1. d \notin DOMAIN published
    BY <1>2 DEF StoreOK, PublishedOK, PublishedAsReviewed
  <2>2. \A x \in Known : /\ drafts'[x].status = "published" <=> x \in DOMAIN published
                         /\ x \in DOMAIN published => published[x] = drafts'[x].items
    BY <1>2, <1>7, <1>8, <2>1 DEF StoreOK, PublishedOK, PublishedAsReviewed
  <2>3. QED
    BY <1>1, <1>2, <1>3, <2>2 DEF StoreOK, PublishedOK, PublishedAsReviewed
<1>11. QED
  BY <1>2, <1>9, <1>10 DEF StoreStepsTo, StoreOK

LEMMA PublishesStore == StoreOK /\ Publishes => StoreStepsTo
<1> SUFFICES ASSUME StoreOK, Publishes PROVE StoreStepsTo
  OBVIOUS
<1>1. PICK r : /\ Allows(r) /\ r.op = "publish" /\ r.draft \notin DOMAIN published
               /\ published' = Put(published, r.draft, drafts[r.draft].items)
  BY DEF Publishes
<1> DEFINE d == r.draft
           doc == drafts[d]
           n == Changed(doc, r)
<1>2. /\ DOMAIN published' = DOMAIN published \cup {d} /\ published'[d] = doc.items
      /\ \A x \in DOMAIN published : published'[x] = published[x]
  BY <1>1 DEF Put
<1>3. /\ d \in Known /\ IsDoc(d, doc) /\ doc.status = "needs-review" /\ drafts'[d] = n
      /\ \A x \in Drafts : x # d => drafts'[x] = drafts[x]
      /\ DocsOK' /\ IndexOK' /\ Known' = Known /\ Advances /\ NothingLost
  BY <1>1, <1>2, AllowedIs DEF Changing
<1>4. vouched' = vouched /\ signed' = signed /\ born' = born
  BY <1>1 DEF Allows
<1>5. r.op \in Changing
  BY <1>1 DEF Changing
<1>6. /\ n = Document(d, doc.version + 1, n.status, n.items, n.approved, doc.intents \cup {r})
      /\ r.op = "save" => n.status = doc.status /\ n.items = r.items /\ n.approved = Kept(doc, r)
      /\ r.op = "approve" => n.status = doc.status /\ n.items = doc.items /\ n.approved = Given(doc, r)
      /\ r.op = "publish" => n.status = "published" /\ n.items = doc.items /\ n.approved = doc.approved
  BY <1>3, <1>5, ChangedIs
<1>7. n.status = "published" /\ n.items = doc.items /\ n.approved = doc.approved
  BY <1>1, <1>6
<1>8. Known \subseteq Drafts /\ d \in born /\ doc.items \in [Items -> Texts]
  BY <1>3 DEF Known, IsDoc, StoreOK, DocsOK
<1>9. \A i \in Items : <<d, i, doc.items[i]>> \in vouched
  <2>1. AllApproved(doc)
    BY <1>1, OkIs DEF Allows
  <2>2. ASSUME NEW i \in Items PROVE doc.approved[i] # NoText
    BY <1>8, <2>1, Limits DEF AllApproved
  <2>3. QED
    BY <1>3, <2>2 DEF StoreOK, ApprovedAsSeen
<1>10. <<d, doc.items>> \in signed
  <2>1. Verdict(doc, r) = "ok" /\ doc # Absent
    BY <1>1 DEF Allows
  <2>2. IsPresent(r)
    BY <2>1, OkIs DEF IsPresent
  <2>3. QED
    BY <1>1, <2>2 DEF Allows, Backed, Signed
<1> HIDE DEF n
<1>11. ApprovedAsSeen'
  BY <1>3, <1>4, <1>7, <1>8 DEF StoreOK, ApprovedAsSeen
<1>12. PublishedOK'
  <2>1. \A x \in DOMAIN published \ OtherDrafts :
          /\ x \in born /\ published[x] \in [Items -> Texts]
          /\ <<x, published[x]>> \in signed
          /\ \A i \in Items : <<x, i, published[x][i]>> \in vouched
    BY DEF StoreOK, PublishedOK, PublishedAsReviewed
  <2>2. \A x \in DOMAIN published' \ OtherDrafts :
          /\ x \in born' /\ published'[x] \in [Items -> Texts]
          /\ <<x, published'[x]>> \in signed'
          /\ \A i \in Items : <<x, i, published'[x][i]>> \in vouched'
    BY <1>2, <1>4, <1>8, <1>9, <1>10, <2>1
  <2>3. \A x \in Known :
          /\ drafts[x].status = "published" <=> x \in DOMAIN published
          /\ x \in DOMAIN published => published[x] = drafts[x].items
    BY DEF StoreOK, PublishedOK, PublishedAsReviewed
  <2>4. \A x \in Known' :
          /\ drafts'[x].status = "published" <=> x \in DOMAIN published'
          /\ x \in DOMAIN published' => published'[x] = drafts'[x].items
    BY <1>2, <1>3, <1>7, <1>8, <2>3
  <2>5. QED
    BY <2>2, <2>4 DEF PublishedOK, PublishedAsReviewed
<1>13. QED
  BY <1>3, <1>11, <1>12 DEF StoreStepsTo, StoreOK

LEMMA StoreStep == StoreOK /\ StoreMoves => StoreStepsTo
  BY QuietStore, CreatesStore, EditsStore, PublishesStore, TakesStore, LapsesStore DEF StoreMoves

-----------------------------------------------------------------------------
(***************************************************************************)
(* The requests at work.  Whatever is stored may change under a handler,   *)
(* and what it holds stays true of the version it was read in.             *)
(***************************************************************************)
Stages == {"idle", "called", "generating", "writing", "conflicted", "replied"}

Prepared(r, before) ==
  \/ r.op = "create" /\ \E items \in [Items -> Texts] : before = New(r.draft, items)
  \/ r.op \in Changing /\ Verdict(before, r) = "ok"

GoodReply(r, reply) ==
  "code" \notin DOMAIN reply =>
    IF r.op = "regenerate" THEN reply \in Previews ELSE Copy(View(reply))

HandlerOK(w) ==
  /\ w.stage \in Stages
  /\ w.stage # "idle" => Backed(w.request)
  /\ w.stage = "generating" => w.request.op \in {"create", "regenerate"}
  /\ w.stage = "writing" => Prepared(w.request, w.before)
  /\ w.stage = "conflicted" => w.request.op # "regenerate"
  /\ w.stage = "replied" => GoodReply(w.request, w.reply)

HandlersOK == DOMAIN handler = Handlers /\ \A h \in Handlers : \A w : w = handler[h] => HandlerOK(w)

LEMMA HandlerLasts ==
  ASSUME DocsOK, DocsOK', Advances, NEW w, HandlerOK(w)
  PROVE  HandlerOK(w)'
<1>1. w.stage # "idle" => Backed(w.request)'
  BY BackedLasts DEF HandlerOK
<1>2. w.stage = "replied" => GoodReply(w.request, w.reply)'
  BY CopyLasts DEF HandlerOK, GoodReply
<1>3. QED
  BY <1>1, <1>2 DEF HandlerOK

\* One handler moves, or none.
LEMMA HandlersMove ==
  ASSUME HandlersOK, DocsOK, DocsOK', Advances, NEW h, NEW w,
         handler' = [handler EXCEPT ![h] = w], HandlerOK(w)'
  PROVE  HandlersOK'
<1>1. ASSUME NEW k \in Handlers, NEW x, x = handler'[k] PROVE HandlerOK(x)'
  <2>1. CASE x = w
    BY <2>1
  <2>2. CASE x # w
    <3>1. x = handler[k]
      BY <1>1, <2>2 DEF HandlersOK
    <3>2. HandlerOK(x)
      BY <3>1 DEF HandlersOK
    <3>3. QED
      BY <3>2, HandlerLasts
  <2>3. QED
    BY <2>1, <2>2
<1>2. QED
  BY <1>1 DEF HandlersOK

LEMMA HandlersRest ==
  ASSUME HandlersOK, DocsOK, DocsOK', Advances, handler' = handler
  PROVE  HandlersOK'
<1>1. ASSUME NEW k \in Handlers, NEW x, x = handler'[k] PROVE HandlerOK(x)'
  BY <1>1, HandlerLasts DEF HandlersOK
<1>2. QED
  BY <1>1 DEF HandlersOK

\* A request goes on, or is answered.
LEMMA GoesOn ==
  ASSUME HandlersOK, DocsOK, DocsOK', Advances, NEW h \in Handlers,
         NEW stage \in Stages \ {"idle", "replied"}, NEW r, Backed(r)', NEW before, Goes(h, stage, r, before),
         stage = "generating" => r.op \in {"create", "regenerate"},
         stage = "writing" => Prepared(r, before),
         stage = "conflicted" => r.op # "regenerate"
  PROVE  HandlersOK'
<1> DEFINE w == [stage |-> stage, request |-> r, before |-> before]
<1>1. w.stage = stage /\ w.request = r /\ w.before = before /\ handler' = [handler EXCEPT ![h] = w]
  BY DEF Goes
<1> HIDE DEF w
<1>2. HandlerOK(w)'
  BY <1>1 DEF HandlerOK, Stages, Prepared
<1>3. QED
  BY <1>1, <1>2, HandlersMove

LEMMA Answers ==
  ASSUME HandlersOK, DocsOK, DocsOK', Advances, NEW h \in Handlers, NEW r, handler[h].request = r, Backed(r),
         NEW reply, Replies(h, reply), GoodReply(r, reply)'
  PROVE  HandlersOK'
<1> DEFINE w == [stage |-> "replied", request |-> r, reply |-> reply]
<1>1. /\ w.stage = "replied" /\ w.request = r /\ w.reply = reply
      /\ handler' = [handler EXCEPT ![h] = w]
  BY DEF Replies
<1> HIDE DEF w
<1>2. Backed(r)'
  BY BackedLasts
<1>3. HandlerOK(w)'
  BY <1>1, <1>2 DEF HandlerOK, Stages
<1>4. QED
  BY <1>1, <1>3, HandlersMove

LEMMA Freed ==
  ASSUME HandlersOK, DocsOK, DocsOK', Advances, NEW h \in Handlers, handler' = Free(h)
  PROVE  HandlersOK'
<1>1. Idle.stage = "idle" /\ handler' = [handler EXCEPT ![h] = Idle]
  BY DEF Idle, Free
<1>2. HandlerOK(Idle)'
  BY <1>1 DEF HandlerOK, Stages
<1>3. QED
  BY <1>1, <1>2, HandlersMove

\* What a handler may answer: a refusal, or the draft as it is stored.
LEMMA RefusalIsGood ==
  ASSUME NEW r, NEW code PROVE GoodReply(r, Refused(code))'
  BY DEF GoodReply, Refused

LEMMA StoredIsGood ==
  ASSUME DocsOK', NEW d, d \in Drafts, NEW doc, doc # Absent, drafts'[d] = doc, NEW r, r.op # "regenerate"
  PROVE  GoodReply(r, doc)'
<1>1. IsDoc(d, doc) /\ d \in born'
  BY DEF DocsOK
<1>2. View(doc) \in Views /\ doc.draft = d
  BY <1>1, DocIs
<1>3. View(doc).draft = d /\ View(doc).version = doc.version
  BY <1>2, ViewIs
<1>4. doc.version \in Nat
  BY <1>1, DocIs
<1>5. Copy(View(doc))'
  BY <1>1, <1>2, <1>3, <1>4 DEF Copy
<1>6. QED
  BY <1>5 DEF GoodReply

-----------------------------------------------------------------------------
(***************************************************************************)
(* The service, from one access to the store to the next.                  *)
(***************************************************************************)
\* What a handler that is at work has in hand.
LEMMA AtWork ==
  ASSUME StoreOK, HandlersOK, NEW h \in Handlers
  PROVE  /\ handler[h].stage # "idle" =>
              /\ Backed(handler[h].request) /\ handler[h].request.draft \in Drafts
              /\ Stored(h) # Absent => IsDoc(handler[h].request.draft, Stored(h))
         /\ handler[h].stage = "generating" => handler[h].request.op \in {"create", "regenerate"}
         /\ handler[h].stage = "writing" => Prepared(handler[h].request, handler[h].before)
         /\ handler[h].stage = "conflicted" => handler[h].request.op # "regenerate"
<1>1. HandlerOK(handler[h])
  BY DEF HandlersOK
<1>2. handler[h].stage # "idle" => handler[h].request.draft \in Drafts
  BY <1>1 DEF HandlerOK, Backed, GoodRequest
<1>3. QED
  BY <1>1, <1>2 DEF HandlerOK, Stored, StoreOK, DocsOK

\* Steps that read only.
LEMMA QuietMoves ==
  ASSUME StoreOK, UNCHANGED <<drafts, index, born, published, vouched, signed>>
  PROVE  StoreMoves /\ DocsOK' /\ Advances
<1>1. StaysQuiet
  BY DEF StaysQuiet
<1>2. QED
  BY <1>1, QuietStore DEF StoreMoves, StoreStepsTo, StoreOK

ServedWell(A) == A /\ StoreOK /\ HandlersOK /\ UNCHANGED <<vouched, signed>> => StoreMoves /\ HandlersOK'

LEMMA ShowsWell == ASSUME NEW h \in Handlers PROVE ServedWell(ReadToShow(h))
<1> SUFFICES ASSUME ReadToShow(h), StoreOK, HandlersOK, UNCHANGED <<vouched, signed>>
             PROVE  StoreMoves /\ HandlersOK'
  BY DEF ServedWell
<1>1. PICK r : r = handler[h].request
  OBVIOUS
<1>2. Backed(r) /\ r.draft \in Drafts /\ r.op \in {"open", "compare"}
  BY <1>1, AtWork DEF ReadToShow, Called
<1>3. PICK doc : doc = Stored(h)
  OBVIOUS
<1>4. StoreMoves /\ DocsOK' /\ Advances /\ drafts'[r.draft] = doc
  BY <1>1, <1>3, QuietMoves DEF ReadToShow, Stored
<1>5. CASE doc = Absent
  <2>1. Replies(h, Refused("DRAFT_NOT_FOUND"))
    BY <1>3, <1>5 DEF ReadToShow
  <2>2. HandlersOK'
    BY <1>1, <1>2, <1>4, <2>1, RefusalIsGood, Answers DEF StoreOK
  <2>3. QED
    BY <1>4, <2>2
<1>6. CASE doc # Absent
  <2>1. Replies(h, doc)
    BY <1>3, <1>6 DEF ReadToShow
  <2>2. GoodReply(r, doc)'
    BY <1>2, <1>4, <1>6, StoredIsGood
  <2>3. HandlersOK'
    BY <1>1, <1>2, <1>4, <2>1, <2>2, Answers DEF StoreOK
  <2>4. QED
    BY <1>4, <2>3
<1>7. QED
  BY <1>5, <1>6

\* The places in the index can be counted.
LEMMA CountsPlaces == StoreOK => Cardinality(index) >= DraftQuota \/ Cardinality(index) < DraftQuota
<1>1. StoreOK => Cardinality(index) \in Nat /\ DraftQuota \in Nat
  BY FS_CardinalityType, AuthoringAssumption DEF StoreOK, IndexOK
<1>2. QED
  BY <1>1

LEMMA FindsWell == ASSUME NEW h \in Handlers PROVE ServedWell(ReadToCreate(h))
<1> SUFFICES ASSUME ReadToCreate(h), StoreOK, HandlersOK, UNCHANGED <<vouched, signed>>
             PROVE  StoreMoves /\ HandlersOK'
  BY DEF ServedWell
<1>1. PICK r : r = handler[h].request
  OBVIOUS
<1>2. Backed(r) /\ r.draft \in Drafts /\ r.op = "create"
  BY <1>1, AtWork DEF ReadToCreate, Called
<1>3. PICK doc : doc = Stored(h)
  OBVIOUS
<1>4. StoreMoves /\ DocsOK' /\ Advances /\ drafts'[r.draft] = doc
  BY <1>1, <1>3, QuietMoves DEF ReadToCreate, Stored
<1>5. \/ doc # Absent /\ Replies(h, doc)
      \/ Replies(h, Refused("AUTHORING_QUOTA"))
      \/ Goes(h, "generating", r, Absent)
  BY <1>1, <1>3, CountsPlaces DEF ReadToCreate
<1>6. CASE doc # Absent /\ Replies(h, doc)
  <2>1. GoodReply(r, doc)'
    BY <1>2, <1>4, <1>6, StoredIsGood
  <2>2. HandlersOK'
    BY <1>1, <1>2, <1>4, <1>6, <2>1, Answers DEF StoreOK
  <2>3. QED
    BY <1>4, <2>2
<1>7. CASE Replies(h, Refused("AUTHORING_QUOTA"))
  <2>1. HandlersOK'
    BY <1>1, <1>2, <1>4, <1>7, RefusalIsGood, Answers DEF StoreOK
  <2>2. QED
    BY <1>4, <2>1
<1>8. CASE Goes(h, "generating", r, Absent)
  <2>1. Backed(r)'
    BY <1>2, <1>4, BackedLasts DEF StoreOK
  <2>2. HandlersOK'
    BY <1>2, <1>4, <1>8, <2>1, GoesOn DEF Stages, StoreOK
  <2>3. QED
    BY <1>4, <2>2
<1>9. QED
  BY <1>5, <1>6, <1>7, <1>8

LEMMA ChecksWell == ASSUME NEW h \in Handlers PROVE ServedWell(ReadToChange(h))
<1> SUFFICES ASSUME ReadToChange(h), StoreOK, HandlersOK, UNCHANGED <<vouched, signed>>
             PROVE  StoreMoves /\ HandlersOK'
  BY DEF ServedWell
<1>1. PICK r : r = handler[h].request
  OBVIOUS
<1>2. PICK doc : doc = Stored(h)
  OBVIOUS
<1>3. /\ Backed(r) /\ r.draft \in Drafts /\ r.op \in Changing \cup {"regenerate"}
      /\ doc # Absent => IsDoc(r.draft, doc)
  BY <1>1, <1>2, AtWork DEF ReadToChange, Called, Changing
<1>4. StoreMoves /\ DocsOK' /\ Advances /\ drafts'[r.draft] = doc
  BY <1>1, <1>2, QuietMoves DEF ReadToChange, Stored
<1>5. PICK verdict : /\ verdict = IF doc = Absent THEN "DRAFT_NOT_FOUND" ELSE Verdict(doc, r)
                     /\ \/ verdict = "replayed" /\ Replies(h, doc)
                        \/ /\ verdict = "ok"
                           /\ Goes(h, IF r.op = "regenerate" THEN "generating" ELSE "writing", r, doc)
                        \/ Replies(h, Refused(verdict))
  BY <1>1, <1>2 DEF ReadToChange
<1>6. CASE verdict = "replayed" /\ Replies(h, doc)
  <2>1. doc # Absent /\ Verdict(doc, r) = "replayed"
    BY <1>5, <1>6
  <2>2. r \in doc.intents
    BY <2>1 DEF Verdict
  <2>3. r.op # "regenerate"
    BY <1>3, <2>1, <2>2 DEF IsDoc, Changing
  <2>4. GoodReply(r, doc)'
    BY <1>3, <1>4, <2>1, <2>3, StoredIsGood
  <2>5. HandlersOK'
    BY <1>1, <1>3, <1>4, <1>6, <2>4, Answers DEF StoreOK
  <2>6. QED
    BY <1>4, <2>5
<1>7. CASE /\ verdict = "ok"
           /\ Goes(h, IF r.op = "regenerate" THEN "generating" ELSE "writing", r, doc)
  <2>1. Verdict(doc, r) = "ok" /\ Backed(r)'
    BY <1>3, <1>4, <1>5, <1>7, BackedLasts DEF StoreOK
  <2>2. CASE r.op = "regenerate"
    BY <1>4, <1>7, <2>1, <2>2, GoesOn DEF Stages, StoreOK
  <2>3. CASE r.op # "regenerate"
    BY <1>3, <1>4, <1>7, <2>1, <2>3, GoesOn DEF Stages, StoreOK, Prepared
  <2>4. QED
    BY <2>2, <2>3
<1>8. CASE Replies(h, Refused(verdict))
  <2>1. HandlersOK'
    BY <1>1, <1>3, <1>4, <1>8, RefusalIsGood, Answers DEF StoreOK
  <2>2. QED
    BY <1>4, <2>1
<1>9. QED
  BY <1>5, <1>6, <1>7, <1>8

LEMMA GeneratesWell == ASSUME NEW h \in Handlers PROVE ServedWell(Generate(h))
<1> SUFFICES ASSUME Generate(h), StoreOK, HandlersOK, UNCHANGED <<vouched, signed>>
             PROVE  StoreMoves /\ HandlersOK'
  BY DEF ServedWell
<1>1. PICK r : r = handler[h].request
  OBVIOUS
<1>2. Backed(r) /\ r.draft \in Drafts
  BY <1>1, AtWork DEF Generate
<1>3. StoreMoves /\ DocsOK' /\ Advances
  BY QuietMoves DEF Generate
<1>4. CASE r.op = "create" /\ \E items \in [Items -> Texts] : Goes(h, "writing", r, New(r.draft, items))
  <2>1. PICK items \in [Items -> Texts] : Goes(h, "writing", r, New(r.draft, items))
    BY <1>4
  <2>2. PICK new : new = New(r.draft, items)
    OBVIOUS
  <2>3. Prepared(r, new) /\ Backed(r)' /\ Goes(h, "writing", r, new)
    BY <1>2, <1>3, <1>4, <2>1, <2>2, BackedLasts DEF Prepared, StoreOK
  <2>4. HandlersOK'
    BY <1>3, <2>3, GoesOn DEF Stages, StoreOK
  <2>5. QED
    BY <1>3, <2>4
<1>5. CASE /\ r.op = "regenerate"
           /\ \E text \in Texts :
                Replies(h, [draft |-> r.draft, item |-> r.item, version |-> r.expected, text |-> text])
  <2>1. PICK text \in Texts :
          Replies(h, [draft |-> r.draft, item |-> r.item, version |-> r.expected, text |-> text])
    BY <1>5
  <2>2. PICK preview : preview = [draft |-> r.draft, item |-> r.item, version |-> r.expected, text |-> text]
    OBVIOUS
  <2>3. r.item \in Items /\ r.expected \in Versions
    BY <1>2, <1>5 DEF Backed, GoodRequest
  <2>4. preview \in Previews
    BY <1>2, <2>2, <2>3 DEF Previews
  <2>5. GoodReply(r, preview)'
    BY <1>5, <2>4 DEF GoodReply, Previews, Versions
  <2>6. Replies(h, preview)
    BY <2>1, <2>2
  <2>7. HandlersOK'
    BY <1>1, <1>2, <1>3, <2>5, <2>6, Answers DEF StoreOK
  <2>8. QED
    BY <1>3, <2>7
<1>6. QED
  BY <1>1, <1>4, <1>5 DEF Generate

LEMMA FailsWell == ASSUME NEW h \in Handlers PROVE ServedWell(GenerationFails(h))
<1> SUFFICES ASSUME GenerationFails(h), StoreOK, HandlersOK, UNCHANGED <<vouched, signed>>
             PROVE  StoreMoves /\ HandlersOK'
  BY DEF ServedWell
<1>1. PICK r : r = handler[h].request
  OBVIOUS
<1>2. Backed(r) /\ Replies(h, Refused("AI_UNAVAILABLE"))
  BY <1>1, AtWork DEF GenerationFails
<1>3. StoreMoves /\ DocsOK' /\ Advances
  BY QuietMoves DEF GenerationFails
<1>4. HandlersOK'
  BY <1>1, <1>2, <1>3, RefusalIsGood, Answers DEF StoreOK
<1>5. QED
  BY <1>3, <1>4

LEMMA RecoversWell == ASSUME NEW h \in Handlers PROVE ServedWell(Recover(h))
<1> SUFFICES ASSUME Recover(h), StoreOK, HandlersOK, UNCHANGED <<vouched, signed>>
             PROVE  StoreMoves /\ HandlersOK'
  BY DEF ServedWell
<1>1. PICK r : r = handler[h].request
  OBVIOUS
<1>2. Backed(r) /\ r.draft \in Drafts /\ r.op # "regenerate"
  BY <1>1, AtWork DEF Recover
<1>3. PICK doc : doc = Stored(h)
  OBVIOUS
<1>4. StoreMoves /\ DocsOK' /\ Advances /\ drafts'[r.draft] = doc
  BY <1>1, <1>3, QuietMoves DEF Recover, Stored
<1>5. (doc # Absent /\ Replies(h, doc)) \/ \E code : Replies(h, Refused(code))
  BY <1>1, <1>3 DEF Recover
<1>6. CASE doc # Absent /\ Replies(h, doc)
  <2>1. GoodReply(r, doc)'
    BY <1>2, <1>4, <1>6, StoredIsGood
  <2>2. HandlersOK'
    BY <1>1, <1>2, <1>4, <1>6, <2>1, Answers DEF StoreOK
  <2>3. QED
    BY <1>4, <2>2
<1>7. CASE \E code : Replies(h, Refused(code))
  <2>1. PICK code : Replies(h, Refused(code))
    BY <1>7
  <2>2. HandlersOK'
    BY <1>1, <1>2, <1>4, <2>1, RefusalIsGood, Answers DEF StoreOK
  <2>3. QED
    BY <1>4, <2>2
<1>8. QED
  BY <1>5, <1>6, <1>7

\* The answer of a write, once the store has moved.
LEMMA WritesWell ==
  ASSUME StoreOK, HandlersOK, StoreMoves, NEW h \in Handlers, NEW r, handler[h].request = r, Backed(r),
         r.draft \in Drafts, r.op # "regenerate",
         \/ \E doc : doc # Absent /\ drafts'[r.draft] = doc /\ Replies(h, doc)
         \/ \E code : Replies(h, Refused(code))
         \/ Goes(h, "conflicted", r, Absent)
  PROVE  HandlersOK'
<1>1. DocsOK /\ DocsOK' /\ Advances
  BY StoreStep DEF StoreStepsTo, StoreOK
<1>2. ASSUME NEW doc, doc # Absent, drafts'[r.draft] = doc, Replies(h, doc) PROVE HandlersOK'
  <2>1. GoodReply(r, doc)'
    BY <1>1, <1>2, StoredIsGood
  <2>2. QED
    BY <1>1, <1>2, <2>1, Answers
<1>3. ASSUME NEW code, Replies(h, Refused(code)) PROVE HandlersOK'
  BY <1>1, <1>3, RefusalIsGood, Answers
<1>4. CASE Goes(h, "conflicted", r, Absent)
  <2>1. Backed(r)'
    BY <1>1, BackedLasts
  <2>2. QED
    BY <1>1, <1>4, <2>1, GoesOn DEF Stages
<1>5. QED
  BY <1>2, <1>3, <1>4

LEMMA CreatesWell == ASSUME NEW h \in Handlers PROVE ServedWell(Create(h))
<1> SUFFICES ASSUME Create(h), StoreOK, HandlersOK, UNCHANGED <<vouched, signed>>
             PROVE  StoreMoves /\ HandlersOK'
  BY DEF ServedWell
<1>1. PICK r : r = handler[h].request
  OBVIOUS
<1>2. Backed(r) /\ r.draft \in Drafts /\ r.op = "create" /\ Prepared(r, handler[h].before)
  BY <1>1, AtWork DEF Create, Writes
<1>3. PICK items \in [Items -> Texts] : handler[h].before = New(r.draft, items)
  BY <1>2 DEF Prepared, Changing
<1>4. PICK doc : doc = New(r.draft, items)
  OBVIOUS
<1>5. doc.draft = r.draft /\ doc # Absent
  BY <1>4, NewIs, DocIs
<1>6. CASE /\ UNCHANGED <<drafts, index, born, published>>
           /\ Goes(h, "conflicted", r, Absent) \/ Replies(h, Refused("AUTHORING_QUOTA"))
  <2>1. StoreMoves
    BY <1>6, QuietMoves
  <2>2. HandlersOK'
    BY <1>1, <1>2, <1>6, <2>1, WritesWell
  <2>3. QED
    BY <2>1, <2>2
<1>7. CASE /\ doc.draft \notin born
           /\ drafts' = [drafts EXCEPT ![doc.draft] = doc]
           /\ index' = index \cup {doc.draft} /\ born' = born \cup {doc.draft}
           /\ published' = published /\ Replies(h, doc)
  <2>1. Creates
    BY <1>2, <1>3, <1>4, <1>5, <1>7 DEF Creates
  <2>2. StoreMoves
    BY <2>1 DEF StoreMoves
  <2>3. drafts'[r.draft] = doc
    BY <1>2, <1>5, <1>7 DEF StoreOK, DocsOK
  <2>4. HandlersOK'
    BY <1>1, <1>2, <1>5, <1>7, <2>2, <2>3, WritesWell
  <2>5. QED
    BY <2>2, <2>4
<1>8. QED
  BY <1>1, <1>3, <1>4, <1>6, <1>7 DEF Create, Conflicted

LEMMA SetsWell == ASSUME NEW h \in Handlers PROVE ServedWell(CompareAndSet(h))
<1> SUFFICES ASSUME CompareAndSet(h), StoreOK, HandlersOK, UNCHANGED <<vouched, signed>>
             PROVE  StoreMoves /\ HandlersOK'
  BY DEF ServedWell
<1>1. PICK r : r = handler[h].request
  OBVIOUS
<1>2. /\ Backed(r) /\ r.draft \in Drafts /\ r.op \in {"save", "approve"} /\ r.op \in Changing
      /\ Prepared(r, handler[h].before) /\ r.op # "create" /\ r.op # "regenerate"
  BY <1>1, AtWork DEF CompareAndSet, Writes, Changing
<1>3. PICK doc : doc = handler[h].before
  OBVIOUS
<1>4. Verdict(doc, r) = "ok"
  BY <1>2, <1>3 DEF Prepared
<1>5. CASE /\ UNCHANGED <<drafts, index, born, published>>
           /\ Goes(h, "conflicted", r, Absent) \/ Replies(h, Refused("DRAFT_NOT_FOUND"))
  <2>1. StoreMoves
    BY <1>5, QuietMoves
  <2>2. HandlersOK'
    BY <1>1, <1>2, <1>5, <2>1, WritesWell
  <2>3. QED
    BY <2>1, <2>2
<1>6. CASE /\ drafts[r.draft] # Absent /\ drafts[r.draft] = doc
           /\ drafts' = [drafts EXCEPT ![r.draft] = Changed(doc, r)]
           /\ UNCHANGED <<index, born, published>> /\ Replies(h, Changed(doc, r))
  <2>1. Allows(r)
    BY <1>2, <1>4, <1>6 DEF Allows
  <2>2. Edits
    BY <1>2, <1>6, <2>1 DEF Edits
  <2>3. StoreMoves
    BY <2>2 DEF StoreMoves
  <2>4. Changed(doc, r) # Absent /\ drafts'[r.draft] = Changed(doc, r)
    <3>1. IsDoc(r.draft, doc) /\ GoodRequest(r)
      BY <1>2, <1>6 DEF StoreOK, DocsOK, Backed
    <3>2. IsDoc(r.draft, Changed(doc, r))
      BY <1>2, <1>4, <3>1, ChangedIsDoc
    <3>3. QED
      BY <1>2, <1>6, <3>2, DocIs DEF StoreOK, DocsOK
  <2>5. HandlersOK'
    BY <1>1, <1>2, <1>6, <2>3, <2>4, WritesWell
  <2>6. QED
    BY <2>3, <2>5
<1>7. QED
  BY <1>1, <1>3, <1>5, <1>6 DEF CompareAndSet, Conflicted, Stored, UnchangedSince

LEMMA PublishesWell == ASSUME NEW h \in Handlers PROVE ServedWell(Publish(h))
<1> SUFFICES ASSUME Publish(h), StoreOK, HandlersOK, UNCHANGED <<vouched, signed>>
             PROVE  StoreMoves /\ HandlersOK'
  BY DEF ServedWell
<1>1. PICK r : r = handler[h].request
  OBVIOUS
<1>2. /\ Backed(r) /\ r.draft \in Drafts /\ r.op = "publish" /\ r.op \in Changing
      /\ Prepared(r, handler[h].before) /\ r.op # "create" /\ r.op # "regenerate"
  BY <1>1, AtWork DEF Publish, Writes, Changing
<1>3. PICK doc : doc = handler[h].before
  OBVIOUS
<1>4. Verdict(doc, r) = "ok"
  BY <1>2, <1>3 DEF Prepared
<1>5. CASE /\ UNCHANGED <<drafts, index, born, published>>
           /\ Goes(h, "conflicted", r, Absent) \/ \E code : Replies(h, Refused(code))
  <2>1. StoreMoves
    BY <1>5, QuietMoves
  <2>2. HandlersOK'
    BY <1>1, <1>2, <1>5, <2>1, WritesWell
  <2>3. QED
    BY <2>1, <2>2
<1>6. CASE /\ drafts[r.draft] # Absent /\ drafts[r.draft] = doc /\ r.draft \notin DOMAIN published
           /\ drafts' = [drafts EXCEPT ![r.draft] = Changed(doc, r)]
           /\ published' = Put(published, r.draft, doc.items)
           /\ UNCHANGED <<index, born>> /\ Replies(h, Changed(doc, r))
  <2>1. Allows(r)
    BY <1>2, <1>4, <1>6 DEF Allows
  <2>2. Publishes
    BY <1>2, <1>6, <2>1 DEF Publishes
  <2>3. StoreMoves
    BY <2>2 DEF StoreMoves
  <2>4. Changed(doc, r) # Absent /\ drafts'[r.draft] = Changed(doc, r)
    <3>1. IsDoc(r.draft, doc) /\ GoodRequest(r)
      BY <1>2, <1>6 DEF StoreOK, DocsOK, Backed
    <3>2. IsDoc(r.draft, Changed(doc, r))
      BY <1>2, <1>4, <3>1, ChangedIsDoc
    <3>3. QED
      BY <1>2, <1>6, <3>2, DocIs DEF StoreOK, DocsOK
  <2>5. HandlersOK'
    BY <1>1, <1>2, <1>6, <2>3, <2>4, WritesWell
  <2>6. QED
    BY <2>3, <2>5
<1>7. QED
  BY <1>1, <1>3, <1>5, <1>6 DEF Publish, Conflicted, Stored, UnchangedSince

LEMMA ServesWell == ASSUME NEW h \in Handlers PROVE ServedWell(Serve(h))
<1>1. Serve(h) => \/ ReadToShow(h) \/ ReadToCreate(h) \/ ReadToChange(h)
                  \/ Generate(h) \/ GenerationFails(h)
                  \/ Create(h) \/ CompareAndSet(h) \/ Publish(h) \/ Recover(h)
  BY DEF Serve
<1>2. QED
  BY <1>1, ShowsWell, FindsWell, ChecksWell, GeneratesWell, FailsWell, CreatesWell, SetsWell,
     PublishesWell, RecoversWell DEF ServedWell

\* What a request is about, and who waits for it, does not change at work.
LEMMA KeepsRequests ==
  ASSUME StoreOK, HandlersOK, NEW h \in Handlers, Serve(h)
  PROVE  \A k \in Handlers : /\ handler[k].stage = "idle" => handler'[k] = handler[k]
                             /\ handler[k].stage # "idle" => /\ handler'[k].stage # "idle"
                                                             /\ handler'[k].request = handler[k].request
<1>1. /\ handler[h].stage # "idle"
      /\ \/ \E reply : Replies(h, reply)
         \/ \E stage \in Stages \ {"idle"} : \E before : Goes(h, stage, handler[h].request, before)
  <2>1. CASE ReadToShow(h)
    BY <2>1 DEF ReadToShow, Called
  <2>2. CASE ReadToCreate(h)
    <3>1. handler[h].stage # "idle" /\ (\/ \E reply : Replies(h, reply)
                                        \/ Goes(h, "generating", handler[h].request, Absent))
      BY <2>2, CountsPlaces DEF ReadToCreate, Called
    <3>2. QED
      BY <3>1 DEF Stages
  <2>3. CASE ReadToChange(h)
    <3>1. handler[h].stage # "idle" /\ (\/ \E reply : Replies(h, reply)
                                        \/ Goes(h, "generating", handler[h].request, Stored(h))
                                        \/ Goes(h, "writing", handler[h].request, Stored(h)))
      BY <2>3 DEF ReadToChange, Called
    <3>2. QED
      BY <3>1 DEF Stages
  <2>4. CASE Generate(h)
    <3>1. handler[h].stage # "idle" /\ (\/ \E reply : Replies(h, reply)
                                        \/ \E before : Goes(h, "writing", handler[h].request, before))
      BY <2>4 DEF Generate
    <3>2. QED
      BY <3>1 DEF Stages
  <2>5. CASE GenerationFails(h)
    BY <2>5 DEF GenerationFails
  <2>6. CASE Create(h) \/ CompareAndSet(h) \/ Publish(h)
    <3>1. handler[h].stage # "idle" /\ (\/ \E reply : Replies(h, reply)
                                        \/ Goes(h, "conflicted", handler[h].request, Absent))
      BY <2>6 DEF Create, CompareAndSet, Publish, Conflicted, Writes
    <3>2. QED
      BY <3>1 DEF Stages
  <2>7. CASE Recover(h)
    BY <2>7 DEF Recover
  <2>8. QED
    BY <2>1, <2>2, <2>3, <2>4, <2>5, <2>6, <2>7 DEF Serve
<1>2. CASE \E reply : Replies(h, reply)
  BY <1>1, <1>2 DEF Replies, HandlersOK
<1>3. CASE \E stage \in Stages \ {"idle"} : \E before : Goes(h, stage, handler[h].request, before)
  BY <1>1, <1>3 DEF Goes, HandlersOK
<1>4. QED
  BY <1>1, <1>2, <1>3

-----------------------------------------------------------------------------
(***************************************************************************)
(* The pages: what a page holds is a copy, and it awaits a request of its  *)
(* own.                                                                    *)
(***************************************************************************)
Fields == {"saved", "edit", "approvals", "final", "preview", "base", "conflict"}

PageOK(x) ==
  /\ DOMAIN x = Fields
  /\ x.saved # None => Copy(x.saved) /\ x.edit \in [Items -> Texts]
  /\ x.conflict # None => Copy(x.conflict) /\ x.saved # None
  /\ x.preview \in Previews \cup {None}

PagesOK == DOMAIN page = Pages /\ \A p \in Pages : \A x : x = page[p] => PageOK(x)

WaitsOK ==
  /\ DOMAIN waits = Pages
  /\ \A p \in Pages : \A h \in waits[p] :
       /\ h \in Handlers /\ handler[h].stage # "idle" /\ handler[h].request.by = p
       /\ handler[h].request.op = "compare" => Open(p)

StudioOK == StoreOK /\ HandlersOK /\ PagesOK /\ WaitsOK

\* What a step leaves: the store made one of its moves, and all still holds.
StudioStepsTo == StoreMoves /\ StudioOK'

LEMMA PageLasts ==
  ASSUME DocsOK, DocsOK', Advances, NEW x, PageOK(x)
  PROVE  PageOK(x)'
<1>1. x.saved # None => Copy(x.saved)'
  BY CopyLasts DEF PageOK
<1>2. x.conflict # None => Copy(x.conflict)'
  BY CopyLasts DEF PageOK
<1>3. QED
  BY <1>1, <1>2 DEF PageOK

LEMMA PagesMove ==
  ASSUME PagesOK, DocsOK, DocsOK', Advances, NEW p, NEW new,
         page' = [page EXCEPT ![p] = new], PageOK(new)'
  PROVE  PagesOK'
<1>1. ASSUME NEW q \in Pages, NEW x, x = page'[q] PROVE PageOK(x)'
  <2>1. CASE x = new
    BY <2>1
  <2>2. CASE x # new
    <3>1. x = page[q]
      BY <1>1, <2>2 DEF PagesOK
    <3>2. PageOK(x)
      BY <3>1 DEF PagesOK
    <3>3. QED
      BY <3>2, PageLasts
  <2>3. QED
    BY <2>1, <2>2
<1>2. QED
  BY <1>1 DEF PagesOK

LEMMA PagesRest ==
  ASSUME PagesOK, DocsOK, DocsOK', Advances, page' = page
  PROVE  PagesOK'
<1>1. ASSUME NEW q \in Pages, NEW x, x = page'[q] PROVE PageOK(x)'
  BY <1>1, PageLasts DEF PagesOK
<1>2. QED
  BY <1>1 DEF PagesOK

\* A draft taken for saved starts the page anew.
LEMMA AppliedIs ==
  ASSUME NEW v, NEW base, Copy(v)
  PROVE  PageOK(Applied(v, base)) /\ Applied(v, base).saved = v
<1>1. v.items \in [Items -> Texts]
  BY DEF Copy, Views
<1>2. QED
  BY <1>1 DEF PageOK, Applied, Fields

\* What an instructor does on the page alone.
LEMMA LocalStep ==
  ASSUME StudioOK, NEW p \in Pages, NEW new, Locally(p, new), PageOK(new), Open(p) => new.saved # None
  PROVE  StudioStepsTo
<1>1. /\ page' = [page EXCEPT ![p] = new]
      /\ UNCHANGED <<drafts, index, born, published, handler, waits, vouched, signed>>
  BY DEF Locally, authoringVars
<1>2. StoreMoves /\ DocsOK /\ DocsOK' /\ Advances
  BY <1>1, QuietMoves DEF StudioOK, StoreOK
<1>3. StoreOK'
  BY <1>2, StoreStep DEF StudioOK, StoreStepsTo
<1>4. HandlersOK'
  BY <1>1, <1>2, HandlersRest DEF StudioOK
<1>5. PageOK(new)'
  BY <1>2, PageLasts
<1>6. PagesOK'
  BY <1>1, <1>2, <1>5, PagesMove DEF StudioOK
<1>7. \A q \in Pages : Open(q) => Open(q)'
  BY <1>1 DEF StudioOK, PagesOK, Open
<1>8. WaitsOK'
  BY <1>1, <1>7 DEF StudioOK, WaitsOK
<1>9. QED
  BY <1>2, <1>3, <1>4, <1>6, <1>8 DEF StudioStepsTo, StudioOK

LocallyWell(A) == StudioOK /\ A => StudioStepsTo

LEMMA EditsWell == ASSUME NEW p \in Pages PROVE LocallyWell(EditItem(p))
<1> SUFFICES ASSUME StudioOK, EditItem(p) PROVE StudioStepsTo
  BY DEF LocallyWell
<1>1. PICK x : x = page[p]
  OBVIOUS
<1>2. PageOK(x) /\ x.saved # None
  BY <1>1 DEF StudioOK, PagesOK, EditItem, Open
<1>3. PICK i \in Items, text \in Texts : Locally(p, [x EXCEPT !.edit[i] = text])
  BY <1>1 DEF EditItem
<1>4. PageOK([x EXCEPT !.edit[i] = text]) /\ [x EXCEPT !.edit[i] = text].saved # None
  BY <1>2 DEF PageOK, Fields
<1>5. QED
  BY <1>3, <1>4, LocalStep

LEMMA DiscardsWell == ASSUME NEW p \in Pages PROVE LocallyWell(Discard(p))
<1> SUFFICES ASSUME StudioOK, Discard(p) PROVE StudioStepsTo
  BY DEF LocallyWell
<1>1. PICK x : x = page[p]
  OBVIOUS
<1>2. PageOK(x) /\ x.saved # None /\ Locally(p, Applied(x.saved, x.base))
  BY <1>1 DEF StudioOK, PagesOK, Discard, Dirty, Open
<1>3. Copy(x.saved)
  BY <1>2 DEF PageOK
<1>4. QED
  BY <1>2, <1>3, AppliedIs, LocalStep

LEMMA ReviewsWell == ASSUME NEW p \in Pages PROVE LocallyWell(Review(p))
<1> SUFFICES ASSUME StudioOK, Review(p) PROVE StudioStepsTo
  BY DEF LocallyWell
<1>1. PICK x : x = page[p]
  OBVIOUS
<1>2. PageOK(x) /\ x.saved # None /\ Locally(p, [x EXCEPT !.final = ~@])
  BY <1>1 DEF StudioOK, PagesOK, Review, Open
<1>3. PageOK([x EXCEPT !.final = ~@]) /\ [x EXCEPT !.final = ~@].saved # None
  BY <1>2 DEF PageOK, Fields
<1>4. QED
  BY <1>2, <1>3, LocalStep

LEMMA ReplacesWell == ASSUME NEW p \in Pages PROVE LocallyWell(ReplacePreview(p))
<1> SUFFICES ASSUME StudioOK, ReplacePreview(p) PROVE StudioStepsTo
  BY DEF LocallyWell
<1>1. PICK x : x = page[p]
  OBVIOUS
<1>2. PICK pre : pre = x.preview
  OBVIOUS
<1> DEFINE new == [x EXCEPT !.edit[pre.item] = pre.text, !.approvals = @ \ {pre.item},
                            !.preview = None, !.final = FALSE]
<1>3. PageOK(x) /\ x.saved # None /\ pre # None /\ Locally(p, new)
  BY <1>1, <1>2 DEF StudioOK, PagesOK, ReplacePreview, Open
<1>4. pre.text \in Texts
  BY <1>2, <1>3 DEF PageOK, Previews
<1>5. PageOK(new) /\ new.saved # None
  BY <1>3, <1>4 DEF PageOK, Fields
<1>6. QED
  BY <1>3, <1>5, LocalStep

LEMMA DropsWell == ASSUME NEW p \in Pages PROVE LocallyWell(DropPreview(p))
<1> SUFFICES ASSUME StudioOK, DropPreview(p) PROVE StudioStepsTo
  BY DEF LocallyWell
<1>1. PICK x : x = page[p]
  OBVIOUS
<1>2. PageOK(x) /\ Locally(p, [x EXCEPT !.preview = None]) /\ (Open(p) => x.saved # None)
  BY <1>1 DEF StudioOK, PagesOK, DropPreview, Open
<1>3. PageOK([x EXCEPT !.preview = None]) /\ [x EXCEPT !.preview = None].saved = x.saved
  BY <1>2 DEF PageOK, Fields
<1>4. QED
  BY <1>2, <1>3, LocalStep

LEMMA UsesWell == ASSUME NEW p \in Pages PROVE LocallyWell(UseSaved(p))
<1> SUFFICES ASSUME StudioOK, UseSaved(p) PROVE StudioStepsTo
  BY DEF LocallyWell
<1>1. PICK x : x = page[p]
  OBVIOUS
<1>2. PageOK(x) /\ x.conflict # None /\ Locally(p, Applied(x.conflict, x.base))
  BY <1>1 DEF StudioOK, PagesOK, UseSaved
<1>3. Copy(x.conflict)
  BY <1>2 DEF PageOK
<1>4. QED
  BY <1>2, <1>3, AppliedIs, LocalStep

LEMMA KeepsWell == ASSUME NEW p \in Pages PROVE LocallyWell(KeepEditing(p))
<1> SUFFICES ASSUME StudioOK, KeepEditing(p) PROVE StudioStepsTo
  BY DEF LocallyWell
<1>1. PICK x : x = page[p]
  OBVIOUS
<1> DEFINE new == [x EXCEPT !.saved = x.conflict, !.approvals = x.conflict.approvals,
                            !.conflict = None, !.final = FALSE]
<1>2. PageOK(x) /\ x.conflict # None /\ Locally(p, new)
  BY <1>1 DEF StudioOK, PagesOK, KeepEditing
<1>3. PageOK(new) /\ new.saved # None
  BY <1>2 DEF PageOK, Fields
<1>4. QED
  BY <1>2, <1>3, LocalStep

-----------------------------------------------------------------------------
(***************************************************************************)
(* The requests.                                                           *)
(***************************************************************************)
\* A request sent by a page, or by an instructor elsewhere.
LEMMA SendStep ==
  ASSUME StudioOK, NEW h \in Handlers, NEW r, Call(h, r),
         vouched \subseteq vouched', signed \subseteq signed', Backed(r)'
  PROVE  /\ StoreMoves /\ StoreOK' /\ HandlersOK' /\ DocsOK /\ DocsOK' /\ Advances
         /\ handler[h].stage = "idle" /\ handler'[h].stage = "called" /\ handler'[h].request = r
         /\ \A k \in Handlers : k # h => handler'[k] = handler[k]
<1>1. /\ handler[h] = Idle /\ Goes(h, "called", r, Absent)
      /\ UNCHANGED <<drafts, index, born, published>>
  BY DEF Call
<1>2. StoreMoves /\ StoreStepsTo
  BY <1>1, QuietStore DEF StoreMoves, StaysQuiet, StudioOK
<1>3. StoreOK' /\ DocsOK /\ DocsOK' /\ Advances
  BY <1>2 DEF StoreStepsTo, StudioOK, StoreOK
<1>4. HandlersOK'
  BY <1>1, <1>3, GoesOn DEF StudioOK, Stages
<1>5. handler[h].stage = "idle"
  BY <1>1 DEF Idle
<1>6. /\ handler'[h].stage = "called" /\ handler'[h].request = r
      /\ \A k \in Handlers : k # h => handler'[k] = handler[k]
  BY <1>1 DEF Goes, StudioOK, HandlersOK
<1>7. QED
  BY <1>2, <1>3, <1>4, <1>5, <1>6

LEMMA AskMoves ==
  ASSUME StudioOK, NEW p \in Pages, NEW r, Calls(p, r), r.by = p, r.op # "compare",
         vouched \subseteq vouched', signed \subseteq signed', Backed(r)',
         \A q \in Pages : Open(q) => Open(q)'
  PROVE  StoreMoves /\ StoreOK' /\ HandlersOK' /\ WaitsOK' /\ DocsOK /\ DocsOK' /\ Advances
<1>1. PICK h \in Handlers : Call(h, r) /\ waits' = [waits EXCEPT ![p] = {h}]
  BY DEF Calls
<1>2. /\ StoreMoves /\ StoreOK' /\ HandlersOK' /\ DocsOK /\ DocsOK' /\ Advances
      /\ handler[h].stage = "idle" /\ handler'[h].stage = "called" /\ handler'[h].request = r
      /\ \A k \in Handlers : k # h => handler'[k] = handler[k]
  BY <1>1, SendStep
<1>3. WaitsOK'
  BY <1>1, <1>2 DEF StudioOK, WaitsOK
<1>4. QED
  BY <1>2, <1>3

LEMMA AskStep ==
  ASSUME StudioOK, NEW p \in Pages, NEW r, Calls(p, r), r.by = p, r.op # "compare",
         vouched \subseteq vouched', signed \subseteq signed', Backed(r)',
         NEW x, PageOK(x), page' = [page EXCEPT ![p] = x], Open(p) => x.saved # None
  PROVE  StudioStepsTo
<1>1. \A q \in Pages : Open(q) => Open(q)'
  BY DEF StudioOK, PagesOK, Open
<1>2. StoreMoves /\ StoreOK' /\ HandlersOK' /\ WaitsOK' /\ DocsOK /\ DocsOK' /\ Advances
  BY <1>1, AskMoves
<1>3. PageOK(x)'
  BY <1>2, PageLasts
<1>4. PagesOK'
  BY <1>2, <1>3, PagesMove DEF StudioOK
<1>5. QED
  BY <1>2, <1>4 DEF StudioStepsTo, StudioOK

\* Most requests leave the page as it is.
LEMMA AskOnly ==
  ASSUME StudioOK, NEW p \in Pages, NEW r, Calls(p, r), r.by = p, r.op # "compare",
         vouched \subseteq vouched', signed \subseteq signed', Backed(r)', page' = page
  PROVE  StudioStepsTo
<1>1. \A q \in Pages : Open(q) => Open(q)'
  BY DEF Open
<1>2. StoreMoves /\ StoreOK' /\ HandlersOK' /\ WaitsOK' /\ DocsOK /\ DocsOK' /\ Advances
  BY <1>1, AskMoves
<1>3. PagesOK'
  BY <1>2, PagesRest DEF StudioOK
<1>4. QED
  BY <1>2, <1>3 DEF StudioStepsTo, StudioOK

\* A request about what a page takes for saved is about a version the draft has
\* had, and about what the page shows if the draft still has it.
LEMMA AboutCopy ==
  ASSUME DocsOK, NEW v, Copy(v), drafts' = drafts, born' = born,
         NEW r, r.draft = v.draft, r.expected = v.version
  PROVE  /\ r.draft \in Drafts /\ r.expected \in Versions /\ Timely(r)'
         /\ v.items \in [Items -> Texts]
         /\ IsPresent(r)' => drafts'[r.draft].items = v.items
<1>1. v \in Views /\ v.draft \in born /\ r.draft \in Drafts /\ r.expected \in Versions
      /\ v.items \in [Items -> Texts]
  BY DEF Copy, Views
<1>2. Timely(r)'
  BY <1>1 DEF Timely, Copy
<1>3. ASSUME IsPresent(r)' PROVE drafts'[r.draft].items = v.items
  <2>1. v = View(drafts[v.draft])
    BY <1>3 DEF IsPresent, Copy
  <2>2. QED
    BY <2>1, ViewIs
<1>4. QED
  BY <1>1, <1>2, <1>3

LEMMA CreateDraftStep == ASSUME NEW p \in Pages PROVE LocallyWell(CreateDraft(p))
<1> SUFFICES ASSUME StudioOK, CreateDraft(p) PROVE StudioStepsTo
  BY DEF LocallyWell
<1>1. PICK r : r = [op |-> "create", by |-> p, draft |-> p]
  OBVIOUS
<1>2. r.op = "create" /\ r.by = p /\ r.draft \in Drafts
  BY <1>1, Limits
<1>3. Backed(r)'
  BY <1>2 DEF Backed, GoodRequest, Timely, Vouched, Signed, Changing
<1>4. Calls(p, r) /\ page' = page /\ vouched' = vouched /\ signed' = signed
  BY <1>1 DEF CreateDraft, Ask
<1>5. QED
  BY <1>2, <1>3, <1>4, AskOnly

LEMMA OpenDraftStep == ASSUME NEW p \in Pages PROVE LocallyWell(OpenDraft(p))
<1> SUFFICES ASSUME StudioOK, OpenDraft(p) PROVE StudioStepsTo
  BY DEF LocallyWell
<1>1. PICK d \in index \ OtherDrafts : Calls(p, [op |-> "open", by |-> p, draft |-> d])
  BY DEF OpenDraft
<1>2. PICK r : r = [op |-> "open", by |-> p, draft |-> d]
  OBVIOUS
<1>3. r.op = "open" /\ r.by = p /\ r.draft \in Drafts
  BY <1>2 DEF StudioOK, StoreOK, IndexOK, Known
<1>4. Backed(r)'
  BY <1>3 DEF Backed, GoodRequest, Timely, Vouched, Signed, Changing
<1>5. Calls(p, r) /\ page' = page /\ vouched' = vouched /\ signed' = signed
  BY <1>1, <1>2 DEF OpenDraft
<1>6. QED
  BY <1>3, <1>4, <1>5, AskOnly

LEMMA SaveStep == ASSUME NEW p \in Pages PROVE LocallyWell(Save(p))
<1> SUFFICES ASSUME StudioOK, Save(p) PROVE StudioStepsTo
  BY DEF LocallyWell
<1>1. PICK x : x = page[p]
  OBVIOUS
<1>2. PICK v : v = x.saved
  OBVIOUS
<1>3. PageOK(x) /\ v # None
  BY <1>1, <1>2 DEF StudioOK, PagesOK, Save, Dirty, Open
<1>4. Copy(v) /\ x.edit \in [Items -> Texts]
  BY <1>2, <1>3 DEF PageOK
<1>5. PICK r : r = [op |-> "save", by |-> p, draft |-> v.draft, expected |-> v.version, items |-> x.edit]
  OBVIOUS
<1>6. /\ r.op = "save" /\ r.by = p /\ r.draft = v.draft /\ r.expected = v.version /\ r.items = x.edit
  BY <1>5
<1>7. Calls(p, r) /\ page' = page /\ vouched' = vouched /\ signed' = signed
  BY <1>1, <1>2, <1>5 DEF Save, Ask
<1>8. drafts' = drafts /\ born' = born
  BY <1>7 DEF Calls, Call
<1>9. r.draft \in Drafts /\ r.expected \in Versions /\ Timely(r)'
  BY <1>4, <1>6, <1>8, AboutCopy DEF StudioOK, StoreOK
<1>10. Backed(r)'
  BY <1>4, <1>6, <1>9 DEF Backed, GoodRequest, Vouched, Signed, Changing
<1>11. QED
  BY <1>6, <1>7, <1>10, AskOnly

LEMMA ApproveStep == ASSUME NEW p \in Pages PROVE LocallyWell(Approve(p))
<1> SUFFICES ASSUME StudioOK, Approve(p) PROVE StudioStepsTo
  BY DEF LocallyWell
<1>1. PICK x : x = page[p]
  OBVIOUS
<1>2. PICK v : v = x.saved
  OBVIOUS
<1>3. PageOK(x) /\ v # None /\ x.edit = v.items
  BY <1>1, <1>2 DEF StudioOK, PagesOK, Approve, Dirty, Open
<1>4. Copy(v)
  BY <1>2, <1>3 DEF PageOK
<1>5. PICK i \in Items :
        /\ Ask(p, [op |-> "approve", by |-> p, draft |-> v.draft, expected |-> v.version, item |-> i])
        /\ vouched' = vouched \cup {<<v.draft, i, x.edit[i]>>}
  BY <1>1, <1>2 DEF Approve
<1>6. PICK r : r = [op |-> "approve", by |-> p, draft |-> v.draft, expected |-> v.version, item |-> i]
  OBVIOUS
<1>7. r.op = "approve" /\ r.by = p /\ r.draft = v.draft /\ r.expected = v.version /\ r.item = i
  BY <1>6
<1>8. Calls(p, r) /\ page' = page /\ signed' = signed
  BY <1>5, <1>6 DEF Approve, Ask
<1>9. drafts' = drafts /\ born' = born
  BY <1>8 DEF Calls, Call
<1>10. /\ r.draft \in Drafts /\ r.expected \in Versions /\ Timely(r)'
       /\ IsPresent(r)' => drafts'[r.draft].items = v.items
  BY <1>4, <1>7, <1>9, AboutCopy DEF StudioOK, StoreOK
<1>11. Vouched(r)'
  <2>1. <<r.draft, r.item, x.edit[i]>> \in vouched'
    BY <1>5, <1>7
  <2>2. IsPresent(r)' => drafts'[r.draft].items[r.item] = x.edit[i]
    BY <1>3, <1>7, <1>10
  <2>3. QED
    BY <2>1, <2>2 DEF Vouched
<1>12. Backed(r)'
  BY <1>7, <1>10, <1>11 DEF Backed, GoodRequest, Signed, Changing
<1>13. QED
  BY <1>5, <1>7, <1>8, <1>12, AskOnly

LEMMA RegenerateStep == ASSUME NEW p \in Pages PROVE LocallyWell(Regenerate(p))
<1> SUFFICES ASSUME StudioOK, Regenerate(p) PROVE StudioStepsTo
  BY DEF LocallyWell
<1>1. PICK x : x = page[p]
  OBVIOUS
<1>2. PICK v : v = x.saved
  OBVIOUS
<1>3. PageOK(x) /\ v # None
  BY <1>1, <1>2 DEF StudioOK, PagesOK, Regenerate, Open
<1>4. Copy(v)
  BY <1>2, <1>3 DEF PageOK
<1>5. PICK i \in Items :
        /\ Ask(p, [op |-> "regenerate", by |-> p, draft |-> v.draft, expected |-> v.version, item |-> i])
        /\ page' = [page EXCEPT ![p].base = page[p].edit[i]]
  BY <1>1, <1>2 DEF Regenerate
<1>6. PICK r : r = [op |-> "regenerate", by |-> p, draft |-> v.draft, expected |-> v.version, item |-> i]
  OBVIOUS
<1>7. r.op = "regenerate" /\ r.by = p /\ r.draft = v.draft /\ r.expected = v.version /\ r.item = i
  BY <1>6
<1>8. Calls(p, r) /\ vouched' = vouched /\ signed' = signed
  BY <1>5, <1>6 DEF Regenerate, Ask
<1>9. drafts' = drafts /\ born' = born
  BY <1>8 DEF Calls, Call
<1>10. r.draft \in Drafts /\ r.expected \in Versions /\ Timely(r)'
  BY <1>4, <1>7, <1>9, AboutCopy DEF StudioOK, StoreOK
<1>11. Backed(r)'
  BY <1>7, <1>10 DEF Backed, GoodRequest, Vouched, Signed, Changing
<1>12. PICK new : new = [x EXCEPT !.base = x.edit[i]]
  OBVIOUS
<1>13. PageOK(new) /\ new.saved = x.saved
  BY <1>3, <1>12 DEF PageOK, Fields
<1>14. page' = [page EXCEPT ![p] = new] /\ (Open(p) => new.saved # None)
  BY <1>1, <1>5, <1>12, <1>13 DEF Open, StudioOK, PagesOK
<1>15. QED
  BY <1>7, <1>8, <1>11, <1>13, <1>14, AskStep

LEMMA PublishQuizStep == ASSUME NEW p \in Pages PROVE LocallyWell(PublishQuiz(p))
<1> SUFFICES ASSUME StudioOK, PublishQuiz(p) PROVE StudioStepsTo
  BY DEF LocallyWell
<1>1. PICK x : x = page[p]
  OBVIOUS
<1>2. PICK v : v = x.saved
  OBVIOUS
<1>3. PageOK(x) /\ v # None /\ x.edit = v.items
  BY <1>1, <1>2 DEF StudioOK, PagesOK, PublishQuiz, CanPublish, Dirty, Open
<1>4. Copy(v)
  BY <1>2, <1>3 DEF PageOK
<1>5. PICK r : r = [op |-> "publish", by |-> p, draft |-> v.draft, expected |-> v.version]
  OBVIOUS
<1>6. r.op = "publish" /\ r.by = p /\ r.draft = v.draft /\ r.expected = v.version
  BY <1>5
<1>7. /\ Calls(p, r) /\ page' = page /\ vouched' = vouched
      /\ signed' = signed \cup {<<v.draft, x.edit>>}
  BY <1>1, <1>2, <1>5 DEF PublishQuiz, Ask
<1>8. drafts' = drafts /\ born' = born
  BY <1>7 DEF Calls, Call
<1>9. /\ r.draft \in Drafts /\ r.expected \in Versions /\ Timely(r)'
      /\ IsPresent(r)' => drafts'[r.draft].items = v.items
  BY <1>4, <1>6, <1>8, AboutCopy DEF StudioOK, StoreOK
<1>10. Signed(r)'
  BY <1>3, <1>6, <1>7, <1>9 DEF Signed
<1>11. Backed(r)'
  BY <1>6, <1>9, <1>10 DEF Backed, GoodRequest, Vouched, Changing
<1>12. QED
  BY <1>6, <1>7, <1>11, AskOnly

\* An instructor elsewhere sees the draft as it is stored.
LEMMA ElsewhereStep == ASSUME NEW o PROVE LocallyWell(Elsewhere(o))
<1> SUFFICES ASSUME StudioOK, Elsewhere(o) PROVE StudioStepsTo
  BY DEF LocallyWell
<1>1. PICK h \in Handlers, d \in index \ OtherDrafts :
        \/ /\ \E items \in [Items -> Texts] :
                Send(h, [op |-> "save", by |-> o, draft |-> d, expected |-> drafts[d].version,
                         items |-> items])
           /\ UNCHANGED <<vouched, signed>>
        \/ /\ \E i \in Items :
                /\ Send(h, [op |-> "approve", by |-> o, draft |-> d, expected |-> drafts[d].version,
                            item |-> i])
                /\ vouched' = vouched \cup {<<d, i, drafts[d].items[i]>>}
           /\ UNCHANGED signed
        \/ /\ Send(h, [op |-> "publish", by |-> o, draft |-> d, expected |-> drafts[d].version])
           /\ signed' = signed \cup {<<d, drafts[d].items>>}
           /\ UNCHANGED vouched
  BY DEF Elsewhere
<1>2. d \in Drafts /\ d \in born /\ IsDoc(d, drafts[d]) /\ page' = page /\ waits' = waits
  BY DEF Elsewhere, StudioOK, StoreOK, IndexOK, DocsOK, Known
<1>3. PICK doc : doc = drafts[d]
  OBVIOUS
<1>4. doc.version \in Versions /\ doc.version \in Nat
  BY <1>2, <1>3, DocIs
<1>5. \E r : /\ Call(h, r) /\ vouched \subseteq vouched' /\ signed \subseteq signed'
             /\ r.op \in Changing /\ r.draft = d /\ r.expected = doc.version
             /\ r.op = "save" => r.items \in [Items -> Texts]
             /\ r.op = "approve" => r.item \in Items /\ <<d, r.item, doc.items[r.item]>> \in vouched'
             /\ r.op = "publish" => <<d, doc.items>> \in signed'
  <2>1. CASE /\ \E items \in [Items -> Texts] :
                  Send(h, [op |-> "save", by |-> o, draft |-> d, expected |-> drafts[d].version,
                           items |-> items])
             /\ UNCHANGED <<vouched, signed>>
    <3>1. PICK items \in [Items -> Texts] :
            Call(h, [op |-> "save", by |-> o, draft |-> d, expected |-> doc.version, items |-> items])
      BY <1>3, <2>1 DEF Send
    <3>2. PICK r : r = [op |-> "save", by |-> o, draft |-> d, expected |-> doc.version, items |-> items]
      OBVIOUS
    <3>3. r.op = "save" /\ r.draft = d /\ r.expected = doc.version /\ r.items \in [Items -> Texts]
      BY <3>2
    <3>4. QED
      BY <2>1, <3>1, <3>2, <3>3 DEF Changing
  <2>2. CASE /\ \E i \in Items :
                  /\ Send(h, [op |-> "approve", by |-> o, draft |-> d, expected |-> drafts[d].version,
                              item |-> i])
                  /\ vouched' = vouched \cup {<<d, i, drafts[d].items[i]>>}
             /\ UNCHANGED signed
    <3>1. PICK i \in Items :
            /\ Call(h, [op |-> "approve", by |-> o, draft |-> d, expected |-> doc.version, item |-> i])
            /\ vouched' = vouched \cup {<<d, i, doc.items[i]>>}
      BY <1>3, <2>2 DEF Send
    <3>2. PICK r : r = [op |-> "approve", by |-> o, draft |-> d, expected |-> doc.version, item |-> i]
      OBVIOUS
    <3>3. r.op = "approve" /\ r.draft = d /\ r.expected = doc.version /\ r.item = i
      BY <3>2
    <3>4. <<d, i, doc.items[i]>> \in vouched' /\ vouched \subseteq vouched' /\ signed' = signed
      BY <2>2, <3>1
    <3>5. QED
      BY <3>1, <3>2, <3>3, <3>4 DEF Changing
  <2>3. CASE /\ Send(h, [op |-> "publish", by |-> o, draft |-> d, expected |-> drafts[d].version])
             /\ signed' = signed \cup {<<d, drafts[d].items>>}
             /\ UNCHANGED vouched
    <3>1. PICK r : r = [op |-> "publish", by |-> o, draft |-> d, expected |-> doc.version]
      OBVIOUS
    <3>2. Call(h, r) /\ r.op = "publish" /\ r.draft = d /\ r.expected = doc.version
      BY <1>3, <2>3, <3>1 DEF Send
    <3>3. <<d, doc.items>> \in signed' /\ signed \subseteq signed' /\ vouched' = vouched
      BY <1>3, <2>3
    <3>4. QED
      BY <3>2, <3>3 DEF Changing
  <2>4. QED
    BY <1>1, <2>1, <2>2, <2>3
<1>6. PICK r : /\ Call(h, r) /\ vouched \subseteq vouched' /\ signed \subseteq signed'
               /\ r.op \in Changing /\ r.draft = d /\ r.expected = doc.version
               /\ r.op = "save" => r.items \in [Items -> Texts]
               /\ r.op = "approve" => r.item \in Items /\ <<d, r.item, doc.items[r.item]>> \in vouched'
               /\ r.op = "publish" => <<d, doc.items>> \in signed'
  BY <1>5
<1>7. drafts' = drafts /\ born' = born
  BY <1>6 DEF Call
<1>8. GoodRequest(r)
  BY <1>2, <1>4, <1>6 DEF GoodRequest, Changing
<1>9. Timely(r)'
  BY <1>2, <1>3, <1>4, <1>6, <1>7 DEF Timely
<1>10. Vouched(r)' /\ Signed(r)'
  BY <1>3, <1>6, <1>7 DEF Vouched, Signed
<1>11. Backed(r)'
  BY <1>8, <1>9, <1>10 DEF Backed, GoodRequest
<1>12. /\ StoreMoves /\ StoreOK' /\ HandlersOK' /\ DocsOK /\ DocsOK' /\ Advances
       /\ handler[h].stage = "idle" /\ handler'[h].stage = "called" /\ handler'[h].request = r
       /\ \A k \in Handlers : k # h => handler'[k] = handler[k]
  BY <1>6, <1>11, SendStep
<1>13. PagesOK'
  BY <1>2, <1>12, PagesRest DEF StudioOK
<1>14. WaitsOK'
  BY <1>2, <1>12 DEF StudioOK, WaitsOK, Open
<1>15. QED
  BY <1>12, <1>13, <1>14 DEF StudioStepsTo, StudioOK

-----------------------------------------------------------------------------
(***************************************************************************)
(* The answers, and the rest.                                              *)
(***************************************************************************)
LEMMA ReceiveStep == ASSUME NEW p \in Pages, NEW h \in Handlers PROVE LocallyWell(Receive(p, h))
<1> SUFFICES ASSUME StudioOK, Receive(p, h) PROVE StudioStepsTo
  BY DEF LocallyWell
<1>1. PICK x : x = page[p]
  OBVIOUS
<1>2. PICK w : w = handler[h]
  OBVIOUS
<1>3. PageOK(x) /\ HandlerOK(w) /\ w.stage = "replied" /\ h \in waits[p]
  BY <1>1, <1>2 DEF StudioOK, PagesOK, HandlersOK, Receive
<1>4. /\ Backed(w.request) /\ GoodReply(w.request, w.reply) /\ w.request.by = p
      /\ w.request.op = "compare" => x.saved # None
      /\ \A q \in Pages : q # p => h \notin waits[q]
  BY <1>1, <1>2, <1>3 DEF HandlerOK, StudioOK, WaitsOK, Open
<1>5. UNCHANGED <<drafts, index, born, published, vouched, signed>>
  BY DEF Receive
<1>6. StoreMoves /\ DocsOK /\ DocsOK' /\ Advances
  BY <1>5, QuietMoves DEF StudioOK, StoreOK
<1>7. StoreOK'
  BY <1>6, StoreStep DEF StudioOK, StoreStepsTo
<1>8. CASE /\ Open(p) /\ Goes(h, "called", AboutSaved(p, "compare"), Absent)
           /\ UNCHANGED <<page, waits>>
  <2>1. PICK r : r = AboutSaved(p, "compare")
    OBVIOUS
  <2>2. r.op = "compare" /\ r.by = p /\ r.draft = x.saved.draft
    BY <1>1, <2>1 DEF AboutSaved
  <2>3. r.draft \in Drafts
    BY <1>1, <1>3, <1>8, <2>2 DEF PageOK, Open, Copy, Views
  <2>4. Backed(r)'
    BY <2>2, <2>3 DEF Backed, GoodRequest, Timely, Vouched, Signed, Changing
  <2>5. Goes(h, "called", r, Absent)
    BY <1>8, <2>1
  <2>6. HandlersOK'
    BY <1>6, <2>4, <2>5, GoesOn DEF StudioOK, Stages
  <2>7. PagesOK'
    BY <1>6, <1>8, PagesRest DEF StudioOK
  <2>8. /\ handler'[h].stage = "called" /\ handler'[h].request = r
        /\ \A k \in Handlers : k # h => handler'[k] = handler[k]
    BY <2>5 DEF Goes, StudioOK, HandlersOK
  <2>9. WaitsOK'
    BY <1>4, <1>8, <2>2, <2>8 DEF StudioOK, WaitsOK, Open
  <2>10. QED
    BY <1>6, <1>7, <2>6, <2>7, <2>9 DEF StudioStepsTo, StudioOK
<1>9. ASSUME handler' = Free(h), waits' = [waits EXCEPT ![p] = {}],
             \A q \in Pages : q # p => page'[q] = page[q], PagesOK'
      PROVE  StudioStepsTo
  <2>1. HandlersOK'
    BY <1>6, <1>9, Freed DEF StudioOK
  <2>2. \A k \in Handlers : k # h => handler'[k] = handler[k]
    BY <1>9 DEF Free, StudioOK, HandlersOK
  <2>3. WaitsOK'
    BY <1>4, <1>9, <2>2 DEF StudioOK, WaitsOK, Open
  <2>4. QED
    BY <1>6, <1>7, <1>9, <2>1, <2>3 DEF StudioStepsTo, StudioOK
<1>10. CASE handler' = Free(h) /\ waits' = [waits EXCEPT ![p] = {}] /\ page' = page
  <2>1. PagesOK'
    BY <1>6, <1>10, PagesRest DEF StudioOK
  <2>2. QED
    BY <1>9, <1>10, <2>1
<1>11. ASSUME handler' = Free(h), waits' = [waits EXCEPT ![p] = {}],
              NEW new, PageOK(new), page' = [page EXCEPT ![p] = new]
       PROVE  StudioStepsTo
  <2>1. PageOK(new)'
    BY <1>6, <1>11, PageLasts
  <2>2. PagesOK'
    BY <1>6, <1>11, <2>1, PagesMove DEF StudioOK
  <2>3. \A q \in Pages : q # p => page'[q] = page[q]
    BY <1>11 DEF StudioOK, PagesOK
  <2>4. QED
    BY <1>9, <1>11, <2>2, <2>3
<1>12. CASE /\ "code" \notin DOMAIN w.reply
            /\ page' = [page EXCEPT ![p] =
                 CASE w.request.op = "compare" -> [@ EXCEPT !.conflict = View(w.reply)]
                   [] w.request.op = "regenerate" -> [@ EXCEPT !.preview = w.reply]
                   [] w.request.op \notin {"compare", "regenerate"} -> Applied(View(w.reply), @.base)]
            /\ handler' = Free(h)
            /\ waits' = [waits EXCEPT ![p] = {}]
  <2>1. PICK v : v = View(w.reply)
    OBVIOUS
  <2>2. IF w.request.op = "regenerate" THEN w.reply \in Previews ELSE Copy(v)
    BY <1>4, <1>12, <2>1 DEF GoodReply
  <2>3. CASE w.request.op = "compare"
    <3>1. PICK new : new = [x EXCEPT !.conflict = v]
      OBVIOUS
    <3>2. PageOK(new)
      BY <1>3, <1>4, <2>2, <2>3, <3>1 DEF PageOK, Fields
    <3>3. page' = [page EXCEPT ![p] = new]
      BY <1>1, <1>12, <2>1, <2>3, <3>1
    <3>4. QED
      BY <1>11, <1>12, <3>2, <3>3
  <2>4. CASE w.request.op = "regenerate"
    <3>1. PICK new : new = [x EXCEPT !.preview = w.reply]
      OBVIOUS
    <3>2. PageOK(new)
      BY <1>3, <2>2, <2>4, <3>1 DEF PageOK, Fields
    <3>3. page' = [page EXCEPT ![p] = new]
      BY <1>1, <1>12, <2>4, <3>1
    <3>4. QED
      BY <1>11, <1>12, <3>2, <3>3
  <2>5. CASE w.request.op \notin {"compare", "regenerate"}
    <3>1. PICK new : new = Applied(v, x.base)
      OBVIOUS
    <3>2. PageOK(new)
      BY <2>2, <2>5, <3>1, AppliedIs
    <3>3. page' = [page EXCEPT ![p] = new]
      BY <1>1, <1>12, <2>1, <2>5, <3>1
    <3>4. QED
      BY <1>11, <1>12, <3>2, <3>3
  <2>6. QED
    BY <2>3, <2>4, <2>5
<1>13. QED
  BY <1>2, <1>8, <1>10, <1>12 DEF Receive

\* Steps of the store alone, and of who waits.
LEMMA RestStep ==
  ASSUME StudioOK, StoreMoves, HandlersOK', WaitsOK', page' = page
  PROVE  StudioStepsTo
<1>1. StoreOK' /\ DocsOK /\ DocsOK' /\ Advances
  BY StoreStep DEF StudioOK, StoreStepsTo, StoreOK
<1>2. PagesOK'
  BY <1>1, PagesRest DEF StudioOK
<1>3. QED
  BY <1>1, <1>2 DEF StudioStepsTo, StudioOK

LEMMA QuietHandlers == ASSUME StudioOK, StoreMoves, handler' = handler PROVE HandlersOK'
<1>1. DocsOK /\ DocsOK' /\ Advances
  BY StoreStep DEF StudioOK, StoreStepsTo, StoreOK
<1>2. QED
  BY <1>1, HandlersRest DEF StudioOK

LEMMA LoseStep == ASSUME NEW p \in Pages PROVE LocallyWell(Lose(p))
<1> SUFFICES ASSUME StudioOK, Lose(p) PROVE StudioStepsTo
  BY DEF LocallyWell
<1>1. /\ UNCHANGED <<drafts, index, born, published, vouched, signed>> /\ handler' = handler
      /\ page' = page /\ waits' = [waits EXCEPT ![p] = {}]
  BY DEF Lose, authoringVars
<1>2. StoreMoves
  BY <1>1, QuietMoves DEF StudioOK
<1>3. HandlersOK'
  BY <1>1, <1>2, QuietHandlers
<1>4. WaitsOK'
  BY <1>1 DEF StudioOK, WaitsOK, Open
<1>5. QED
  BY <1>1, <1>2, <1>3, <1>4, RestStep

LEMMA DroppedStep == ASSUME NEW h \in Handlers PROVE LocallyWell(Dropped(h))
<1> SUFFICES ASSUME StudioOK, Dropped(h) PROVE StudioStepsTo
  BY DEF LocallyWell
<1>1. /\ UNCHANGED <<drafts, index, born, published, vouched, signed>> /\ handler' = Free(h)
      /\ page' = page /\ waits' = waits /\ \A p \in Pages : h \notin waits[p]
  BY DEF Dropped
<1>2. StoreMoves /\ DocsOK' /\ Advances
  BY <1>1, QuietMoves DEF StudioOK
<1>3. HandlersOK'
  BY <1>1, <1>2, Freed DEF StudioOK, StoreOK
<1>4. \A k \in Handlers : k # h => handler'[k] = handler[k]
  BY <1>1 DEF Free, StudioOK, HandlersOK
<1>5. WaitsOK'
  BY <1>1, <1>4 DEF StudioOK, WaitsOK, Open
<1>6. QED
  BY <1>1, <1>2, <1>3, <1>5, RestStep

LEMMA ServiceStep == LocallyWell(Service)
<1> SUFFICES ASSUME StudioOK, Service PROVE StudioStepsTo
  BY DEF LocallyWell
<1>1. PICK h \in Handlers : Serve(h)
  BY DEF Service
<1>2. vouched' = vouched /\ signed' = signed /\ page' = page /\ waits' = waits
  BY DEF Service
<1>3. StoreMoves /\ HandlersOK'
  BY <1>1, <1>2, ServesWell DEF ServedWell, StudioOK
<1>4. \A k \in Handlers : handler[k].stage # "idle" => /\ handler'[k].stage # "idle"
                                                       /\ handler'[k].request = handler[k].request
  BY <1>1, KeepsRequests DEF StudioOK
<1>5. WaitsOK'
  BY <1>2, <1>4 DEF StudioOK, WaitsOK, Open
<1>6. QED
  BY <1>2, <1>3, <1>5, RestStep

LEMMA OthersStep == LocallyWell(Expiry \/ Places)
<1> SUFFICES ASSUME StudioOK, Expiry \/ Places PROVE StudioStepsTo
  BY DEF LocallyWell
<1>1. Lapses \/ Takes
  BY DEF Expiry, Places, Lapses, Takes
<1>2. StoreMoves /\ handler' = handler /\ page' = page /\ waits' = waits
  BY <1>1 DEF StoreMoves, Expiry, Places, Expire, TakePlace
<1>3. HandlersOK'
  BY <1>2, QuietHandlers
<1>4. WaitsOK'
  BY <1>2 DEF StudioOK, WaitsOK, Open
<1>5. QED
  BY <1>2, <1>3, <1>4, RestStep

LEMMA StutterStep == LocallyWell(UNCHANGED vars)
<1> SUFFICES ASSUME StudioOK, UNCHANGED vars PROVE StudioStepsTo
  BY DEF LocallyWell
<1>1. /\ UNCHANGED <<drafts, index, born, published, vouched, signed>>
      /\ handler' = handler /\ page' = page /\ waits' = waits
  BY DEF vars, authoringVars
<1>2. StoreMoves
  BY <1>1, QuietMoves DEF StudioOK
<1>3. HandlersOK'
  BY <1>1, <1>2, QuietHandlers
<1>4. WaitsOK'
  BY <1>1 DEF StudioOK, WaitsOK, Open
<1>5. QED
  BY <1>1, <1>2, <1>3, <1>4, RestStep
-----------------------------------------------------------------------------
(* The invariant *)

LEMMA StudioStart == StudioInit => StudioOK
<1> SUFFICES ASSUME StudioInit PROVE StudioOK
  OBVIOUS
<1>1. /\ drafts = [d \in Drafts |-> Absent] /\ born = {} /\ index = {} /\ published = << >>
      /\ handler = [h \in Handlers |-> Idle] /\ page = [p \in Pages |-> Blank]
      /\ waits = [p \in Pages |-> {}]
  BY DEF StudioInit, Init
<1>2. DOMAIN published = {}
  BY <1>1
<1>3. DocsOK /\ Known = {}
  BY <1>1 DEF DocsOK, Known
<1>4. IndexOK
  BY <1>1, FS_EmptySet DEF IndexOK
<1>5. ApprovedAsSeen /\ PublishedOK
  BY <1>2, <1>3 DEF ApprovedAsSeen, PublishedOK, PublishedAsReviewed
<1>6. Idle.stage = "idle"
  BY DEF Idle
<1>7. HandlersOK
  BY <1>1, <1>6 DEF HandlersOK, HandlerOK, Stages
<1>8. PageOK(Blank)
  BY DEF PageOK, Blank, Fields
<1>9. PagesOK /\ WaitsOK
  BY <1>1, <1>8 DEF PagesOK, WaitsOK
<1>10. QED
  BY <1>3, <1>4, <1>5, <1>7, <1>9 DEF StudioOK, StoreOK

LEMMA StudioStep == StudioOK /\ [StudioNext]_vars => StudioStepsTo
<1> SUFFICES ASSUME StudioOK, [StudioNext]_vars PROVE StudioStepsTo
  OBVIOUS
<1>1. ASSUME NEW p \in Pages,
             \/ CreateDraft(p) \/ OpenDraft(p) \/ Save(p) \/ Approve(p) \/ Regenerate(p) \/ PublishQuiz(p)
             \/ EditItem(p) \/ Discard(p) \/ Review(p) \/ ReplacePreview(p) \/ DropPreview(p)
             \/ UseSaved(p) \/ KeepEditing(p)
             \/ Lose(p)
      PROVE  StudioStepsTo
  BY <1>1, CreateDraftStep, OpenDraftStep, SaveStep, ApproveStep, RegenerateStep, PublishQuizStep,
     EditsWell, DiscardsWell, ReviewsWell, ReplacesWell, DropsWell, UsesWell, KeepsWell, LoseStep
     DEF LocallyWell
<1>2. ASSUME NEW p \in Pages, NEW h \in Handlers, Receive(p, h) PROVE StudioStepsTo
  BY <1>2, ReceiveStep DEF LocallyWell
<1>3. ASSUME NEW o \in Others, Elsewhere(o) PROVE StudioStepsTo
  BY <1>3, ElsewhereStep DEF LocallyWell
<1>4. ASSUME NEW h \in Handlers, Dropped(h) PROVE StudioStepsTo
  BY <1>4, DroppedStep DEF LocallyWell
<1>5. CASE Service \/ Expiry \/ Places \/ UNCHANGED vars
  BY <1>5, ServiceStep, OthersStep, StutterStep DEF LocallyWell
<1>6. QED
  BY <1>1, <1>2, <1>3, <1>4, <1>5 DEF StudioNext

LEMMA StudioInvariant == StudioSpec => []StudioOK
<1>1. StudioOK /\ [StudioNext]_vars => StudioOK'
  BY StudioStep DEF StudioStepsTo
<1>2. QED
  BY <1>1, StudioStart, PTL DEF StudioSpec
-----------------------------------------------------------------------------
(* What follows from it *)

LEMMA TypesHold == StudioOK => TypeOK
<1> SUFFICES ASSUME StudioOK PROVE TypeOK
  OBVIOUS
<1>1. ASSUME NEW d \in Known
      PROVE  /\ View(drafts[d]) \in Views
             /\ drafts[d].approved \in [Items -> Texts \cup {NoText}]
             /\ Cardinality(drafts[d].intents) <=
                  MaxIntents + (IF drafts[d].status = "published" THEN 1 ELSE 0)
  <2>1. d \in Drafts /\ IsDoc(d, drafts[d])
    BY DEF Known, StudioOK, StoreOK, DocsOK
  <2>2. View(drafts[d]) \in Views
    BY <2>1, DocIs
  <2>3. QED
    BY <2>1, <2>2 DEF IsDoc
<1>2. index \subseteq Known \cup OtherDrafts /\ born \subseteq Drafts \cup OtherDrafts
  BY DEF StudioOK, StoreOK, IndexOK
<1>3. \A d \in DOMAIN published \ OtherDrafts : published[d] \in [Items -> Texts]
  BY DEF StudioOK, StoreOK, PublishedOK
<1>4. \A h \in Handlers : handler[h].stage \in
        {"idle", "called", "generating", "writing", "conflicted", "replied"}
  BY DEF StudioOK, HandlersOK, HandlerOK, Stages
<1>5. ASSUME NEW p \in Pages
      PROVE  /\ page[p].saved \in Views \cup {None}
             /\ Open(p) => page[p].edit \in [Items -> Texts]
             /\ page[p].conflict \in Views \cup {None}
             /\ page[p].preview \in Previews \cup {None}
             /\ \A h \in waits[p] : handler[h] # Idle /\ handler[h].request.by = p
  <2>1. PageOK(page[p])
    BY DEF StudioOK, PagesOK
  <2>2. \A h \in waits[p] : handler[h].stage # "idle" /\ handler[h].request.by = p
    BY DEF StudioOK, WaitsOK
  <2>3. \A h \in waits[p] : handler[h] # Idle
    BY <2>2 DEF Idle
  <2>4. QED
    BY <2>1, <2>2, <2>3 DEF PageOK, Copy, Open
<1>6. QED
  BY <1>1, <1>2, <1>3, <1>4, <1>5 DEF TypeOK

LEMMA VersionsHold == StudioOK => PageKnowsItsVersion
<1> SUFFICES ASSUME StudioOK PROVE PageKnowsItsVersion
  OBVIOUS
<1>1. ASSUME NEW p \in Pages, NEW v \in {page[p].saved, page[p].conflict} \ {None},
             drafts[v.draft].version = v.version
      PROVE  View(drafts[v.draft]) = v
  <2>1. PageOK(page[p])
    BY DEF StudioOK, PagesOK
  <2>2. Copy(v)
    BY <2>1 DEF PageOK
  <2>3. drafts[v.draft] # Absent
    <3>1. v.version \in Versions
      BY <2>2 DEF Copy, Views
    <3>2. v.version # 0
      BY <3>1 DEF Versions
    <3>3. QED
      BY <1>1, <3>2 DEF Absent
  <2>4. QED
    BY <1>1, <2>2, <2>3 DEF Copy
<1>2. QED
  BY <1>1, TypesHold DEF PageKnowsItsVersion

\* An approval the service holds names the present content of its question, and
\* was asked for by an instructor whose page showed that content.
THEOREM ApprovalsAreAsSeen == StudioSpec => []ApprovedAsSeen
<1>1. StudioOK => ApprovedAsSeen
  BY DEF StudioOK, StoreOK
<1>2. QED
  BY <1>1, StudioInvariant, PTL

\* A published quiz is what a page showed when it was declared reviewed, every
\* question of it approved as it stands, and the draft says the same.
THEOREM PublicationsAreAsReviewed == StudioSpec => []PublishedAsReviewed
<1>1. StudioOK => PublishedAsReviewed
  BY DEF StudioOK, StoreOK, PublishedOK
<1>2. QED
  BY <1>1, StudioInvariant, PTL

\* What a page takes for the saved draft, or for the one in conflict with its
\* edits, is the stored draft as long as the versions agree; with it, the types.
THEOREM PagesKnowTheirVersion == StudioSpec => []PageKnowsItsVersion
<1>1. QED
  BY VersionsHold, StudioInvariant, PTL

\* The compare-and-set undoes no accepted change, each change is one version,
\* and a published quiz stays as it is.
THEOREM NoChangesAreLost == StudioSpec => NoChangeIsLost
<1>1. ASSUME StudioOK, [StudioNext]_vars
      PROVE  [/\ \A d \in Known \cap Known' :
                   /\ drafts[d].intents \subseteq drafts'[d].intents
                   /\ drafts'[d].version - drafts[d].version =
                        Cardinality(drafts'[d].intents \ drafts[d].intents)
              /\ \A d \in DOMAIN published : d \in DOMAIN published' /\ published'[d] = published[d]]_vars
  <2>1. NothingLost
    BY <1>1, StudioStep, StoreStep DEF StudioStepsTo, StudioOK, StoreStepsTo
  <2>2. \A d \in Known \cap Known' : d \in Drafts /\ drafts[d] # Absent /\ drafts'[d] # Absent
    BY DEF Known
  <2>3. QED
    BY <2>1, <2>2 DEF NothingLost
<1>2. QED
  BY <1>1, StudioInvariant, PTL DEF StudioSpec, NoChangeIsLost
===============================================================================
