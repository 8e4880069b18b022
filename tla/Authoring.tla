------------------------------ MODULE Authoring ------------------------------
(***************************************************************************)
(* Drafts of a quiz as the learning service keeps them: one document per   *)
(* draft, read and written back by compare-and-set on its whole text, an   *)
(* approval per question that names the content approved, and a            *)
(* publication script that writes the definition, its room and the         *)
(* finished draft at once.                                                 *)
(*                                                                         *)
(* The content of a question is one value; its word is its own, so that    *)
(* the test for duplicate words never bites.  A page draws one             *)
(* clientActionId for each action and body, so that a request stands for   *)
(* its id and for its fingerprint.  The title is left out, and the         *)
(* operator session: a request it stops at the door does nothing, one it   *)
(* stops at the end has done everything but gets no answer.                *)
(***************************************************************************)
EXTENDS Integers, FiniteSets

CONSTANTS
  Drafts,           \* draft ids; a create action has one of its own
  Items,            \* the questions of a draft
  Texts,            \* what the content of a question may be
  NoText,           \* no approval, in the place of the content it names
  OtherDrafts,      \* drafts that matter for the places they take only
  Handlers,         \* requests at work at the same time
  DraftQuota,       \* 20 in the code
  PublishQuota,     \* 20 in the code
  MaxIntents        \* changes a draft accepts, 200 in the code

ASSUME AuthoringAssumption ==
  /\ NoText \notin Texts
  /\ OtherDrafts \cap Drafts = {}
  /\ IsFiniteSet(Items)
  /\ {DraftQuota, PublishQuota, MaxIntents} \subseteq Nat

VARIABLES
  drafts,           \* the document of each draft
  index,            \* the drafts whose entry in the index has not lapsed
  born,             \* the drafts created so far: none is created again once expired
  published,        \* the published definitions, each with its room, by draft
  handler           \* the requests at work

authoringVars == <<drafts, index, born, published, handler>>

Absent == [version |-> 0]
Idle == [stage |-> "idle"]
Refused(code) == [code |-> code]
Put(f, k, v) == [x \in DOMAIN f \cup {k} |-> IF x = k THEN v ELSE f[x]]

New(d, items) ==
  [draft |-> d, version |-> 1, status |-> "needs-review", items |-> items,
   approved |-> [i \in Items |-> NoText], intents |-> {}]

Goes(h, stage, r, before) ==
  handler' = [handler EXCEPT ![h] = [stage |-> stage, request |-> r, before |-> before]]
Replies(h, reply) ==
  handler' = [handler EXCEPT ![h] = [stage |-> "replied", request |-> @.request, reply |-> reply]]

Init ==
  /\ drafts = [d \in Drafts |-> Absent]
  /\ born = {}
  /\ index = {}
  /\ published = << >>
  /\ handler = [h \in Handlers |-> Idle]
-----------------------------------------------------------------------------
(* What a request does to a document *)

AllApproved(doc) == \A i \in Items : doc.approved[i] = doc.items[i]

\* Mutation: the version the page was looking at is not compared.
VerdictUnversioned(doc, r) ==
  IF r \in doc.intents THEN "replayed"
  ELSE IF doc.status = "published" THEN "DRAFT_PUBLISHED"
  ELSE IF r.op \in {"save", "approve"} /\ Cardinality(doc.intents) >= MaxIntents THEN "AI_LIMIT_REACHED"
  ELSE IF r.op = "publish" /\ ~AllApproved(doc) THEN "APPROVAL_REQUIRED"
  ELSE "ok"

\* Why a change is answered without writing, or "ok".
Verdict(doc, r) ==
  IF r \in doc.intents THEN "replayed"
  ELSE IF doc.status = "published" THEN "DRAFT_PUBLISHED"
  ELSE IF doc.version # r.expected THEN "VERSION_CONFLICT"
  ELSE IF r.op \in {"save", "approve"} /\ Cardinality(doc.intents) >= MaxIntents THEN "AI_LIMIT_REACHED"
  ELSE IF r.op = "publish" /\ ~AllApproved(doc) THEN "APPROVAL_REQUIRED"
  ELSE "ok"

\* Mutation: a question keeps its approval when it is edited.
SavedApproved(doc, r) == [doc EXCEPT !.items = r.items]

SavedWith(doc, r) ==
  [doc EXCEPT !.items = r.items,
              !.approved = [i \in Items |-> IF r.items[i] = doc.items[i] THEN doc.approved[i] ELSE NoText]]

Changed(doc, r) ==
  LET new == CASE r.op = "save" -> SavedWith(doc, r)
               [] r.op = "approve" -> [doc EXCEPT !.approved[r.item] = doc.items[r.item]]
               [] r.op = "publish" -> [doc EXCEPT !.status = "published"]
  IN [new EXCEPT !.version = @ + 1, !.intents = @ \cup {r}]
-----------------------------------------------------------------------------
(* The requests, from one access to Redis to the next *)

Call(h, r) ==
  /\ handler[h] = Idle
  /\ Goes(h, "called", r, Absent)
  /\ UNCHANGED <<drafts, index, born, published>>

Called(h, ops) == handler[h].stage = "called" /\ handler[h].request.op \in ops
Stored(h) == drafts[handler[h].request.draft]

ReadToShow(h) ==
  /\ Called(h, {"open", "compare"})
  /\ Replies(h, IF Stored(h) = Absent THEN Refused("DRAFT_NOT_FOUND") ELSE Stored(h))
  /\ UNCHANGED <<drafts, index, born, published>>

\* The list of drafts is counted right after the draft was looked up.
ReadToCreate(h) ==
  /\ Called(h, {"create"})
  /\ CASE Stored(h) # Absent -> Replies(h, Stored(h))
       [] Stored(h) = Absent /\ Cardinality(index) >= DraftQuota -> Replies(h, Refused("AUTHORING_QUOTA"))
       [] Stored(h) = Absent /\ Cardinality(index) < DraftQuota ->
            Goes(h, "generating", handler[h].request, Absent)
  /\ UNCHANGED <<drafts, index, born, published>>

ReadToChange(h) ==
  /\ Called(h, {"save", "approve", "publish", "regenerate"})
  /\ LET r == handler[h].request
         verdict == IF Stored(h) = Absent THEN "DRAFT_NOT_FOUND" ELSE Verdict(Stored(h), r)
     IN CASE verdict = "replayed" -> Replies(h, Stored(h))
          [] verdict = "ok" -> Goes(h, IF r.op = "regenerate" THEN "generating" ELSE "writing", r, Stored(h))
          [] verdict \notin {"replayed", "ok"} -> Replies(h, Refused(verdict))
  /\ UNCHANGED <<drafts, index, born, published>>

\* The provider answered with valid content, or it did not.
Generate(h) ==
  /\ handler[h].stage = "generating"
  /\ LET r == handler[h].request IN
     \/ /\ r.op = "create"
        /\ \E items \in [Items -> Texts] : Goes(h, "writing", r, New(r.draft, items))
     \/ /\ r.op = "regenerate"
        /\ \E text \in Texts : Replies(h, [draft |-> r.draft, item |-> r.item, version |-> r.expected, text |-> text])
  /\ UNCHANGED <<drafts, index, born, published>>

GenerationFails(h) ==
  /\ handler[h].stage = "generating"
  /\ Replies(h, Refused("AI_UNAVAILABLE"))
  /\ UNCHANGED <<drafts, index, born, published>>

Writes(h, ops) == handler[h].stage = "writing" /\ handler[h].request.op \in ops
Conflicted(h) == Goes(h, "conflicted", handler[h].request, Absent)

Create(h) ==
  /\ Writes(h, {"create"})
  /\ LET doc == handler[h].before IN
     \/ /\ Stored(h) # Absent
        /\ Conflicted(h)
        /\ UNCHANGED <<drafts, index, born>>
     \/ /\ Stored(h) = Absent /\ Cardinality(index) >= DraftQuota
        /\ Replies(h, Refused("AUTHORING_QUOTA"))
        /\ UNCHANGED <<drafts, index, born>>
     \/ /\ Stored(h) = Absent /\ Cardinality(index) < DraftQuota
        /\ doc.draft \notin born    \* bound: in the code an id is created again once expired
        /\ drafts' = [drafts EXCEPT ![doc.draft] = doc]
        /\ index' = index \cup {doc.draft}
        /\ born' = born \cup {doc.draft}
        /\ Replies(h, doc)
  /\ UNCHANGED published

\* Mutation: whatever is stored is overwritten.
UnchangedSinceAny(h) == Stored(h) # Absent

UnchangedSince(h) == Stored(h) = handler[h].before
CompareAndSet(h) ==
  /\ Writes(h, {"save", "approve"})
  /\ LET r == handler[h].request IN
     \/ /\ Stored(h) = Absent
        /\ Replies(h, Refused("DRAFT_NOT_FOUND"))
        /\ UNCHANGED drafts
     \/ /\ Stored(h) # Absent /\ ~UnchangedSince(h)
        /\ Conflicted(h)
        /\ UNCHANGED drafts
     \/ /\ Stored(h) # Absent /\ UnchangedSince(h)
        /\ drafts' = [drafts EXCEPT ![r.draft] = Changed(handler[h].before, r)]
        /\ Replies(h, Changed(handler[h].before, r))
  /\ UNCHANGED <<index, born, published>>

\* publicationScript: the definition, its room and the draft, or none of them.
Publish(h) ==
  /\ Writes(h, {"publish"})
  /\ LET r == handler[h].request
         doc == handler[h].before
     IN
     \/ /\ Stored(h) = Absent
        /\ Replies(h, Refused("DRAFT_NOT_FOUND"))
        /\ UNCHANGED <<drafts, published>>
     \/ /\ Stored(h) # Absent /\ (~UnchangedSince(h) \/ r.draft \in DOMAIN published)
        /\ Conflicted(h)
        /\ UNCHANGED <<drafts, published>>
     \/ /\ Stored(h) # Absent /\ UnchangedSince(h) /\ r.draft \notin DOMAIN published
        /\ Cardinality(DOMAIN published) >= PublishQuota
        /\ Replies(h, Refused("AUTHORING_QUOTA"))
        /\ UNCHANGED <<drafts, published>>
     \/ /\ Stored(h) # Absent /\ UnchangedSince(h) /\ r.draft \notin DOMAIN published
        /\ Cardinality(DOMAIN published) < PublishQuota
        /\ drafts' = [drafts EXCEPT ![r.draft] = Changed(doc, r)]
        /\ published' = Put(published, r.draft, doc.items)
        /\ Replies(h, Changed(doc, r))
  /\ UNCHANGED <<index, born>>

\* After a conflict the draft is read again: the same request may have won.
Recover(h) ==
  /\ handler[h].stage = "conflicted"
  /\ LET r == handler[h].request IN
     IF Stored(h) = Absent
     THEN Replies(h, Refused(IF r.op = "create" THEN "DRAFT_NOT_FOUND" ELSE "VERSION_CONFLICT"))
     ELSE Replies(h, IF r.op = "create" \/ r \in Stored(h).intents THEN Stored(h) ELSE Refused("VERSION_CONFLICT"))
  /\ UNCHANGED <<drafts, index, born, published>>

\* Another draft is created, or published.
TakePlace(d) ==
  \/ /\ d \notin born /\ Cardinality(index) < DraftQuota
     /\ index' = index \cup {d}
     /\ born' = born \cup {d}
     /\ UNCHANGED <<drafts, published, handler>>
  \/ /\ d \in index \ DOMAIN published /\ Cardinality(DOMAIN published) < PublishQuota
     /\ published' = Put(published, d, << >>)
     /\ UNCHANGED <<drafts, index, born, handler>>

\* Thirty days later the draft goes, and its entry in the index with it.
Expire(d) ==
  /\ d \in index
  /\ index' = index \ {d}
  /\ drafts' = [x \in Drafts |-> IF x = d THEN Absent ELSE drafts[x]]
  /\ UNCHANGED <<born, published, handler>>

Serve(h) ==
  \/ ReadToShow(h) \/ ReadToCreate(h) \/ ReadToChange(h)
  \/ Generate(h) \/ GenerationFails(h)
  \/ Create(h) \/ CompareAndSet(h) \/ Publish(h) \/ Recover(h)
=============================================================================
